------------------------------ MODULE MCConfig ------------------------------
(* Two places to look, two changes behind the process's back, and tiers     *)
(* that state, shadow and overrun every setting.                            *)
EXTENDS Config, TLC

Addr(ip, port) == [ip |-> ip, port |-> port]

A4 == Addr("0.0.0.0", 53)
A6 == Addr("::", 53)
Host == Addr("10.0.0.1", 5353)

\* No admin listener.
NoAddr == Addr("none", 0)

MCClientAdmin == Addr("127.0.0.1", 9100)

MCKeys ==
    {"udp", "tcp", "origin", "ttl", "builtins", "no_builtins", "timeout", "drain",
     "qps", "burst", "admin", "log_format", "log_level", "admin_token"}
MCRenamed == MCKeys \ {"drain", "ttl", "builtins"}

\* The numbers are scaled down: u32::MAX is 7, and the longest drain 3.
MCDefaults ==
    ("udp" :> <<Addr("0.0.0.0", 1053)>>) @@ ("tcp" :> <<>>) @@ ("origin" :> "dnsserver.dev")
    @@ ("ttl" :> 3) @@ ("builtins" :> TRUE) @@ ("timeout" :> 1) @@ ("drain" :> 2)
    @@ ("qps" :> 0) @@ ("admin" :> NoAddr) @@ ("log_format" :> "pretty")
    @@ ("log_level" :> "info") @@ ("admin_token" :> "none")

None == <<>>

\* Tiers the command line and the environment may hold.
Args ==
    {None,
     ("udp" :> <<Host>>) @@ ("drain" :> 0) @@ ("burst" :> 2) @@ ("admin" :> Host),
     ("tcp" :> <<A6>>) @@ ("qps" :> 4) @@ ("no_builtins" :> TRUE) @@ ("admin_token" :> "new"),
     ("udp" :> <<A4, A4>>),
     ("drain" :> 4) @@ ("timeout" :> 2) @@ ("log_format" :> "pretty")}

Env ==
    {None,
     ("origin" :> "a.example") @@ ("timeout" :> 3) @@ ("log_level" :> "debug")
        @@ ("no_builtins" :> FALSE),
     ("qps" :> 0) @@ ("udp" :> <<A6>>) @@ ("admin" :> Addr("0.0.0.0", 9100))}

Legacy ==
    {None,
     ("origin" :> "b.example") @@ ("qps" :> 3) @@ ("drain" :> 1) @@ ("no_builtins" :> TRUE)}

\* Tiers a file may hold.
Files ==
    {None,
     ("udp" :> <<>>) @@ ("tcp" :> <<Host>>) @@ ("origin" :> "c.example") @@ ("drain" :> 3)
        @@ ("admin_token" :> "old") @@ ("log_level" :> "warn"),
     ("udp" :> <<A4, A4>>) @@ ("qps" :> 5) @@ ("burst" :> 0),
     ("qps" :> 2) @@ ("burst" :> 6) @@ ("builtins" :> FALSE) @@ ("log_format" :> "json"),
     ("drain" :> -1) @@ ("ttl" :> 1),
     ("origin" :> "") @@ ("builtins" :> FALSE) @@ ("timeout" :> 0),
     ("ttl" :> 0),
     ("admin" :> Host)}

Texts == {<<>>, <<"n">>, <<"e", "n", "a">>, <<"a", "n", "g", "e", "a">>, <<"n", "n", "u">>}

Broken ==
    {[is |-> "broken", text |-> t, span |-> o] : t \in Texts, o \in (0 .. 9) \cup {Unset}}

Good == {[is |-> "good", tier |-> t] : t \in Files}

MCSearchPath == <<"vega.toml", "dns-server.toml">>

MCInvocations ==
    [args : Args, env : Env, legacy : Legacy, config : {Unset}]
    \cup [args : {None}, env : {None}, legacy : {None}, config : {"vega.toml"}]

\* What a change may bring: one file that works and one that cannot be read.
MCContents == {[is |-> "good", tier |-> ("drain" :> 3)], [is |-> "unreadable"]}

MCDisks ==
    {("vega.toml" :> f) @@ ("dns-server.toml" :> Absent) : f \in Good \cup Broken}
    \cup {("vega.toml" :> Absent) @@ ("dns-server.toml" :> f) :
             f \in {Absent, [is |-> "good", tier |-> ("origin" :> "c.example")]}}
=============================================================================
