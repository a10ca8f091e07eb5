------------------------------ MODULE MCReload ------------------------------
(* Reload on small instances: one content of the file per outcome of a      *)
(* reload; listeners, a limiter, and a token pinned by the command line.    *)
EXTENDS Reload, TLC

CONSTANTS r1, r2, r3, token, v1, v2

MCLoneKeys == {token}
MCSettings == {v1, v2} \cup 0..MaxU32
Keys(t, u, c, q, b) ==
    [k \in FixedKeys |->
        IF k = token THEN t ELSE IF k = "udp" THEN u ELSE IF k = "tcp" THEN c
        ELSE IF k = "qps" THEN q ELSE b]
MCCli == Keys(v1, Unset, Unset, Unset, Unset)
MCDefaults == Keys(v1, v1, Unset, 0, Unset)

\* "example.com" and "EXAMPLE.COM." spell one name; "other" is another zone;
\* "bad..name" does not parse.
MCOrigins == {"example.com", "EXAMPLE.COM.", "other", "bad..name"}
MCCanonical ==
    [o \in MCOrigins |->
        IF o = "bad..name" THEN Unparseable
        ELSE IF o = "other" THEN "other." ELSE "example.com."]

MCBoot ==
    [fault |-> "none", build |-> "ok", origin |-> "example.com", records |-> 1,
     builtins |-> TRUE, zone |-> 1, stated |-> Keys(Unset, Unset, Unset, 2, 5)]

\* A new zone, and a file that moves the token and the listener and switches
\* the limiter off.
Edited ==
    [MCBoot EXCEPT !.zone = 2, !.records = 2, !.builtins = FALSE,
                   !.stated = Keys(v2, Unset, v2, 0, 5)]

\* A respelt origin, and a file that states what the process already honours.
Respelt ==
    [MCBoot EXCEPT !.zone = 3, !.records = 3, !.origin = "EXAMPLE.COM.",
                   !.stated = Keys(v1, v1, Unset, 2, 5)]

GoodFiles == {MCBoot, Edited, Respelt}

BadFiles ==
    {[MCBoot EXCEPT !.fault = "read"], [MCBoot EXCEPT !.fault = "parse"],
     [MCBoot EXCEPT !.fault = "validate"], [Edited EXCEPT !.build = "error"],
     [Edited EXCEPT !.build = "panic"], [Edited EXCEPT !.origin = "other"],
     [Edited EXCEPT !.origin = "bad..name"]}

AllFiles == GoodFiles \cup BadFiles
=============================================================================
