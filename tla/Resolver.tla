------------------------------ MODULE Resolver ------------------------------
(***************************************************************************)
(* What DnsHandler::resolve (src/handler.rs) makes of one query against    *)
(* one Active: the built-in names first, then QTYPE=ANY, then the zone.    *)
(* A source is [rtype, data]: the address family the client came from and  *)
(* its address.                                                            *)
(***************************************************************************)
EXTENDS Zone

CONSTANTS
    Hinfo,     \* the rdata of the RFC 8482 answer
    Text       \* the rdata of a TXT built-in that does not depend on state

\* The built-in sub-zones and their order of precedence.
MyIp == <<"myip">>
Counter == <<"counter">>
Version == <<"version">>
Hello == <<"hello">>

\* What a query resolved to, before it is serialised.
Resolved(code, aa, answers, authority, additional) ==
    [code |-> code, authoritative |-> aa, answers |-> answers,
     authority |-> authority, additional |-> additional]

found(answers) == Resolved("NoError", TRUE, answers, {}, {})

negative(code, zone) == Resolved(code, TRUE, <<>>, {zone.soa}, {})

error(code) == Resolved(code, FALSE, <<>>, {}, {})

refused == error("Refused")

referral(answer) ==
    Resolved("NoError", is_authoritative(answer), answer.answers,
             answer.authority, answer.additional)

Rr(owner, rtype, data) == [owner |-> owner, rtype |-> rtype, ttl |-> 0, data |-> data]

\* A TXT-only built-in, or NODATA when another type is asked for.
txt_builtin(zone, name, qtype, text) ==
    IF qtype \in {"TXT", "ANY"} THEN found(<<Rr(name, "TXT", text)>>)
    ELSE negative("NoError", zone)

\* The built-in that covers a name, if they are enabled.
BuiltinFor(active, name) ==
    IF ~active.builtins THEN {}
    ELSE {b \in {MyIp, Counter, Version, Hello} : IsPrefix(b, name)}

resolve_builtin(active, name, qtype, src, queries) ==
    IF IsPrefix(MyIp, name)
    THEN IF qtype \in {src.rtype, "ANY"} THEN found(<<Rr(name, src.rtype, src.data)>>)
         ELSE negative("NoError", active.zone)
    ELSE txt_builtin(active.zone, name, qtype,
                     IF IsPrefix(Counter, name) THEN queries ELSE Text)

\* A referral or an alias as it is, anything else as one HINFO.
AliasOrHinfo(name, answer) ==
    IF answer.kind = "Referral" THEN referral(answer)
    ELSE IF answer.kind = "Records" THEN found(answer.answers)
    ELSE found(<<Rr(name, "HINFO", Hinfo)>>)

\* QTYPE=ANY: existence, then the delegation or the CNAME, then one HINFO.
ResolveAny(zone, name) ==
    IF ~exists(zone, name) THEN negative("NXDomain", zone)
    ELSE AliasOrHinfo(name, lookup(zone, name, "CNAME"))

\* The response to each kind of Answer; the fourth is NxDomain.
AsResolved(zone, answer) ==
    CASE answer.kind = "Records" -> found(answer.answers)
      [] answer.kind = "Referral" -> referral(answer)
      [] answer.kind = "NoData" -> negative("NoError", zone)
      [] OTHER -> negative("NXDomain", zone)

\* Every other type; the apex SOA may be outside the records.
FromZone(zone, name, qtype) ==
    IF qtype = "SOA" /\ name = Apex THEN found(<<zone.soa>>)
    ELSE AsResolved(zone, lookup(zone, name, qtype))

\* DnsHandler::resolve, on the Active loaded for this query.
resolve_query(active, name, qtype, src, queries) ==
    IF ~contains(name) THEN refused
    ELSE IF BuiltinFor(active, name) # {}
    THEN resolve_builtin(active, name, qtype, src, queries)
    ELSE IF qtype = "ANY" THEN ResolveAny(active.zone, name)
    ELSE FromZone(active.zone, name, qtype)
=============================================================================
