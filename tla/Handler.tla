------------------------------- MODULE Handler ------------------------------
(***************************************************************************)
(* DnsHandler (src/handler.rs): the life of a query from the socket to the *)
(* metrics, interleaved with other queries and with zone reloads.          *)
(*                                                                         *)
(* A query takes one step per access to shared state: the queries counter, *)
(* the rate limiter, the ArcSwap holding the Active, the response handle,  *)
(* the latency histogram and the response counters.  The limiter's verdict *)
(* is a choice here (RateLimiter models it), as is the outcome of hickory's*)
(* send_response (external): sent, cut by the encoder to the room there    *)
(* is, replaced by a SERVFAIL because it did not encode, or failed.  Sizes *)
(* are counted in records, next to the header, the question and the OPT.   *)
(***************************************************************************)
EXTENDS Resolver

CONSTANTS
    Queries,          \* the query slots
    Inputs,           \* [Queries -> sets of requests]: what each may contain
    Actives,          \* the [zone, builtins] that may be served
    Limiter,          \* is a rate limiter configured?
    MAX_UDP_NO_EDNS,  \* what a UDP response without EDNS may hold
    MIN_EDNS_PAYLOAD, MAX_EDNS_PAYLOAD,   \* what the clamp leaves of an offer
    MAX_TCP,          \* what a message of a two-octet length may hold
    MaxReplacements,  \* bound on the reloads
    Nothing           \* None

ASSUME HandlerAssumption ==
    /\ IsFiniteSet(Queries)
    /\ DOMAIN Inputs = Queries
    /\ Limiter \in BOOLEAN
    /\ MAX_UDP_NO_EDNS \in Nat /\ MAX_TCP \in Nat /\ MaxReplacements \in Nat
    /\ MIN_EDNS_PAYLOAD \in Nat /\ MAX_EDNS_PAYLOAD \in Nat
    /\ MIN_EDNS_PAYLOAD <= MAX_EDNS_PAYLOAD

VARIABLES
    active,        \* the Active in the ArcSwap
    pc, req,       \* where each query is, and what it asks
    snap,          \* the Active each query loaded
    resolved,      \* what dispatch returned
    wire,          \* what reached the client: a response, Silence or Unsent
    queries, rate_limited, latencies, send_errors,   \* Metrics
    responses,     \* Metrics: responses by code
    seen,          \* history: what was active since each query arrived
    denied,        \* history: the queries the limiter turned down
    replaced       \* history: reloads so far

counters == <<queries, rate_limited, latencies, send_errors, responses>>
history == <<seen, denied, replaced>>
vars == <<active, pc, req, snap, resolved, wire, counters, history>>

\* The codes the handler answers with; SERVFAIL comes from hickory only.
AnswerCodes == {"NoError", "NXDomain", "Refused", "FormErr", "NotImp", "BADVERS"}
Codes == AnswerCodes \cup {"ServFail"}

\* The outcomes of a query at the socket: nothing was sent, nothing was meant
\* to be sent, or a response went out.
Unsent == [outcome |-> "unsent"]
Silence == [outcome |-> "silence"]
Sent(body, tc, edns) == [outcome |-> "sent", body |-> body, tc |-> tc, edns |-> edns]

Init ==
    /\ active \in Actives
    /\ pc = [q \in Queries |-> "idle"]
    /\ req = [q \in Queries |-> Nothing]
    /\ snap = [q \in Queries |-> Nothing]
    /\ resolved = [q \in Queries |-> Nothing]
    /\ wire = [q \in Queries |-> Unsent]
    /\ queries = 0 /\ rate_limited = 0 /\ latencies = 0 /\ send_errors = 0
    /\ responses = [c \in Codes |-> 0]
    /\ seen = [q \in Queries |-> {}]
    /\ denied = {}
    /\ replaced = 0

\* replace_zone: one store, visible to the queries that load after it.
replace_zone ==
    /\ replaced < MaxReplacements
    /\ active' \in Actives \ {active}
    /\ replaced' = replaced + 1
    /\ seen' = [q \in Queries |->
                   IF pc[q] \in {"idle", "done"} THEN seen[q] ELSE seen[q] \cup {active'}]
    /\ UNCHANGED <<pc, req, snap, resolved, wire, counters, denied>>

Goto(q, from, to) == pc[q] = from /\ pc' = [pc EXCEPT ![q] = to]

Arrive(q) ==
    /\ Goto(q, "idle", "limit")
    /\ \E input \in Inputs[q] : req' = [req EXCEPT ![q] = input]
    /\ queries' = queries + 1
    /\ seen' = [seen EXCEPT ![q] = {active}]
    /\ UNCHANGED <<active, snap, resolved, wire, rate_limited, latencies,
                   send_errors, responses, denied, replaced>>

\* Mutant of Deny: a UDP query that is turned down is answered.
DenyAnswering(q) ==
    /\ Limiter /\ pc[q] = "limit"
    /\ rate_limited' = rate_limited + 1
    /\ denied' = denied \cup {q}
    /\ Goto(q, "limit", "send")
    /\ resolved' = [resolved EXCEPT ![q] = refused]
    /\ UNCHANGED <<active, req, snap, wire, queries, latencies, send_errors,
                   responses, seen, replaced>>

\* The limiter turns the query down: nothing at all over UDP, REFUSED over
\* TCP.
Deny(q) ==
    /\ Limiter /\ pc[q] = "limit"
    /\ rate_limited' = rate_limited + 1
    /\ denied' = denied \cup {q}
    /\ \/ /\ req[q].protocol = "Udp"
          /\ Goto(q, "limit", "observe")
          /\ wire' = [wire EXCEPT ![q] = Silence]
          /\ UNCHANGED resolved
       \/ /\ req[q].protocol # "Udp"
          /\ Goto(q, "limit", "send")
          /\ resolved' = [resolved EXCEPT ![q] = refused]
          /\ UNCHANGED wire
    /\ UNCHANGED <<active, req, snap, queries, latencies, send_errors, responses,
                   seen, replaced>>

Admit(q) ==
    /\ Goto(q, "limit", "dispatch")
    /\ UNCHANGED <<active, req, snap, resolved, wire, counters, history>>

\* The gates of dispatch in their order: the code of the first that refuses.
Verdict(r) ==
    LET gates ==
            <<IF r.message_type # "Query" THEN {"FormErr"} ELSE {},
              IF r.op_code # "Query" THEN {"NotImp"} ELSE {},
              IF r.edns = 1 THEN {"BADVERS"} ELSE {},
              IF r.qdcount # 1 THEN {"FormErr"} ELSE {},
              IF r.class # "IN" THEN {"Refused"} ELSE {},
              IF r.qtype \in {"AXFR", "IXFR"} THEN {"Refused"} ELSE {},
              IF r.qtype \in {"OPT", "TSIG", "ZERO"} THEN {"FormErr"} ELSE {},
              IF r.qtype \in {"MAILA", "MAILB"} THEN {"NotImp"} ELSE {}>>
        closed == {i \in DOMAIN gates : gates[i] # {}}
    IN IF closed = {} THEN {} ELSE gates[Min(closed)]

\* The part of dispatch between the limiter and the zone.
Dispatch(q) ==
    /\ pc[q] = "dispatch"
    /\ \/ \E code \in Verdict(req[q]) :
             /\ resolved' = [resolved EXCEPT ![q] = error(code)]
             /\ Goto(q, "dispatch", "send")
       \/ /\ Goto(q, "dispatch", "load")
          /\ Verdict(req[q]) = {}
          /\ UNCHANGED resolved
    /\ UNCHANGED <<active, req, snap, wire, counters, history>>

\* active.load(), once per query.
Load(q) ==
    /\ Goto(q, "load", "resolve")
    /\ snap' = [snap EXCEPT ![q] = active]
    /\ UNCHANGED <<active, req, resolved, wire, counters, history>>

\* Mutant of Resolve: a second load for the built-ins.
ResolveReloading(q) ==
    /\ Goto(q, "resolve", "send")
    /\ resolved' = [resolved EXCEPT ![q] =
            resolve_query([zone |-> snap[q].zone,
                           builtins |-> active.builtins],
                          req[q].name, req[q].qtype, req[q].src, queries)]
    /\ UNCHANGED <<active, req, snap, wire, counters, history>>

Resolve(q) ==
    /\ Goto(q, "resolve", "send")
    /\ resolved' = [resolved EXCEPT ![q] =
            resolve_query(snap[q], req[q].name, req[q].qtype, req[q].src, queries)]
    /\ UNCHANGED <<active, req, snap, wire, counters, history>>

\* response_size_bound, and the size the encoder reaches.
Records(r) == Len(r.answers) + Cardinality(r.authority) + Cardinality(r.additional)

\* Mutant of clamp: the client's number is mirrored.
Mirror(payload) == payload

\* The payload the response's OPT advertises, whatever the client's did.
clamp(payload) ==
    IF payload \in MIN_EDNS_PAYLOAD..MAX_EDNS_PAYLOAD THEN payload
    ELSE IF payload > MAX_EDNS_PAYLOAD THEN MAX_EDNS_PAYLOAD ELSE MIN_EDNS_PAYLOAD

\* A UDP query without an OPT record, whose response the handler sizes itself.
Unextended(q) == req[q].protocol = "Udp" /\ req[q].edns = Nothing

\* The room there is for a response: the handler's own limit, the payload in
\* the OPT that the encoder takes over UDP, or a TCP message.
Room(q) ==
    IF Unextended(q) THEN MAX_UDP_NO_EDNS
    ELSE IF req[q].protocol = "Udp" THEN clamp(req[q].max_payload)
    ELSE MAX_TCP

\* Is there more to send than there is room for?
Over(q) == ~(Records(resolved[q]) <= Room(q))

\* Mutant of Truncated: the glue stays behind.
TruncatedWithGlue(r) == [r EXCEPT !.answers = <<>>, !.authority = {}]

\* The handler empties the sections, the code and the AA bit stay.
Truncated(r) == [r EXCEPT !.answers = <<>>, !.authority = {}, !.additional = {}]

\* The encoder leaves out what does not fit: the end of the answers, and of
\* the other sections any part.
Part(r, i, n, g) ==
    [r EXCEPT !.answers = SubSeq(r.answers, 1, i), !.authority = n, !.additional = g]
Parts(r) ==
    {Part(r, i, n, g) :
        i \in 0..Len(r.answers), n \in SUBSET r.authority, g \in SUBSET r.additional}
Encoded(r, room) == {p \in Parts(r) : Records(p) <= room}

\* The responses that may leave.  What is too much for a client without EDNS
\* is emptied here; for the others it is the encoder that cuts it.  Both say
\* so in the TC bit.
Responses(q) ==
    {Sent(body, Over(q), req[q].edns # Nothing) :
        body \in IF ~Over(q) THEN {resolved[q]}
                 ELSE IF Unextended(q) THEN {Truncated(resolved[q])}
                 ELSE Encoded(resolved[q], Room(q))}

ServFail == Sent(error("ServFail"), FALSE, FALSE)

\* send_response: a response, the SERVFAIL hickory sends in its place when it
\* does not encode, or a socket error.
Send(q) ==
    /\ Goto(q, "send", "observe")
    /\ \/ \E response \in Responses(q) : wire' = [wire EXCEPT ![q] = response]
       \/ wire' = [wire EXCEPT ![q] = ServFail]
       \/ UNCHANGED wire
    /\ UNCHANGED <<active, req, snap, resolved, counters, history>>

\* Mutant of Observe: a dropped query leaves no latency.
ObserveAnswered(q) ==
    /\ Goto(q, "observe", IF wire[q] = Silence THEN "done" ELSE "count")
    /\ latencies' = IF wire[q] = Silence THEN latencies ELSE latencies + 1
    /\ UNCHANGED <<active, req, snap, resolved, wire, queries, rate_limited,
                   send_errors, responses, history>>

\* observe_latency, on every path; a dropped query is done after it.
Observe(q) ==
    /\ Goto(q, "observe", IF wire[q] = Silence THEN "done" ELSE "count")
    /\ latencies' = latencies + 1
    /\ UNCHANGED <<active, req, snap, resolved, wire, queries, rate_limited,
                   send_errors, responses, history>>

\* The code that went on the wire, a failed send counting as SERVFAIL.
WireCode(q) == IF wire[q] = Unsent THEN "ServFail" ELSE wire[q].body.code

\* metrics.response, then metrics.send_error on failure.
Count(q) ==
    /\ Goto(q, "count", "done")
    /\ responses' = [responses EXCEPT ![WireCode(q)] = @ + 1]
    /\ send_errors' = IF wire[q] = Unsent THEN send_errors + 1 ELSE send_errors
    /\ UNCHANGED <<active, req, snap, resolved, wire, queries, rate_limited,
                   latencies, history>>

Step(q) ==
    \/ Deny(q) \/ Admit(q) \/ Dispatch(q) \/ Load(q) \/ Resolve(q)
    \/ Send(q) \/ Observe(q) \/ Count(q)

Next == replace_zone \/ \E q \in Queries : Arrive(q) \/ Step(q)

Spec == Init /\ [][Next]_vars
-----------------------------------------------------------------------------
(* Properties. *)

At(places) == {q \in Queries : pc[q] \in places}

AtWork == {"limit", "dispatch", "load", "resolve", "send", "observe"}

\* Everything the handler resolves a query to has the fields of a Resolved.
IsResolved(r) ==
    /\ DOMAIN r = {"code", "authoritative", "answers", "authority", "additional"}
    /\ r.code \in AnswerCodes

\* Every variable keeps its type.
TypeOK ==
    /\ pc \in [Queries -> AtWork \cup {"idle", "count", "done"}]
    /\ DOMAIN req = Queries /\ DOMAIN snap = Queries
    /\ DOMAIN resolved = Queries /\ DOMAIN wire = Queries /\ DOMAIN seen = Queries
    /\ queries \in Nat /\ rate_limited \in Nat
    /\ latencies \in Nat /\ send_errors \in Nat
    /\ responses \in [Codes -> Nat]
    /\ denied \subseteq Queries

\* A response is what one configuration, active at some moment of the
\* query's life, answers: the zone, the built-ins and the SOA of a response
\* never come from two of them, however a reload falls (handler.rs:262-266).
OneZonePerResponse ==
    \A q \in Queries :
        pc[q] = "send" /\ snap[q] # Nothing =>
            \E a \in seen[q], k \in 1..queries :
                resolved[q] = resolve_query(a, req[q].name, req[q].qtype,
                                            req[q].src, k)

\* "counting our own intention here left the servfail series reading zero"
\* (handler.rs:556-558): every response that did not leave as it was resolved
\* shows up as a SERVFAIL.
FailuresAreVisible ==
    responses["ServFail"]
        = Cardinality({q \in At({"done"}) :
              wire[q] # Silence /\ (wire[q] = Unsent \/ wire[q].body.code # resolved[q].code)})

InFlightAddsUp == queries - latencies = Cardinality(At(AtWork))

\* The finished queries that were answered, or were to be, under a code.
Answered(c) == {q \in At({"done"}) : wire[q] # Silence /\ WireCode(q) = c}

ResponsesAddUp == \A c \in Codes : responses[c] = Cardinality(Answered(c))

DenialsAddUp == rate_limited = Cardinality(denied)

\* The counters add up at every moment: queries less latencies is what is
\* still being worked on, which Metrics::in_flight and the shutdown rely on,
\* and every query that is finished is either one silent drop or one
\* response under the code that was really sent.
CountersAddUp ==
    InFlightAddsUp /\ ResponsesAddUp /\ DenialsAddUp /\ FailuresAreVisible

\* Only a plain IN query, of the version of EDNS there is or without it, is
\* ever answered with records; a query the limiter
\* turned down gets none, and over UDP no packet at all (handler.rs:394-399).
NoRecordsForTheRefused ==
    \A q \in Queries :
        wire[q] \notin {Unsent, Silence} =>
            /\ q \in denied => req[q].protocol # "Udp"
            /\ Records(wire[q].body) > 0 =>
                  /\ q \notin denied
                  /\ req[q].message_type = "Query" /\ req[q].op_code = "Query"
                  /\ req[q].class = "IN" /\ req[q].qdcount = 1 /\ req[q].edns # 1
                  /\ req[q].qtype \notin {"AXFR", "IXFR", "OPT", "TSIG", "ZERO", "MAILA", "MAILB"}

\* No response is larger than its client can take, or than the server means
\* to send: the limit of plain UDP, and over EDNS what the client offered
\* between the floor and the ceiling (handler.rs:34-49, 505-511).  A
\* response without the TC bit is whole; one with it stands for more than
\* there was room for, keeps its code, and without EDNS holds nothing at all:
\* glue without its referral is never sent (handler.rs:514-533).
WholeOrTruncated ==
    \A q \in Queries :
        wire[q] \notin {Unsent, Silence} =>
            LET body == wire[q].body
                offer == req[q].max_payload
                Within(limit) == Records(body) <= limit
            IN /\ Unextended(q) => Within(MAX_UDP_NO_EDNS)
               /\ req[q].protocol = "Udp" /\ req[q].edns # Nothing =>
                     \/ Within(MIN_EDNS_PAYLOAD)
                     \/ offer \in MIN_EDNS_PAYLOAD..MAX_EDNS_PAYLOAD /\ Within(offer)
                     \/ offer > MAX_EDNS_PAYLOAD /\ Within(MAX_EDNS_PAYLOAD)
               /\ IF wire[q].tc
                  THEN /\ body.code = resolved[q].code
                       /\ ~(Records(resolved[q]) <= Room(q))
                       /\ Unextended(q) => Records(body) = 0
                  ELSE body \in {resolved[q], error("ServFail")}

-----------------------------------------------------------------------------
(* The inductive invariant. *)

\* Every gate of dispatch is open to the request.
PassesTheGates(r) ==
    /\ r.message_type = "Query" /\ r.op_code = "Query" /\ r.edns # 1
    /\ r.qdcount = 1 /\ r.class = "IN"
    /\ r.qtype \notin {"AXFR", "IXFR", "OPT", "TSIG", "ZERO", "MAILA", "MAILB"}

\* A query that is being worked on is among those counted; what it loaded
\* was active in its time, and is there only once the load is behind it.
SnapshotInv(q) ==
    /\ pc[q] # "idle" => queries >= 1
    /\ pc[q] \notin {"idle", "done"} => active \in seen[q]
    /\ pc[q] \in {"idle", "limit", "dispatch", "load"} => snap[q] = Nothing
    /\ pc[q] = "resolve" => snap[q] \in seen[q]

\* Past the limiter a query was admitted, and past the gates it passed them.
AdmissionInv(q) ==
    /\ pc[q] \in {"idle", "limit", "dispatch", "load", "resolve"} => q \notin denied
    /\ pc[q] \in {"load", "resolve"} => PassesTheGates(req[q])

\* What was resolved is a response, with records only for a query that was
\* admitted and passed the gates; what the limiter turned down over UDP was
\* dropped.
ResolvedInv(q) ==
    /\ q \in denied /\ req[q].protocol = "Udp" => wire[q] = Silence
    /\ pc[q] \in {"send", "observe", "count", "done"} =>
          \/ pc[q] # "send" /\ wire[q] = Silence
          \/ /\ IsResolved(resolved[q])
             /\ \/ Records(resolved[q]) = 0
                \/ q \notin denied /\ PassesTheGates(req[q])

\* Nothing is on the wire before the send, and afterwards it is a response
\* that may leave, hickory's SERVFAIL, a drop or a failure; a drop is never
\* counted as a response.
WireInv(q) ==
    /\ pc[q] \in {"idle", "limit", "dispatch", "load", "resolve", "send"} =>
          wire[q] = Unsent
    /\ pc[q] = "count" => wire[q] # Silence
    /\ \/ wire[q] = Unsent \/ wire[q] = Silence
       \/ wire[q] \in Responses(q) \/ wire[q] = ServFail

\* The inductive invariant of Spec.
IInv ==
    /\ TypeOK
    /\ \A q \in Queries :
          SnapshotInv(q) /\ AdmissionInv(q) /\ ResolvedInv(q) /\ WireInv(q)
    /\ OneZonePerResponse
    /\ InFlightAddsUp /\ ResponsesAddUp /\ DenialsAddUp
=============================================================================
