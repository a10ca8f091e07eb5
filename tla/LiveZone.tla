------------------------------ MODULE LiveZone ------------------------------
(***************************************************************************)
(* What POST /reload promises, without saying how.                         *)
(*                                                                         *)
(* A process serves one configuration.  A reload request looks at the      *)
(* configuration file once, at some instant after it was made, and later   *)
(* either installs exactly what it saw, in one indivisible step, or leaves *)
(* what is served alone.  Between looking and installing no other request  *)
(* looks or installs, so an older file never overwrites a newer one.  What *)
(* is installed always has the origin that the process booted with.        *)
(***************************************************************************)
EXTENDS Naturals

CONSTANTS
    Requests,        \* the reload requests made during the process's life
    Files,           \* the contents the configuration file may have
    Boot,            \* the contents the process booted from
    Nothing,         \* "has not looked yet"
    SameOrigin(_, _),  \* do two contents name the same zone?
    Servable(_)      \* do these contents resolve and build a zone?

VARIABLES
    file,            \* the contents of the file now
    served,          \* the contents the served zone was built from
    stage,           \* [Requests -> {"new", "open", "looked", "installed", "refused"}]
    saw              \* [Requests -> Files \cup {Nothing}]

avars == <<file, served, stage, saw>>

AInit ==
    /\ file \in Files
    /\ served = Boot
    /\ stage = [r \in Requests |-> "new"]
    /\ saw = [r \in Requests |-> Nothing]

\* An operator, or an editing command, replaces the file.
AEdit ==
    /\ file' \in Files
    /\ UNCHANGED <<served, stage, saw>>

ABegin(r) ==
    /\ stage[r] = "new"
    /\ stage' = [stage EXCEPT ![r] = "open"]
    /\ UNCHANGED <<file, served, saw>>

ALook(r) ==
    /\ stage[r] = "open"
    /\ \A s \in Requests : stage[s] # "looked"
    /\ stage' = [stage EXCEPT ![r] = "looked"]
    /\ saw' = [saw EXCEPT ![r] = file]
    /\ UNCHANGED <<file, served>>

AInstall(r) ==
    /\ stage[r] = "looked"
    /\ Servable(saw[r])
    /\ SameOrigin(saw[r], Boot)
    /\ served' = saw[r]
    /\ stage' = [stage EXCEPT ![r] = "installed"]
    /\ UNCHANGED <<file, saw>>

ARefuse(r) ==
    /\ stage[r] \in {"open", "looked"}
    /\ stage' = [stage EXCEPT ![r] = "refused"]
    /\ UNCHANGED <<file, served, saw>>

ANext ==
    \/ AEdit
    \/ \E r \in Requests : ABegin(r) \/ ALook(r) \/ AInstall(r) \/ ARefuse(r)

ASpec == AInit /\ [][ANext]_avars
=============================================================================
