--------------------------- MODULE RetryContract ---------------------------
(***************************************************************************)
(* What the telemetry path promises about each request, whatever tasks and *)
(* queues carry it: its id is used in order, for a request or for none,    *)
(* each request is tried with the server at most 1 + MaxRetries times      *)
(* while it is open, and it is closed once and for ever.                   *)
(***************************************************************************)
EXTENDS Naturals

CONSTANTS Ids, MaxRetries

VARIABLES phase,            \* per request: "unborn", "open" or "closed"
          tries             \* per request: exchanges made with the server

Init == /\ phase = [id \in Ids |-> "unborn"]
        /\ tries = [id \in Ids |-> 0]

\* Ids are used in increasing order.
InOrder(id) == \A other \in Ids : other < id => phase[other] # "unborn"

Make(id) ==
    /\ phase[id] = "unborn"
    /\ InOrder(id)
    /\ phase' = [phase EXCEPT ![id] = "open"]
    /\ UNCHANGED tries

\* The id is used up without a request: no try is ever made with it.
Skip(id) ==
    /\ phase[id] = "unborn"
    /\ InOrder(id)
    /\ phase' = [phase EXCEPT ![id] = "closed"]
    /\ UNCHANGED tries

Try(id) ==
    /\ phase[id] = "open"
    /\ tries[id] <= MaxRetries
    /\ tries' = [tries EXCEPT ![id] = @ + 1]
    /\ UNCHANGED phase

Close(id) ==
    /\ phase[id] = "open"
    /\ phase' = [phase EXCEPT ![id] = "closed"]
    /\ UNCHANGED tries

Next == \E id \in Ids : Make(id) \/ Skip(id) \/ Try(id) \/ Close(id)

Spec == Init /\ [][Next]_<<phase, tries>>
=============================================================================
