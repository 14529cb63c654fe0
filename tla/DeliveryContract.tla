--------------------------- MODULE DeliveryContract ---------------------------
(***************************************************************************)
(* What a webhook delivery promises, without queue, clock or workers: an   *)
(* event that is owed is offered to the endpoint until the endpoint has    *)
(* accepted it or the queue gives up; it is offered only while it is owed, *)
(* and done means accepted.                                                *)
(***************************************************************************)
CONSTANT Dlv

VARIABLES
    state,      \* of each delivery
    accepted    \* deliveries the endpoint has accepted, at least once

State == {"none", "owed", "done", "dead", "gone"}

Init ==
    /\ state = [d \in Dlv |-> "none"]
    /\ accepted = {}

Enqueue(d) ==
    /\ state[d] = "none"
    /\ state' = [state EXCEPT ![d] = "owed"]
    /\ UNCHANGED accepted

(* A request already on the wire when the subscription is deleted may still *)
(* be accepted.                                                             *)
Accept(d) ==
    /\ state[d] \in {"owed", "gone"}
    /\ accepted' = accepted \cup {d}
    /\ UNCHANGED state

Finish(d) ==
    /\ state[d] = "owed" /\ d \in accepted
    /\ state' = [state EXCEPT ![d] = "done"]
    /\ UNCHANGED accepted

GiveUp(d) ==
    /\ state[d] = "owed"
    /\ state' = [state EXCEPT ![d] = "dead"]
    /\ UNCHANGED accepted

(* The subscription is deleted, with every delivery it has. *)
Drop(D) ==
    /\ \A d \in D : state[d] # "none"
    /\ state' = [d \in Dlv |-> IF d \in D THEN "gone" ELSE state[d]]
    /\ UNCHANGED accepted

Next ==
    \/ \E d \in Dlv : Enqueue(d) \/ Accept(d) \/ Finish(d) \/ GiveUp(d)
    \/ \E D \in SUBSET Dlv : Drop(D)

Spec == Init /\ [][Next]_<<state, accepted>>
=============================================================================
