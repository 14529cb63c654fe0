----------------------------- MODULE MCSafeMerge -----------------------------
(* The run's two parts: a stack of three reviews (low into main, mid into    *)
(* low, top into mid), whose file reads the same everywhere; and a suggested *)
(* edit on the lower of two stacked reviews.  "part" is the part a behaviour *)
(* belongs to.                                                              *)
EXTENDS SafeMerge, TLC

VARIABLE part

MCStack == <<"low", "mid", "top">>
Asks(b, d) == [state |-> "Opened", source |-> b, target |-> d]
MCReview == [low |-> Asks("b1", "main"), mid |-> Asks("b2", "b1"), top |-> Asks("b3", "b2")]
MCTip == [main |-> {1}, b1 |-> {1, 2}, b2 |-> {1, 2, 3}, b3 |-> {1, 2, 3, 4}]
First(k) == [n \in 1..MaxCommits |-> IF n <= k THEN <<"w1", "w2", "w3", "w4">>[n] ELSE None]
MCChange == First(4)
MCClash == {{"w2", "w5"}}
MCFile == [n \in 1..MaxCommits |-> "old"]

(* Every review as it was opened, and "mid" also as it stands once "low" is *)
(* merged.                                                                  *)
MCAsked == {<<"low", "b1", "main">>, <<"mid", "b2", "b1">>, <<"mid", "b2", "main">>,
            <<"top", "b3", "b2">>}

(* A review that a caller calls merged, and an old row written back.        *)
MCSent == {<<"low", [Asks("b1", "main") EXCEPT !.state = "Merged"]>>,
           <<"mid", Asks("b2", "b1")>>}

(* The second part: the branch of "top" does not exist, and the file read   *)
(* before its last change as the suggestion would have it.                  *)
Suggested == INSTANCE SafeMerge WITH
    Stack <- <<"low", "mid">>, Works <- {"w1", "w2", "w3", "w4"}, Clash <- {},
    Texts <- {"old", "edited"}, Edited <- "edited",
    Asked <- {<<"low", "b1", "main">>}, Sent <- {},
    InitTip <- [MCTip EXCEPT !["b3"] = {}], InitChange <- First(3),
    InitFile <- [MCFile EXCEPT ![1] = "edited"]

MCInit == \/ part = "stack" /\ Init
          \/ part = "edit" /\ Suggested!Init

(* Two commands with commits to spare for a restack of the whole stack; a   *)
(* third one as long as no more than six commits exist and nothing failed.  *)
(* What people make of the suggestion's status is left to the second part,  *)
(* where a command fails only when it is about to record the suggestion.    *)
NoStatus == \A p \in Clients : run[p].pc # "set"
MCNext ==
    /\ part' = part
    /\ \/ part = "stack" /\ Next /\ NoStatus'
          /\ (begun' <= 2 \/ (Count' <= 6 /\ faults' = 0))
       \/ part = "edit" /\ Suggested!Next /\ Count' <= 6 /\ (faults' = faults \/ edit'.loose)

MCSpec == MCInit /\ [][MCNext]_<<part, vars>>

Symmetry == Permutations(Clients)
=============================================================================
