------------------------- MODULE MCScheduledMessages -------------------------
(* The run's two halves: one intent with every actor at work on it, and two *)
(* intents with the ticker alone.  The second intent belongs to a    *)
(* channel that is deleted from the start in the first half.                *)
EXTENDS ScheduledMessages

Alone == \E i \in Ids : /\ row[i].status = "absent" /\ access[i] = "gone"
                        /\ \A j \in Ids : j <= i

MCInit ==
    /\ \E i \in Ids, a \in {"open", "gone"} :
          /\ access = [j \in Ids |-> IF j = i THEN a ELSE "open"]
          /\ a = "gone" => \A j \in Ids : j <= i
    /\ now = 0
    /\ row = [i \in Ids |-> [status |-> "absent", text |-> AnyText, at |-> 0, error |-> FALSE]]
    /\ msg = [i \in Ids |-> NoMessage]
    /\ run = [p \in Senders |-> IdleRun]
    /\ cmd = [a \in Authors |-> IdleCmd]
    /\ faults = 0 /\ lost = {} /\ undone = {} /\ moved = {}

Narrow == cmd' = cmd /\ \A p \in Senders \ {Ticker} : run'[p] = run[p]

MCSpec == /\ MCInit /\ [][Next /\ (Alone \/ Narrow)]_vars
          /\ WF_vars(Select(Ticker)) /\ \A p \in Senders : WF_vars(Delivery(p))
=============================================================================
