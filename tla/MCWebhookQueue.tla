---------------------------- MODULE MCWebhookQueue ----------------------------
(* The run's two halves: one delivery with every worker at work on it, and  *)
(* two deliveries with the ticker and one other worker.                     *)
EXTENDS WebhookQueue

CONSTANTS First, Second,   \* the two deliveries; Second is inserted last
          Aide             \* the worker that leaves when there are two

Pair == dlv'[Second].status # "absent"

Narrow ==
    /\ Pair => dlv[First].status # "absent"
    /\ Pair => pc'[Aide] = "idle" /\ faults' = 0 /\ \A h \in Hooks : hook'[h] = hook[h]

MCSpec == Init /\ [][Next /\ Narrow]_vars /\ Fairness
=============================================================================
