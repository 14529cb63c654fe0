----------------------------- MODULE WebhookQueue -----------------------------
(***************************************************************************)
(* Webhook deliveries: src-tauri/src/applications.rs, the tables           *)
(* webhook_subscriptions and webhook_deliveries, the fan-out that fills    *)
(* the queue, the commands that send at once, and the sweeps (the server's *)
(* ticker, its boot sweep, the command process_webhook_queue) that empty   *)
(* it.  No transaction spans two statements and the HTTP request is made   *)
(* with none open, so one atomic action is one statement or the request.   *)
(*                                                                         *)
(* Time is counted in units of 30 seconds, the base of delivery_backoff.   *)
(* next_attempt_at is kept as the time left until it is reached.           *)
(***************************************************************************)
EXTENDS Naturals

CONSTANTS
    Hooks,       \* webhook subscriptions
    Dlv,         \* ids of webhook_deliveries rows
    Workers,     \* threads that run a sweep or a command
    Ticker,      \* the one that only sweeps, for ever (spawn_webhook_ticker)
    None,        \* SQL NULL
    Lease,       \* CLAIM_LEASE_SECS
    Hold,        \* longest time from a claim to the write of its outcome
    Budgets,     \* values save_webhook may write to max_attempts
    MaxFaults    \* bound on crashes and failed statements

ASSUME TickerAssumption == Ticker \in Workers
ASSUME NoneAssumption == None \notin Nat \cup Hooks \cup Dlv
ASSUME LeaseAssumption == Lease \in Nat /\ Hold \in Nat /\ Hold < Lease
ASSUME BudgetsAssumption == Budgets \subseteq Nat \ {0} /\ Budgets # {}
ASSUME MaxFaultsAssumption == MaxFaults \in Nat

VARIABLES
    hook,      \* webhook_subscriptions
    dlv,       \* webhook_deliveries
    pc,        \* where each worker stands
    batch,     \* what it has selected and not yet handled
    job,       \* the delivery it works on
    seen,      \* what deliver_delivery read before the request, and its outcome
    held,      \* time since it took the delivery
    accepted,  \* history: deliveries an endpoint accepted
    posts,     \* history: requests sent, per delivery
    faults     \* crashes and failed statements so far

worker == <<pc, batch, job, seen, held>>
vars   == <<hook, dlv, worker, accepted, posts, faults>>

-----------------------------------------------------------------------------
Hook == [exists : BOOLEAN, enabled : BOOLEAN, max : Budgets]

(* "absent" is an id not yet used, "gone" a row deleted with its hook. *)
Row == [hook     : Hooks \cup {None},
        status   : {"absent", "PENDING", "SUCCEEDED", "FAILED", "gone"},
        attempts : Nat,
        wait     : Nat \cup {None}]

Busy == {"read", "post", "store"}

TypeOK ==
    /\ hook \in [Hooks -> Hook]
    /\ dlv \in [Dlv -> Row]
    /\ pc \in [Workers -> {"idle", "fan out", "sweep"} \cup Busy]
    /\ batch \in [Workers -> SUBSET (Hooks \cup Dlv)]
    /\ \A w \in Workers : pc[w] = "sweep" => batch[w] \subseteq Dlv
    /\ \A w \in Workers : pc[w] = "fan out" => batch[w] \subseteq Hooks
    /\ job \in [Workers -> Dlv \cup {None}]
    /\ \A w \in Workers : pc[w] \in Busy => job[w] \in Dlv /\ batch[w] \subseteq Dlv
    /\ seen \in [Workers -> [attempts : Nat, max : Nat, ok : BOOLEAN]]
    /\ held \in [Workers -> Nat]
    /\ accepted \subseteq Dlv
    /\ posts \in [Dlv -> Nat]
    /\ faults \in Nat

Nothing == [attempts |-> 0, max |-> 0, ok |-> FALSE]

Init ==
    /\ hook \in [Hooks -> [exists : {TRUE}, enabled : {TRUE}, max : Budgets]]
    /\ dlv = [d \in Dlv |-> [hook |-> None, status |-> "absent", attempts |-> 0, wait |-> None]]
    /\ pc = [w \in Workers |-> "idle"]
    /\ batch = [w \in Workers |-> {}]
    /\ job = [w \in Workers |-> None]
    /\ seen = [w \in Workers |-> Nothing]
    /\ held = [w \in Workers |-> 0]
    /\ accepted = {}
    /\ posts = [d \in Dlv |-> 0]
    /\ faults = 0

Busies(d) == {w \in Workers : pc[w] \in Busy /\ job[w] = d}
Stored(d) == dlv[d].status \in {"PENDING", "SUCCEEDED", "FAILED"}
Dead(d)   == dlv[d].status = "FAILED" /\ dlv[d].wait = None   \* dead-lettered

-----------------------------------------------------------------------------
(* Faulty variants of the definitions below; each breaks a property.        *)

Mut_IgnoresLease(d, backoff) ==
    /\ dlv[d].status \in {"PENDING", "FAILED"} /\ dlv[d].wait # None
    /\ ~backoff \/ dlv[d].wait = 0
Mut_KeepsStatus(d)        == dlv' = [dlv EXCEPT ![d] = [@ EXCEPT !.wait = Lease]]
Mut_NeverDead(done, max)  == IF done > max THEN None ELSE 2
Mut_DeadEarly(done, max)  == IF done + 1 >= max THEN None ELSE 2

-----------------------------------------------------------------------------
(* delivery_backoff and retry_schedule *)
Backoff(n) == <<1, 2, 4, 8, 16, 32>>[1 + (IF n > 5 THEN 5 ELSE n)]

RetrySchedule(done, max) == IF done >= max THEN None ELSE Backoff(done)

(* the WHERE clause of claim_delivery, and its UPDATE *)
Claimable(d, backoff) ==
    /\ dlv[d].status \in {"PENDING", "FAILED"} /\ dlv[d].wait # None
    /\ (~backoff /\ dlv[d].status # "PENDING") \/ dlv[d].wait = 0

Claim(d) == dlv' = [dlv EXCEPT ![d] = [@ EXCEPT !.status = "PENDING", !.wait = Lease]]

(* due_webhook_deliveries, before its LIMIT *)
Due == {d \in Dlv : dlv[d].status \in {"PENDING", "FAILED"} /\ dlv[d].wait = 0}

(* INSERT INTO webhook_deliveries *)
Insert(d, h, next) ==
    /\ dlv[d].status = "absent"
    /\ dlv' = [dlv EXCEPT ![d] = [hook |-> h, status |-> "PENDING", attempts |-> 0, wait |-> next]]

(* The worker takes a delivery, with what is left of its batch, or goes on  *)
(* with the rest of the batch.                                              *)
Take(w, d, rest) ==
    /\ pc' = [pc EXCEPT ![w] = "read"]
    /\ job' = [job EXCEPT ![w] = d]
    /\ batch' = [batch EXCEPT ![w] = rest]
    /\ held' = [held EXCEPT ![w] = 0]
    /\ UNCHANGED seen

GoOn(w, rest) ==
    /\ pc' = [pc EXCEPT ![w] = IF rest = {} THEN "idle" ELSE "sweep"]
    /\ batch' = [batch EXCEPT ![w] = rest]
    /\ job' = [job EXCEPT ![w] = None]
    /\ seen' = [seen EXCEPT ![w] = Nothing]
    /\ held' = [held EXCEPT ![w] = 0]

-----------------------------------------------------------------------------
(* Filling the queue.  enqueue_event selects the enabled subscriptions of   *)
(* the event's type whose filter accepts it, then inserts one row for each; *)
(* enqueue_webhook_delivery does the same for one.                          *)
FanOut(w) ==
    /\ w # Ticker /\ pc[w] = "idle"
    /\ \E S \in SUBSET {h \in Hooks : hook[h].exists /\ hook[h].enabled} \ {{}} :
          batch' = [batch EXCEPT ![w] = S]
    /\ pc' = [pc EXCEPT ![w] = "fan out"]
    /\ UNCHANGED <<hook, dlv, job, seen, held, accepted, posts, faults>>

(* The foreign key refuses a row for a subscription deleted in between; the *)
(* error leaves the fan-out, and the subscriptions not yet reached get none. *)
FanInsert(w) ==
    /\ pc[w] = "fan out"
    /\ \E h \in batch[w] :
          \/ /\ hook[h].exists
             /\ \E d \in Dlv : Insert(d, h, 0)
             /\ batch' = [batch EXCEPT ![w] = @ \ {h}]
             /\ pc' = [pc EXCEPT ![w] = IF batch[w] = {h} THEN "idle" ELSE "fan out"]
          \/ /\ ~hook[h].exists
             /\ batch' = [batch EXCEPT ![w] = {}]
             /\ pc' = [pc EXCEPT ![w] = "idle"]
             /\ UNCHANGED dlv
    /\ UNCHANGED <<hook, job, seen, held, accepted, posts, faults>>

(* deliver_webhook: the row it inserts has no next_attempt_at, and is sent  *)
(* without a claim.                                                         *)
DeliverWebhook(w, h) ==
    /\ w # Ticker /\ pc[w] = "idle"
    /\ hook[h].exists
    /\ \E d \in Dlv : Insert(d, h, None) /\ Take(w, d, {})
    /\ UNCHANGED <<hook, accepted, posts, faults>>

(* retry_webhook_delivery *)
Retry(w, d) ==
    /\ w # Ticker /\ pc[w] = "idle"
    /\ Claimable(d, FALSE)
    /\ Claim(d)
    /\ Take(w, d, {})
    /\ UNCHANGED <<hook, accepted, posts, faults>>

(* process_webhook_queue: select what is due, then claim and deliver one    *)
(* after the other.                                                         *)
Sweep(w) ==
    /\ pc[w] = "idle" /\ Due # {}
    /\ pc' = [pc EXCEPT ![w] = "sweep"]
    /\ batch' = [batch EXCEPT ![w] = Due]
    /\ UNCHANGED <<hook, dlv, job, seen, held, accepted, posts, faults>>

SweepNext(w) ==
    /\ pc[w] = "sweep"
    /\ \E d \in batch[w] :
          \/ /\ Claimable(d, TRUE)
             /\ Claim(d)
             /\ Take(w, d, batch[w] \ {d})
          \/ /\ ~Claimable(d, TRUE)
             /\ GoOn(w, batch[w] \ {d})
             /\ UNCHANGED dlv
    /\ UNCHANGED <<hook, accepted, posts, faults>>

-----------------------------------------------------------------------------
(* deliver_delivery: read, request, write of the outcome.                   *)

MayPost(d) ==
    /\ Stored(d)
    /\ hook[dlv[d].hook].enabled
    /\ dlv[d].attempts < hook[dlv[d].hook].max

Read(w) ==
    LET d == job[w] IN
    /\ pc[w] = "read"
    /\ \/ /\ MayPost(d)
          /\ seen' = [seen EXCEPT ![w] = [attempts |-> dlv[d].attempts,
                                          max |-> hook[dlv[d].hook].max, ok |-> FALSE]]
          /\ pc' = [pc EXCEPT ![w] = "post"]
          /\ UNCHANGED <<batch, job, held>>
       \/ ~MayPost(d) /\ GoOn(w, batch[w])
    /\ UNCHANGED <<hook, dlv, accepted, posts, faults>>

(* The endpoint may accept the request and its reply may be lost. *)
Post(w) ==
    LET d == job[w] IN
    /\ pc[w] = "post"
    /\ \E took, ok \in BOOLEAN :
          /\ ok => took
          /\ accepted' = IF took THEN accepted \cup {d} ELSE accepted
          /\ seen' = [seen EXCEPT ![w] = [@ EXCEPT !.ok = ok]]
    /\ posts' = [posts EXCEPT ![d] = posts[d] + 1]
    /\ pc' = [pc EXCEPT ![w] = "store"]
    /\ UNCHANGED <<hook, dlv, batch, job, held, faults>>

(* The UPDATE names the row by id alone, and writes the count read before   *)
(* the request plus one.                                                    *)
Store(w) ==
    LET d == job[w]  done == seen[w].attempts + 1 IN
    /\ pc[w] = "store"
    /\ dlv' = IF ~Stored(d) THEN dlv
              ELSE IF seen[w].ok
              THEN [dlv EXCEPT ![d] = [@ EXCEPT !.status = "SUCCEEDED", !.attempts = done, !.wait = None]]
              ELSE [dlv EXCEPT ![d] = [@ EXCEPT !.status = "FAILED", !.attempts = done,
                                                !.wait = RetrySchedule(done, seen[w].max)]]
    /\ GoOn(w, batch[w])
    /\ UNCHANGED <<hook, accepted, posts, faults>>

-----------------------------------------------------------------------------
(* save_webhook: an upsert *)
SaveWebhook(h) ==
    /\ \E on \in BOOLEAN, n \in Budgets :
          hook' = [hook EXCEPT ![h] = [exists |-> TRUE, enabled |-> on, max |-> n]]
    /\ UNCHANGED <<dlv, worker, accepted, posts, faults>>

(* delete_webhook: ON DELETE CASCADE takes the deliveries *)
GoneRow == [hook |-> None, status |-> "gone", attempts |-> 0, wait |-> None]

WithoutHook(h) == [d \in Dlv |-> IF dlv[d].hook = h THEN GoneRow ELSE dlv[d]]

DeleteWebhook(h) ==
    /\ hook[h].exists
    /\ hook' = [hook EXCEPT ![h] = [@ EXCEPT !.exists = FALSE, !.enabled = FALSE]]
    /\ dlv' = WithoutHook(h)
    /\ UNCHANGED <<worker, accepted, posts, faults>>

(* A unit of time passes.  No worker is Hold units past its claim: the      *)
(* client of the request has a timeout of ten seconds, and the statements   *)
(* around it the busy timeout of the database.                              *)
Tick ==
    /\ \E d \in Dlv : dlv[d].wait \notin {None, 0}
    /\ \A w \in Workers : pc[w] \in Busy => held[w] < Hold
    /\ dlv' = [d \in Dlv |-> IF dlv[d].wait \in {None, 0} THEN dlv[d]
                             ELSE [dlv[d] EXCEPT !.wait = dlv[d].wait - 1]]
    /\ held' = [w \in Workers |-> IF pc[w] \in Busy THEN held[w] + 1 ELSE held[w]]
    /\ UNCHANGED <<hook, pc, batch, job, seen, accepted, posts, faults>>

(* The process dies. *)
Crash(w) ==
    /\ pc[w] # "idle" /\ faults < MaxFaults
    /\ faults' = faults + 1
    /\ GoOn(w, {})
    /\ UNCHANGED <<hook, dlv, accepted, posts>>

(* A statement of deliver_delivery fails.  A sweep drops the error and goes *)
(* on with its batch.                                                       *)
StatementFails(w) ==
    /\ pc[w] \in {"read", "store"} /\ faults < MaxFaults
    /\ faults' = faults + 1
    /\ GoOn(w, batch[w])
    /\ UNCHANGED <<hook, dlv, accepted, posts>>

-----------------------------------------------------------------------------
Deliver(w) == Read(w) \/ Post(w) \/ Store(w)
Step(w)    == FanInsert(w) \/ SweepNext(w) \/ Deliver(w)

Next ==
    \/ \E w \in Workers :
          \/ FanOut(w) \/ Sweep(w) \/ Step(w) \/ Crash(w) \/ StatementFails(w)
          \/ \E h \in Hooks : DeliverWebhook(w, h)
          \/ \E d \in Dlv : Retry(w, d)
    \/ \E h \in Hooks : SaveWebhook(h) \/ DeleteWebhook(h)
    \/ Tick

Spec == Init /\ [][Next]_vars

(* The ticker sweeps for ever, a thread that works keeps working, and time  *)
(* passes.  Nothing obliges anyone to emit, retry, save, delete or fail.    *)
Fairness ==
    /\ WF_vars(Tick)
    /\ WF_vars(Sweep(Ticker))
    /\ \A w \in Workers : WF_vars(Step(w))

FairSpec == Spec /\ Fairness

-----------------------------------------------------------------------------
(* Safety.                                                                  *)

(* "two concurrent sweepers cannot both win", and a claim "still refuses a  *)
(* row another worker is actively delivering" (claim_delivery): no delivery *)
(* is in the hands of two workers, whatever sweeps, retries and direct      *)
(* sends overlap and whichever of them died.                                *)
OneDeliverer == \A d \in Dlv : \A v, w \in Busies(d) : v = w

(* Every request is counted in attempts, but for those whose worker died or *)
(* failed before it stored the outcome: the budget of a subscription is     *)
(* overrun by faults only, never by overlapping workers.                    *)
RequestsCounted ==
    \A d \in Dlv : Stored(d) =>
        posts[d] <= dlv[d].attempts + faults
                      + (IF \E w \in Busies(d) : pc[w] = "store" THEN 1 ELSE 0)

(* A delivery is dead-lettered only after the smallest budget its           *)
(* subscription ever had has really been spent on requests (retry_schedule). *)
DeadOnlyWhenSpent ==
    \A d \in Dlv : Dead(d) => \E n \in Budgets : n <= posts[d]

(* What the contract sees of a delivery.                                    *)
ContractState(d) ==
    CASE dlv[d].status = "absent"    -> "none"
      [] dlv[d].status = "SUCCEEDED" -> "done"
      [] dlv[d].status = "gone"      -> "gone"
      [] Dead(d)                     -> "dead"
      [] OTHER                       -> "owed"

Contract == INSTANCE DeliveryContract WITH
                state <- [d \in Dlv |-> ContractState(d)]

(* A delivery is offered only while it is owed, success is only ever        *)
(* recorded for a delivery that was accepted, and neither success nor death *)
(* is taken back (deliver_delivery writes its outcome over any status).     *)
ImplementsContract == Contract!Spec

-----------------------------------------------------------------------------
(* The inductive invariant behind the safety properties.                    *)

RowShape(d) ==
    /\ IF Stored(d) THEN dlv[d].hook \in Hooks ELSE dlv[d].hook = None
    /\ ~Stored(d) \/ dlv[d].status = "SUCCEEDED" => dlv[d].wait = None
    /\ dlv[d].status = "SUCCEEDED" => d \in accepted
    /\ dlv[d].status = "absent" => posts[d] = 0 /\ dlv[d].attempts = 0
    /\ dlv[d].attempts <= posts[d]
    /\ Dead(d) => \E n \in Budgets : n <= dlv[d].attempts

(* What a worker holds nobody else can claim, for Hold < Lease. *)
HandShape(w) ==
    LET d == job[w] IN
    /\ dlv[d].status \in {"PENDING", "gone"}
    /\ dlv[d].wait = None \/ dlv[d].wait + held[w] = Lease
    /\ held[w] <= Hold
    /\ pc[w] \in {"post", "store"} => seen[w].max \in Budgets
    /\ pc[w] \in {"post", "store"} /\ Stored(d) => seen[w].attempts = dlv[d].attempts
    /\ pc[w] = "store" /\ Stored(d) => dlv[d].attempts < posts[d]
    /\ pc[w] = "store" /\ seen[w].ok => d \in accepted

Queue ==
    /\ TypeOK
    /\ \A d \in Dlv : RowShape(d)
    /\ \A w \in Workers : pc[w] \in Busy => HandShape(w)
    /\ OneDeliverer
    /\ RequestsCounted

-----------------------------------------------------------------------------
(* Liveness.                                                                *)

(* "A sweeper that dies mid-POST loses the lease and the row becomes due    *)
(* again": a delivery with a time for its next attempt is delivered, dead-  *)
(* lettered or deleted, if its subscription is neither disabled for good    *)
(* nor left with a budget its attempts have already reached.                *)
Settles ==
    (<>[] \A h \in Hooks : hook[h].exists =>
             hook[h].enabled /\ \A n \in Budgets : n <= hook[h].max)
      => \A d \in Dlv : (Stored(d) /\ dlv[d].wait # None)
                           ~> (dlv[d].status = "gone" \/ dlv[d].wait = None)

=============================================================================
