-------------------------- MODULE WebhookQueue_proofs --------------------------
(***************************************************************************)
(* Proofs about WebhookQueue, for any number of subscriptions, deliveries, *)
(* workers and faults, any lease longer than the time a delivery is held,  *)
(* and any set of budgets.                                                 *)
(***************************************************************************)
EXTENDS WebhookQueue, TLAPS

Wait == Nat \cup {None}

(* TypeOK in two halves: the tables and histories, and the workers. *)
Tables ==
    /\ hook \in [Hooks -> Hook]
    /\ dlv \in [Dlv -> Row]
    /\ accepted \subseteq Dlv
    /\ posts \in [Dlv -> Nat]
    /\ faults \in Nat

Threads ==
    /\ pc \in [Workers -> {"idle", "fan out", "sweep"} \cup Busy]
    /\ batch \in [Workers -> SUBSET (Hooks \cup Dlv)]
    /\ job \in [Workers -> Dlv \cup {None}]
    /\ seen \in [Workers -> [attempts : Nat, max : Nat, ok : BOOLEAN]]
    /\ held \in [Workers -> Nat]
    /\ \A w \in Workers : pc[w] = "sweep" => batch[w] \subseteq Dlv
    /\ \A w \in Workers : pc[w] = "fan out" => batch[w] \subseteq Hooks
    /\ \A w \in Workers : pc[w] \in Busy => job[w] \in Dlv /\ batch[w] \subseteq Dlv

LEMMA TypeSplit == TypeOK <=> Tables /\ Threads
BY DEF TypeOK, Tables, Threads

LEMMA TypeSplitNext == TypeOK' <=> Tables' /\ Threads'
BY DEF TypeOK, Tables, Threads

(* delivery_backoff is a number, whatever the number of attempts. *)
LEMMA BackoffType == ASSUME NEW n \in Nat PROVE Backoff(n) \in Nat
<1> DEFINE k == IF n > 5 THEN 5 ELSE n
<1>1. k \in 0..5
  OBVIOUS
<1>2. CASE k = 0
  BY <1>2 DEF Backoff
<1>3. CASE k = 1
  BY <1>3 DEF Backoff
<1>4. CASE k = 2
  BY <1>4 DEF Backoff
<1>5. CASE k = 3
  BY <1>5 DEF Backoff
<1>6. CASE k = 4
  BY <1>6 DEF Backoff
<1>7. CASE k = 5
  BY <1>7 DEF Backoff
<1> QED
  BY <1>1, <1>2, <1>3, <1>4, <1>5, <1>6, <1>7

(* retry_schedule answers a time or NULL. *)
LEMMA ScheduleType ==
  ASSUME NEW n \in Nat, NEW max \in Nat
  PROVE  RetrySchedule(n, max) \in Wait
BY BackoffType DEF RetrySchedule, Wait

(* A worker that takes a delivery, or goes on, keeps its type. *)
LEMMA TakeType ==
  ASSUME Threads, NEW w \in Workers, NEW d \in Dlv, NEW rest \in SUBSET Dlv,
         Take(w, d, rest)
  PROVE  Threads'
BY DEF Threads, Take, Busy

LEMMA GoOnType ==
  ASSUME Threads, NEW w \in Workers, NEW rest \in SUBSET Dlv, GoOn(w, rest)
  PROVE  Threads'
<1>1. Nothing \in [attempts : Nat, max : Nat, ok : BOOLEAN]
  BY DEF Nothing
<1> QED
  BY <1>1 DEF Threads, GoOn, Busy

(* An inserted or claimed row is a row. *)
LEMMA InsertType ==
  ASSUME dlv \in [Dlv -> Row], NEW d \in Dlv, NEW h \in Hooks, NEW next \in Wait,
         Insert(d, h, next)
  PROVE  dlv' \in [Dlv -> Row]
BY DEF Insert, Row, Wait

LEMMA ClaimType ==
  ASSUME dlv \in [Dlv -> Row], NEW d \in Dlv, Claim(d)
  PROVE  dlv' \in [Dlv -> Row]
<1>1. [dlv[d] EXCEPT !.status = "PENDING", !.wait = Lease] \in Row
  BY LeaseAssumption DEF Row
<1> QED
  BY <1>1 DEF Claim

-----------------------------------------------------------------------------
(* TypeOK is an invariant: one lemma per action that changes a table and a  *)
(* worker, one step per action.                                             *)

LEMMA InitType == Init => TypeOK
<1> SUFFICES ASSUME Init PROVE TypeOK
  OBVIOUS
<1>1. hook \in [Hooks -> Hook]
  BY DEF Init, Hook
<1>2. dlv \in [Dlv -> Row]
  BY DEF Init, Row
<1>3. Nothing \in [attempts : Nat, max : Nat, ok : BOOLEAN]
  BY DEF Nothing
<1> QED
  BY <1>1, <1>2, <1>3, MaxFaultsAssumption DEF Init, TypeOK, Busy

LEMMA FanOutType ==
  ASSUME TypeOK, NEW w \in Workers, FanOut(w)
  PROVE  TypeOK'
<1>1. Tables /\ Threads
  BY TypeSplit
<1>2. Tables'
  BY <1>1 DEF Tables, FanOut
<1>3. Threads'
  BY <1>1 DEF Threads, FanOut, Busy
<1> QED
  BY <1>2, <1>3, TypeSplitNext

LEMMA FanInsertType ==
  ASSUME TypeOK, NEW w \in Workers, FanInsert(w)
  PROVE  TypeOK'
<1>1. Tables /\ Threads
  BY TypeSplit
<1>2. PICK h \in batch[w] :
        \/ /\ \E d \in Dlv : Insert(d, h, 0)
           /\ batch' = [batch EXCEPT ![w] = @ \ {h}]
           /\ pc' = [pc EXCEPT ![w] = IF batch[w] = {h} THEN "idle" ELSE "fan out"]
        \/ /\ batch' = [batch EXCEPT ![w] = {}]
           /\ pc' = [pc EXCEPT ![w] = "idle"]
           /\ UNCHANGED dlv
  BY DEF FanInsert
<1>3. h \in Hooks
  BY <1>1 DEF FanInsert, Threads
<1>4. dlv' \in [Dlv -> Row]
  BY <1>1, <1>2, <1>3, InsertType DEF Tables, Wait
<1>5. Tables'
  BY <1>1, <1>4 DEF Tables, FanInsert
<1>6. Threads'
  <2>1. UNCHANGED <<job, seen, held>>
    BY DEF FanInsert
  <2>2. /\ batch' \in [Workers -> SUBSET (Hooks \cup Dlv)]
        /\ batch'[w] \subseteq Hooks
        /\ \A v \in Workers \ {w} : batch'[v] = batch[v]
    <3>1. PICK S \in SUBSET batch[w] : batch' = [batch EXCEPT ![w] = S]
      BY <1>1, <1>2 DEF Threads
    <3>2. batch[w] \subseteq Hooks
      BY <1>1 DEF Threads, FanInsert
    <3> QED
      BY <1>1, <3>1, <3>2 DEF Threads
  <2>3. /\ pc' \in [Workers -> {"idle", "fan out", "sweep"} \cup Busy]
        /\ pc'[w] \in {"idle", "fan out"}
        /\ \A v \in Workers \ {w} : pc'[v] = pc[v]
    BY <1>1, <1>2 DEF Threads
  <2> QED
    BY <1>1, <2>1, <2>2, <2>3 DEF Threads, Busy
<1> QED
  BY <1>5, <1>6, TypeSplitNext

LEMMA DeliverWebhookType ==
  ASSUME TypeOK, NEW w \in Workers, NEW h \in Hooks, DeliverWebhook(w, h)
  PROVE  TypeOK'
<1>1. Tables /\ Threads
  BY TypeSplit
<1>2. PICK d \in Dlv : Insert(d, h, None) /\ Take(w, d, {})
  BY DEF DeliverWebhook
<1>3. dlv' \in [Dlv -> Row]
  BY <1>1, <1>2, InsertType DEF Tables, Wait
<1>4. Threads'
  BY <1>1, <1>2, TakeType
<1>5. Tables'
  BY <1>1, <1>3 DEF Tables, DeliverWebhook
<1> QED
  BY <1>4, <1>5, TypeSplitNext

LEMMA RetryType ==
  ASSUME TypeOK, NEW w \in Workers, NEW d \in Dlv, Retry(w, d)
  PROVE  TypeOK'
<1>1. Tables /\ Threads
  BY TypeSplit
<1>2. dlv' \in [Dlv -> Row]
  BY <1>1, ClaimType DEF Tables, Retry
<1>3. Threads'
  BY <1>1, TakeType DEF Retry
<1>4. Tables'
  BY <1>1, <1>2 DEF Tables, Retry
<1> QED
  BY <1>3, <1>4, TypeSplitNext

LEMMA SweepType ==
  ASSUME TypeOK, NEW w \in Workers, Sweep(w)
  PROVE  TypeOK'
<1>1. Tables /\ Threads
  BY TypeSplit
<1>2. Tables'
  BY <1>1 DEF Tables, Sweep
<1>3. Threads'
  BY <1>1 DEF Threads, Sweep, Busy, Due
<1> QED
  BY <1>2, <1>3, TypeSplitNext

LEMMA SweepNextType ==
  ASSUME TypeOK, NEW w \in Workers, SweepNext(w)
  PROVE  TypeOK'
<1>1. Tables /\ Threads
  BY TypeSplit
<1>2. PICK d \in batch[w] :
        \/ Claim(d) /\ Take(w, d, batch[w] \ {d})
        \/ GoOn(w, batch[w] \ {d}) /\ UNCHANGED dlv
  BY DEF SweepNext
<1>3. d \in Dlv /\ batch[w] \ {d} \in SUBSET Dlv
  BY <1>1 DEF Threads, SweepNext
<1>4. dlv' \in [Dlv -> Row]
  BY <1>1, <1>2, <1>3, ClaimType DEF Tables
<1>5. Threads'
  BY <1>1, <1>2, <1>3, TakeType, GoOnType
<1>6. Tables'
  BY <1>1, <1>4 DEF Tables, SweepNext
<1> QED
  BY <1>5, <1>6, TypeSplitNext

LEMMA ReadType ==
  ASSUME TypeOK, NEW w \in Workers, Read(w), \A d \in Dlv : RowShape(d)
  PROVE  TypeOK'
<1>1. Tables /\ Threads
  BY TypeSplit
<1>2. Tables'
  BY <1>1 DEF Tables, Read
<1>3. job[w] \in Dlv /\ batch[w] \in SUBSET Dlv
  BY <1>1 DEF Threads, Read, Busy
<1>4. ASSUME MayPost(job[w]) /\ pc' = [pc EXCEPT ![w] = "post"]
      PROVE  Threads'
  <2> DEFINE d == job[w]
             s == [attempts |-> dlv[d].attempts, max |-> hook[dlv[d].hook].max, ok |-> FALSE]
  <2>1. dlv[d].hook \in Hooks /\ dlv[d] \in Row
    BY <1>1, <1>3, <1>4 DEF MayPost, RowShape, Tables
  <2>2. hook[dlv[d].hook] \in Hook
    BY <1>1, <2>1 DEF Tables
  <2>3. hook[dlv[d].hook].max \in Nat /\ dlv[d].attempts \in Nat
    BY <2>1, <2>2, BudgetsAssumption DEF Hook, Row
  <2>4. s \in [attempts : Nat, max : Nat, ok : BOOLEAN]
    BY <2>3
  <2>5. seen' = [seen EXCEPT ![w] = s] /\ UNCHANGED <<batch, job, held>>
    BY <1>1, <1>4 DEF Read, GoOn, Threads
  <2> QED
    BY <1>1, <1>3, <1>4, <2>4, <2>5 DEF Threads, Busy
<1>5. ASSUME ~MayPost(job[w]) /\ GoOn(w, batch[w])
      PROVE  Threads'
  BY <1>1, <1>3, <1>5, GoOnType
<1> QED
  BY <1>2, <1>4, <1>5, TypeSplitNext DEF Read

LEMMA PostType ==
  ASSUME TypeOK, NEW w \in Workers, Post(w)
  PROVE  TypeOK'
<1>1. Tables /\ Threads
  BY TypeSplit
<1>2. job[w] \in Dlv
  BY <1>1 DEF Threads, Post, Busy
<1>3. PICK took \in BOOLEAN, ok \in BOOLEAN :
        /\ accepted' = IF took THEN accepted \cup {job[w]} ELSE accepted
        /\ seen' = [seen EXCEPT ![w] = [@ EXCEPT !.ok = ok]]
  BY DEF Post
<1>4. Tables'
  BY <1>1, <1>2, <1>3 DEF Tables, Post
<1>5. Threads'
  BY <1>1, <1>2, <1>3 DEF Threads, Post, Busy
<1> QED
  BY <1>4, <1>5, TypeSplitNext

LEMMA StoreType ==
  ASSUME TypeOK, NEW w \in Workers, Store(w)
  PROVE  TypeOK'
<1>1. Tables /\ Threads
  BY TypeSplit
<1>2. job[w] \in Dlv /\ batch[w] \in SUBSET Dlv
  BY <1>1 DEF Threads, Store, Busy
<1> DEFINE d == job[w]
           done == seen[w].attempts + 1
<1>3. done \in Nat /\ RetrySchedule(done, seen[w].max) \in Wait /\ dlv[d] \in Row
  <2>1. seen[w].attempts \in Nat /\ seen[w].max \in Nat /\ dlv[d] \in Row
    BY <1>1, <1>2 DEF Threads, Tables
  <2>2. done \in Nat
    BY <2>1
  <2> HIDE DEF done
  <2> QED
    BY <2>1, <2>2, ScheduleType
<1>4. [dlv[d] EXCEPT !.status = "SUCCEEDED", !.attempts = done, !.wait = None] \in Row
  BY <1>3 DEF Row
<1>5. [dlv[d] EXCEPT !.status = "FAILED", !.attempts = done,
                     !.wait = RetrySchedule(done, seen[w].max)] \in Row
  BY <1>3 DEF Row, Wait
<1>6. dlv' \in [Dlv -> Row]
  BY <1>1, <1>4, <1>5 DEF Store, Tables
<1>7. Tables'
  BY <1>1, <1>6 DEF Tables, Store
<1>8. Threads'
  BY <1>1, <1>2, GoOnType DEF Store
<1> QED
  BY <1>7, <1>8, TypeSplitNext

LEMMA SaveType ==
  ASSUME TypeOK, NEW h \in Hooks, SaveWebhook(h)
  PROVE  TypeOK'
<1>1. Tables /\ Threads
  BY TypeSplit
<1>2. Tables'
  BY <1>1 DEF Tables, SaveWebhook, Hook
<1>3. Threads'
  BY <1>1 DEF Threads, SaveWebhook, worker
<1> QED
  BY <1>2, <1>3, TypeSplitNext

LEMMA DeleteType ==
  ASSUME TypeOK, NEW h \in Hooks, DeleteWebhook(h)
  PROVE  TypeOK'
<1>1. Tables /\ Threads
  BY TypeSplit
<1>2. [hook[h] EXCEPT !.exists = FALSE, !.enabled = FALSE] \in Hook
  BY <1>1 DEF Tables, Hook
<1>3. GoneRow \in Row
  BY DEF GoneRow, Row
<1>4. Tables'
  BY <1>1, <1>2, <1>3 DEF Tables, DeleteWebhook, WithoutHook
<1>5. Threads'
  BY <1>1 DEF Threads, DeleteWebhook, worker
<1> QED
  BY <1>4, <1>5, TypeSplitNext

LEMMA TickType ==
  ASSUME TypeOK, Tick
  PROVE  TypeOK'
<1>1. Tables /\ Threads
  BY TypeSplit
<1>2. ASSUME NEW d \in Dlv, dlv[d].wait \notin {None, 0}
      PROVE  [dlv[d] EXCEPT !.wait = dlv[d].wait - 1] \in Row
  <2>1. dlv[d] \in Row /\ dlv[d].wait - 1 \in Nat
    BY <1>1, <1>2 DEF Tables, Row
  <2> QED
    BY <2>1 DEF Row
<1>3. dlv' \in [Dlv -> Row]
  BY <1>1, <1>2 DEF Tick, Tables
<1>4. Tables'
  BY <1>1, <1>3 DEF Tables, Tick
<1>5. Threads'
  <2>1. UNCHANGED <<pc, batch, job, seen>>
    BY DEF Tick
  <2>2. held' \in [Workers -> Nat]
    <3>1. held \in [Workers -> Nat]
      BY <1>1 DEF Threads
    <3>2. \A w \in Workers : held[w] \in Nat /\ held[w] + 1 \in Nat
      BY <3>1
    <3> QED
      BY <3>2 DEF Tick
  <2> QED
    BY <1>1, <2>1, <2>2 DEF Threads
<1> QED
  BY <1>4, <1>5, TypeSplitNext

LEMMA FaultType ==
  ASSUME TypeOK, NEW w \in Workers, Crash(w) \/ StatementFails(w)
  PROVE  TypeOK'
<1>1. Tables /\ Threads
  BY TypeSplit
<1>2. Tables'
  BY <1>1, MaxFaultsAssumption DEF Tables, Crash, StatementFails
<1>3. ASSUME Crash(w) PROVE Threads'
  <2>1. {} \in SUBSET Dlv /\ GoOn(w, {})
    BY <1>3 DEF Crash
  <2> QED
    BY <1>1, <2>1, GoOnType
<1>4. ASSUME StatementFails(w) PROVE Threads'
  <2>1. batch[w] \in SUBSET Dlv
    BY <1>1, <1>4 DEF Threads, StatementFails, Busy
  <2> QED
    BY <1>1, <1>4, <2>1, GoOnType DEF StatementFails
<1> QED
  BY <1>2, <1>3, <1>4, TypeSplitNext

-----------------------------------------------------------------------------
(* What a step leaves of the invariant, by the kind of change it makes.     *)

Hands == \A w \in Workers : pc[w] \in Busy => HandShape(w)

LEMMA QueueParts ==
  Queue => TypeOK /\ (\A d \in Dlv : RowShape(d)) /\ Hands /\ OneDeliverer /\ RequestsCounted
BY DEF Queue, Hands

(* A worker nobody touches, on a row nobody touches, keeps its hand. *)
LEMMA HandFrame ==
  ASSUME TypeOK, NEW v \in Workers, pc[v] \in Busy, HandShape(v),
         pc'[v] = pc[v], job'[v] = job[v], seen'[v] = seen[v], held'[v] = held[v],
         dlv'[job[v]] = dlv[job[v]], posts'[job[v]] \in Nat,
         posts[job[v]] <= posts'[job[v]], accepted \subseteq accepted'
  PROVE  HandShape(v)'
<1>1. job[v] \in Dlv /\ posts[job[v]] \in Nat /\ dlv[job[v]] \in Row
  BY DEF TypeOK
<1>2. dlv[job[v]].attempts \in Nat
  BY <1>1 DEF Row
<1> QED
  BY <1>1, <1>2 DEF HandShape, Stored

(* A row nobody touches keeps its shape. *)
LEMMA RowFrame ==
  ASSUME TypeOK, NEW d \in Dlv, RowShape(d), dlv'[d] = dlv[d],
         dlv[d].status # "absent" \/ posts'[d] = posts[d],
         posts'[d] \in Nat, posts[d] <= posts'[d], accepted \subseteq accepted'
  PROVE  RowShape(d)'
<1>1. posts[d] \in Nat /\ dlv[d] \in Row
  BY DEF TypeOK
<1>2. dlv[d].attempts \in Nat
  BY <1>1 DEF Row
<1> QED
  BY <1>1, <1>2 DEF RowShape, Stored, Dead

(* What a worker holds cannot be claimed, swept or inserted: this is where  *)
(* the lease has to outlast the request.                                    *)
LEMMA HeldIsUnclaimable ==
  ASSUME TypeOK, NEW v \in Workers, pc[v] \in Busy, HandShape(v), NEW b \in BOOLEAN
  PROVE  ~Claimable(job[v], b) /\ dlv[job[v]].status # "absent"
<1>1. job[v] \in Dlv /\ held[v] \in Nat /\ dlv[job[v]].wait \in Nat \cup {None}
  BY DEF TypeOK, Row
<1>2. dlv[job[v]].wait # 0
  BY <1>1, LeaseAssumption, NoneAssumption DEF HandShape
<1>3. dlv[job[v]].status # "FAILED"
  BY DEF HandShape
<1> QED
  BY <1>2, <1>3 DEF HandShape, Claimable

(* A worker takes a delivery that no worker holds. *)
LEMMA TakeKeeps ==
  ASSUME Queue, TypeOK', NEW w \in Workers, pc[w] \notin Busy, NEW d \in Dlv, NEW rest,
         Take(w, d, rest),
         \A v \in Workers : pc[v] \in Busy => job[v] # d,
         \A e \in Dlv \ {d} : dlv'[e] = dlv[e],
         dlv'[d].status = "PENDING", dlv'[d].wait \in {None, Lease},
         RowShape(d)', posts[d] <= dlv'[d].attempts + faults,
         UNCHANGED <<accepted, posts, faults>>
  PROVE  Queue'
<1>0. TypeOK /\ (\A e \in Dlv : RowShape(e)) /\ Hands /\ OneDeliverer /\ RequestsCounted
  BY QueueParts
<1>1. \A v \in Workers \ {w} : /\ pc'[v] = pc[v] /\ job'[v] = job[v]
                              /\ seen'[v] = seen[v] /\ held'[v] = held[v]
  BY <1>0 DEF Take, TypeOK
<1>2. pc'[w] = "read" /\ job'[w] = d /\ held'[w] = 0
  BY <1>0 DEF Take, TypeOK
<1>3. \A e \in Dlv : posts'[e] \in Nat /\ posts'[e] = posts[e]
  BY <1>0 DEF TypeOK
<1>4. ASSUME NEW e \in Dlv PROVE RowShape(e)'
  <2>1. CASE e = d
    BY <2>1
  <2>2. CASE e # d
    BY <1>0, <1>3, <2>2, RowFrame
  <2> QED
    BY <2>1, <2>2
<1>5. ASSUME NEW v \in Workers, pc'[v] \in Busy PROVE HandShape(v)'
  <2>1. CASE v = w
    BY <1>2, <2>1, LeaseAssumption DEF HandShape, Busy
  <2>2. CASE v # w
    <3>1. pc[v] \in Busy /\ job[v] \in Dlv /\ job[v] # d /\ HandShape(v)
      BY <1>0, <1>1, <1>5, <2>2 DEF TypeOK, Hands
    <3> QED
      BY <1>0, <1>1, <1>3, <2>2, <3>1, HandFrame
  <2> QED
    BY <2>1, <2>2
<1>6. OneDeliverer'
  BY <1>0, <1>1, <1>2 DEF OneDeliverer, Busies
<1>7. ASSUME NEW e \in Dlv, Stored(e)'
      PROVE  posts'[e] <= dlv'[e].attempts + faults'
                           + (IF \E v \in Busies(e)' : pc'[v] = "store" THEN 1 ELSE 0)
  <2>1. dlv'[e].attempts \in Nat /\ faults' \in Nat /\ posts'[e] \in Nat
    BY DEF TypeOK, Row
  <2>2. CASE e = d
    BY <2>1, <2>2
  <2>3. CASE e # d
    <3>1. Stored(e) /\ dlv'[e] = dlv[e]
      BY <1>7, <2>3 DEF Stored
    <3>2. (\E v \in Busies(e) : pc[v] = "store") => (\E v \in Busies(e)' : pc'[v] = "store")
      BY <1>1, <2>3 DEF Busies, Busy
    <3>3. posts[e] <= dlv[e].attempts + faults
                        + (IF \E v \in Busies(e) : pc[v] = "store" THEN 1 ELSE 0)
      BY <1>0, <3>1 DEF RequestsCounted
    <3> QED
      BY <2>1, <3>1, <3>2, <3>3
  <2> QED
    BY <2>2, <2>3
<1>8. RequestsCounted'
  BY <1>7 DEF RequestsCounted
<1> QED
  BY <1>4, <1>5, <1>6, <1>8 DEF Queue

(* A worker lets its delivery go and stores nothing; a request it made is   *)
(* then a fault's.                                                          *)
LEMMA GoOnKeeps ==
  ASSUME Queue, TypeOK', NEW w \in Workers, NEW rest, GoOn(w, rest),
         UNCHANGED <<dlv, accepted, posts>>,
         \/ pc[w] # "store" /\ faults' = faults
         \/ ~Stored(job[w]) /\ faults' = faults
         \/ faults' = faults + 1
  PROVE  Queue'
<1>0. TypeOK /\ (\A e \in Dlv : RowShape(e)) /\ Hands /\ OneDeliverer /\ RequestsCounted
  BY QueueParts
<1>1. \A v \in Workers \ {w} : /\ pc'[v] = pc[v] /\ job'[v] = job[v]
                              /\ seen'[v] = seen[v] /\ held'[v] = held[v]
  BY <1>0 DEF GoOn, TypeOK
<1>2. pc'[w] \notin Busy
  BY <1>0 DEF GoOn, TypeOK, Busy
<1>3. \A e \in Dlv : posts'[e] \in Nat /\ posts'[e] = posts[e] /\ dlv'[e] = dlv[e]
  BY <1>0 DEF TypeOK
<1>4. ASSUME NEW e \in Dlv PROVE RowShape(e)'
  BY <1>0, <1>3, RowFrame
<1>5. ASSUME NEW v \in Workers, pc'[v] \in Busy PROVE HandShape(v)'
  <2>1. v # w /\ pc[v] \in Busy /\ HandShape(v) /\ job[v] \in Dlv
    BY <1>0, <1>1, <1>2, <1>5 DEF TypeOK, Hands
  <2> QED
    BY <1>0, <1>1, <1>3, <2>1, HandFrame
<1>6. OneDeliverer'
  BY <1>0, <1>1, <1>2 DEF OneDeliverer, Busies
<1>7. ASSUME NEW e \in Dlv, Stored(e)'
      PROVE  posts'[e] <= dlv'[e].attempts + faults'
                           + (IF \E v \in Busies(e)' : pc'[v] = "store" THEN 1 ELSE 0)
  <2>1. dlv'[e].attempts \in Nat /\ faults \in Nat /\ posts'[e] \in Nat
    BY <1>0 DEF TypeOK, Row
  <2>2. posts[e] <= dlv[e].attempts + faults
                        + (IF \E v \in Busies(e) : pc[v] = "store" THEN 1 ELSE 0)
    BY <1>0, <1>7, <1>3 DEF RequestsCounted, Stored
  <2>3. CASE faults' = faults + 1
    BY <1>3, <2>1, <2>2, <2>3
  <2>4. CASE pc[w] # "store" /\ faults' = faults
    <3>1. (\E v \in Busies(e) : pc[v] = "store") => (\E v \in Busies(e)' : pc'[v] = "store")
      BY <1>1, <2>4 DEF Busies
    <3> QED
      BY <1>3, <2>1, <2>2, <2>4, <3>1
  <2>5. CASE ~Stored(job[w]) /\ faults' = faults
    <3>1. job[w] # e
      BY <1>3, <1>7, <2>5 DEF Stored
    <3>2. (\E v \in Busies(e) : pc[v] = "store") => (\E v \in Busies(e)' : pc'[v] = "store")
      BY <1>1, <3>1 DEF Busies
    <3> QED
      BY <1>3, <2>1, <2>2, <2>5, <3>2
  <2> QED
    BY <2>3, <2>4, <2>5
<1>8. RequestsCounted'
  BY <1>7 DEF RequestsCounted
<1> QED
  BY <1>4, <1>5, <1>6, <1>8 DEF Queue

(* A step of a worker that holds nothing before or after it; a row it       *)
(* inserts is new.                                                          *)
LEMMA AsideKeeps ==
  ASSUME Queue, TypeOK', NEW w \in Workers, pc[w] \notin Busy, pc'[w] \notin Busy,
         \A v \in Workers \ {w} : pc'[v] = pc[v],
         UNCHANGED <<job, seen, held, accepted, posts, faults>>,
         \/ UNCHANGED dlv
         \/ \E d \in Dlv, h \in Hooks : Insert(d, h, 0)
  PROVE  Queue'
<1>0. TypeOK /\ (\A e \in Dlv : RowShape(e)) /\ Hands /\ OneDeliverer /\ RequestsCounted
  BY QueueParts
<1>1. \A e \in Dlv : posts'[e] \in Nat /\ posts'[e] = posts[e]
  BY <1>0 DEF TypeOK
<1>2. ASSUME NEW e \in Dlv
      PROVE  \/ dlv'[e] = dlv[e]
             \/ /\ dlv[e].status = "absent"
                /\ dlv'[e].status = "PENDING" /\ dlv'[e].hook \in Hooks
                /\ dlv'[e].attempts = 0 /\ posts[e] = 0
  <2>1. CASE UNCHANGED dlv
    BY <2>1
  <2>2. CASE \E d \in Dlv, h \in Hooks : Insert(d, h, 0)
    <3>1. PICK d \in Dlv, h \in Hooks : Insert(d, h, 0)
      BY <2>2
    <3>2. CASE e = d
      BY <1>0, <3>1, <3>2 DEF Insert, TypeOK, RowShape
    <3>3. CASE e # d
      BY <1>0, <3>1, <3>3 DEF Insert, TypeOK
    <3> QED
      BY <3>2, <3>3
  <2> QED
    BY <2>1, <2>2
<1>4. ASSUME NEW e \in Dlv PROVE RowShape(e)'
  <2>1. CASE dlv'[e] = dlv[e]
    BY <1>0, <1>1, <2>1, RowFrame
  <2>2. CASE dlv'[e] # dlv[e]
    BY <1>1, <1>2, <2>2 DEF RowShape, Stored, Dead
  <2> QED
    BY <2>1, <2>2
<1>5. ASSUME NEW v \in Workers, pc'[v] \in Busy PROVE HandShape(v)'
  <2>1. v # w /\ pc[v] \in Busy /\ HandShape(v) /\ job[v] \in Dlv
    BY <1>0, <1>5 DEF TypeOK, Hands
  <2>2. dlv[job[v]].status # "absent"
    BY <2>1 DEF HandShape
  <2>3. dlv'[job[v]] = dlv[job[v]]
    BY <1>2, <2>1, <2>2
  <2> QED
    BY <1>0, <1>1, <2>1, <2>3, HandFrame
<1>6. \A e \in Dlv : Busies(e)' = Busies(e)
  BY DEF Busies
<1>7. OneDeliverer'
  BY <1>0, <1>6 DEF OneDeliverer
<1>8. ASSUME NEW e \in Dlv, Stored(e)'
      PROVE  posts'[e] <= dlv'[e].attempts + faults'
                           + (IF \E v \in Busies(e)' : pc'[v] = "store" THEN 1 ELSE 0)
  <2>1. dlv'[e].attempts \in Nat /\ faults \in Nat /\ posts[e] \in Nat
    BY <1>0 DEF TypeOK, Row
  <2>2. CASE dlv'[e] = dlv[e]
    <3>1. \A v \in Busies(e) : pc'[v] = pc[v]
      BY DEF Busies
    <3>2. Stored(e)
      BY <1>8, <2>2 DEF Stored
    <3> QED
      BY <1>0, <1>6, <2>1, <2>2, <3>1, <3>2 DEF RequestsCounted
  <2>3. CASE dlv'[e] # dlv[e]
    BY <1>2, <2>1, <2>3
  <2> QED
    BY <2>2, <2>3
<1>9. RequestsCounted'
  BY <1>8 DEF RequestsCounted
<1> QED
  BY <1>4, <1>5, <1>7, <1>9 DEF Queue

-----------------------------------------------------------------------------
(* One lemma per action, or pair of actions of one kind.                    *)

LEMMA InitQueue == Init => Queue
<1> SUFFICES ASSUME Init PROVE Queue
  OBVIOUS
<1>1. TypeOK
  BY InitType
<1>2. \A d \in Dlv : RowShape(d)
  BY DEF Init, RowShape, Stored, Dead
<1>3. \A w \in Workers : pc[w] \notin Busy
  BY DEF Init, Busy
<1>4. OneDeliverer
  BY <1>3 DEF OneDeliverer, Busies
<1>5. RequestsCounted
  BY DEF Init, RequestsCounted, Stored
<1> QED
  BY <1>1, <1>2, <1>3, <1>4, <1>5 DEF Queue

LEMMA FillKeeps ==
  ASSUME Queue, NEW w \in Workers, FanOut(w) \/ FanInsert(w) \/ Sweep(w)
  PROVE  Queue'
<1>0. TypeOK
  BY QueueParts
<1>1. TypeOK'
  BY <1>0, FanOutType, FanInsertType, SweepType
<1>2. CASE FanOut(w)
  BY <1>0, <1>1, <1>2, AsideKeeps DEF FanOut, TypeOK, Busy
<1>3. CASE Sweep(w)
  BY <1>0, <1>1, <1>3, AsideKeeps DEF Sweep, TypeOK, Busy
<1>4. CASE FanInsert(w)
  <2>1. pc[w] = "fan out" /\ UNCHANGED <<job, seen, held, accepted, posts, faults>>
    BY <1>4 DEF FanInsert
  <2>2. batch[w] \subseteq Hooks
    BY <1>0, <2>1 DEF TypeOK
  <2>3. UNCHANGED dlv \/ \E d \in Dlv, h \in Hooks : Insert(d, h, 0)
    BY <1>4, <2>2 DEF FanInsert
  <2>4. pc'[w] \notin Busy /\ \A v \in Workers \ {w} : pc'[v] = pc[v]
    BY <1>0, <1>4 DEF FanInsert, TypeOK, Busy
  <2> QED
    BY <1>1, <2>1, <2>3, <2>4, AsideKeeps DEF Busy
<1> QED
  BY <1>2, <1>3, <1>4

(* deliver_webhook holds a new row. *)
LEMMA DeliverWebhookKeeps ==
  ASSUME Queue, NEW w \in Workers, NEW h \in Hooks, DeliverWebhook(w, h)
  PROVE  Queue'
<1>0. TypeOK /\ (\A e \in Dlv : RowShape(e)) /\ Hands
  BY QueueParts
<1>1. TypeOK'
  BY <1>0, DeliverWebhookType
<1>2. PICK d \in Dlv : Insert(d, h, None) /\ Take(w, d, {})
  BY DEF DeliverWebhook
<1>3. /\ dlv[d].status = "absent"
      /\ dlv'[d] = [hook |-> h, status |-> "PENDING", attempts |-> 0, wait |-> None]
      /\ \A e \in Dlv \ {d} : dlv'[e] = dlv[e]
  BY <1>0, <1>2 DEF Insert, TypeOK
<1>4. \A v \in Workers : pc[v] \in Busy => job[v] # d
  BY <1>0, <1>3, HeldIsUnclaimable DEF Hands
<1>5. posts[d] = 0 /\ faults \in Nat
  BY <1>0, <1>3 DEF RowShape, TypeOK
<1>6. UNCHANGED <<accepted, posts, faults>> /\ pc[w] \notin Busy
  BY DEF DeliverWebhook, Busy
<1>7. RowShape(d)'
  BY <1>3, <1>5, <1>6 DEF RowShape, Stored, Dead
<1>8. posts[d] <= dlv'[d].attempts + faults
  BY <1>3, <1>5
<1> QED
  BY <1>1, <1>2, <1>3, <1>4, <1>6, <1>7, <1>8, TakeKeeps

(* A claim takes a row that nobody holds. *)
LEMMA ClaimKeeps ==
  ASSUME Queue, TypeOK', NEW w \in Workers, pc[w] \notin Busy, NEW d \in Dlv, NEW rest,
         NEW b \in BOOLEAN, Claimable(d, b), Claim(d), Take(w, d, rest),
         UNCHANGED <<accepted, posts, faults>>
  PROVE  Queue'
<1>0. TypeOK /\ (\A e \in Dlv : RowShape(e)) /\ Hands /\ RequestsCounted
  BY QueueParts
<1>1. \A v \in Workers : pc[v] \in Busy => job[v] # d
  BY <1>0, HeldIsUnclaimable DEF Hands
<1>2. dlv[d] \in Row /\ posts[d] \in Nat /\ faults \in Nat
  BY <1>0 DEF TypeOK
<1>3. /\ dlv'[d] = [dlv[d] EXCEPT !.status = "PENDING", !.wait = Lease]
      /\ \A e \in Dlv \ {d} : dlv'[e] = dlv[e]
  BY <1>0 DEF Claim, TypeOK
<1>4. /\ dlv'[d].status = "PENDING" /\ dlv'[d].wait = Lease
      /\ dlv'[d].hook = dlv[d].hook /\ dlv'[d].attempts = dlv[d].attempts
  BY <1>2, <1>3 DEF Row
<1>5. Stored(d)
  BY DEF Claimable, Stored
<1>6. Lease # None
  BY LeaseAssumption, NoneAssumption
<1>7. RowShape(d)'
  BY <1>0, <1>4, <1>5, <1>6 DEF RowShape, Stored, Dead
<1>8. posts[d] <= dlv'[d].attempts + faults
  <2>1. ~ \E v \in Busies(d) : pc[v] = "store"
    BY <1>1 DEF Busies
  <2>2. dlv[d].attempts \in Nat
    BY <1>2 DEF Row
  <2> QED
    BY <1>0, <1>2, <1>4, <1>5, <2>1, <2>2 DEF RequestsCounted
<1> QED
  BY <1>1, <1>3, <1>4, <1>7, <1>8, TakeKeeps

LEMMA RetryKeeps ==
  ASSUME Queue, NEW w \in Workers, NEW d \in Dlv, Retry(w, d)
  PROVE  Queue'
<1>0. TypeOK
  BY QueueParts
<1>1. TypeOK'
  BY <1>0, RetryType
<1> QED
  BY <1>1, ClaimKeeps DEF Retry, Busy

LEMMA SweepNextKeeps ==
  ASSUME Queue, NEW w \in Workers, SweepNext(w)
  PROVE  Queue'
<1>0. TypeOK
  BY QueueParts
<1>1. TypeOK'
  BY <1>0, SweepNextType
<1>2. pc[w] = "sweep" /\ batch[w] \subseteq Dlv /\ UNCHANGED <<accepted, posts, faults>>
  BY <1>0 DEF SweepNext, TypeOK
<1>3. PICK d \in batch[w] :
        \/ Claimable(d, TRUE) /\ Claim(d) /\ Take(w, d, batch[w] \ {d})
        \/ GoOn(w, batch[w] \ {d}) /\ UNCHANGED dlv
  BY DEF SweepNext
<1>4. CASE Claimable(d, TRUE) /\ Claim(d) /\ Take(w, d, batch[w] \ {d})
  BY <1>1, <1>2, <1>4, ClaimKeeps DEF Busy
<1>5. CASE GoOn(w, batch[w] \ {d}) /\ UNCHANGED dlv
  BY <1>1, <1>2, <1>5, GoOnKeeps
<1> QED
  BY <1>3, <1>4, <1>5

LEMMA FaultKeeps ==
  ASSUME Queue, NEW w \in Workers, Crash(w) \/ StatementFails(w)
  PROVE  Queue'
<1>0. TypeOK
  BY QueueParts
<1>1. TypeOK'
  BY <1>0, FaultType
<1>2. CASE Crash(w)
  BY <1>1, <1>2, GoOnKeeps DEF Crash
<1>3. CASE StatementFails(w)
  BY <1>1, <1>3, GoOnKeeps DEF StatementFails
<1> QED
  BY <1>2, <1>3

(* Of the steps of deliver_delivery, the read and the request change the    *)
(* worker alone, or its row's count of requests.                            *)
LEMMA ReadKeeps ==
  ASSUME Queue, NEW w \in Workers, Read(w)
  PROVE  Queue'
<1>0. TypeOK /\ (\A e \in Dlv : RowShape(e)) /\ Hands /\ OneDeliverer /\ RequestsCounted
  BY QueueParts
<1>1. TypeOK'
  BY <1>0, ReadType
<1>2. CASE ~MayPost(job[w]) /\ GoOn(w, batch[w])
  BY <1>1, <1>2, GoOnKeeps DEF Read
<1>3. CASE /\ MayPost(job[w])
           /\ seen' = [seen EXCEPT ![w] = [attempts |-> dlv[job[w]].attempts,
                                  max |-> hook[dlv[job[w]].hook].max, ok |-> FALSE]]
           /\ pc' = [pc EXCEPT ![w] = "post"]
           /\ UNCHANGED <<batch, job, held>>
  <2>1. UNCHANGED <<hook, dlv, accepted, posts, faults>> /\ pc[w] = "read"
    BY DEF Read
  <2>2. \A v \in Workers \ {w} : pc'[v] = pc[v] /\ seen'[v] = seen[v]
    BY <1>0, <1>3 DEF TypeOK
  <2>3. pc'[w] = "post" /\ seen'[w] = [attempts |-> dlv[job[w]].attempts,
                                  max |-> hook[dlv[job[w]].hook].max, ok |-> FALSE]
    BY <1>0, <1>3 DEF TypeOK
  <2>4. \A e \in Dlv : posts'[e] \in Nat /\ posts'[e] = posts[e] /\ dlv'[e] = dlv[e]
    BY <1>0, <2>1 DEF TypeOK
  <2>5. \A e \in Dlv : RowShape(e)'
    BY <1>0, <2>1, <2>4, RowFrame
  <2>6. ASSUME NEW v \in Workers, pc'[v] \in Busy PROVE HandShape(v)'
    <3>1. CASE v = w
      <4>1. HandShape(w) /\ job[w] \in Dlv
        BY <1>0, <2>1 DEF Hands, Busy, TypeOK
      <4>2. hook[dlv[job[w]].hook].max \in Budgets
        BY <1>0, <1>3, <4>1 DEF RowShape, MayPost, TypeOK, Hook
      <4> QED
        BY <1>3, <2>1, <2>3, <3>1, <4>1, <4>2 DEF HandShape, Stored
    <3>2. CASE v # w
      <4>1. pc[v] \in Busy /\ HandShape(v) /\ job[v] \in Dlv
        BY <1>0, <2>2, <2>6, <3>2 DEF Hands, TypeOK
      <4> QED
        BY <1>0, <1>3, <2>1, <2>2, <2>4, <3>2, <4>1, HandFrame
    <3> QED
      BY <3>1, <3>2
  <2>7. \A e \in Dlv : Busies(e)' = Busies(e)
    BY <1>3, <2>1, <2>2, <2>3 DEF Busies, Busy
  <2>8. OneDeliverer'
    BY <1>0, <2>7 DEF OneDeliverer
  <2>9. RequestsCounted'
    <3>1. \A v \in Workers : pc[v] = "store" <=> pc'[v] = "store"
      BY <2>1, <2>2, <2>3
    <3>2. \A e \in Dlv : (\E v \in Busies(e) : pc[v] = "store")
                          <=> (\E v \in Busies(e)' : pc'[v] = "store")
      BY <2>7, <3>1 DEF Busies
    <3> QED
      BY <1>0, <2>1, <2>4, <3>2 DEF RequestsCounted, Stored
  <2> QED
    BY <1>1, <2>5, <2>6, <2>8, <2>9 DEF Queue
<1> QED
  BY <1>2, <1>3 DEF Read

LEMMA PostKeeps ==
  ASSUME Queue, NEW w \in Workers, Post(w)
  PROVE  Queue'
<1>0. TypeOK /\ (\A e \in Dlv : RowShape(e)) /\ Hands /\ OneDeliverer /\ RequestsCounted
  BY QueueParts
<1>1. TypeOK'
  BY <1>0, PostType
<1> DEFINE d == job[w]
<1>2. pc[w] = "post" /\ d \in Dlv /\ HandShape(w) /\ UNCHANGED <<dlv, job, held, faults>>
  BY <1>0 DEF Post, Hands, Busy, TypeOK
<1>3. PICK took \in BOOLEAN, ok \in BOOLEAN :
        /\ ok => took
        /\ accepted' = IF took THEN accepted \cup {d} ELSE accepted
        /\ seen' = [seen EXCEPT ![w] = [@ EXCEPT !.ok = ok]]
  BY DEF Post
<1>4. accepted \subseteq accepted' /\ (ok => d \in accepted')
  BY <1>3
<1>5. /\ posts'[d] = posts[d] + 1 /\ posts[d] \in Nat
      /\ \A e \in Dlv \ {d} : posts'[e] = posts[e]
      /\ \A e \in Dlv : posts[e] \in Nat /\ posts'[e] \in Nat /\ posts[e] <= posts'[e]
  <2>1. posts \in [Dlv -> Nat] /\ posts' = [posts EXCEPT ![d] = posts[d] + 1]
    BY <1>0 DEF Post, TypeOK
  <2>2. posts'[d] = posts[d] + 1 /\ posts[d] \in Nat
    BY <1>2, <2>1
  <2>3. \A e \in Dlv \ {d} : posts'[e] = posts[e] /\ posts[e] \in Nat
    BY <2>1
  <2>4. ASSUME NEW e \in Dlv
        PROVE  posts[e] \in Nat /\ posts'[e] \in Nat /\ posts[e] <= posts'[e]
    BY <2>2, <2>3
  <2> QED
    BY <2>2, <2>3, <2>4
<1>6. pc'[w] = "store" /\ \A v \in Workers \ {w} : pc'[v] = pc[v] /\ seen'[v] = seen[v]
  BY <1>0, <1>3 DEF Post, TypeOK
<1>7. /\ seen'[w].attempts = seen[w].attempts /\ seen'[w].max = seen[w].max
      /\ seen'[w].ok = ok
  BY <1>0, <1>3 DEF TypeOK
<1>8. dlv[d].status # "absent"
  BY <1>2 DEF HandShape
<1>9. ASSUME NEW e \in Dlv PROVE RowShape(e)'
  BY <1>0, <1>2, <1>4, <1>5, <1>8, RowFrame
<1>10. ASSUME NEW v \in Workers, pc'[v] \in Busy PROVE HandShape(v)'
  <2>1. CASE v = w
    <3>1. Stored(d) => dlv[d].attempts < posts'[d]
      <4>1. dlv[d].attempts \in Nat /\ dlv[d].attempts <= posts[d]
        BY <1>0, <1>2 DEF RowShape, TypeOK, Row
      <4> QED
        BY <1>5, <4>1
    <3> QED
      BY <1>2, <1>4, <1>6, <1>7, <2>1, <3>1 DEF HandShape, Stored
  <2>2. CASE v # w
    <3>1. pc[v] \in Busy /\ HandShape(v) /\ job[v] \in Dlv
      BY <1>0, <1>6, <1>10, <2>2 DEF Hands, TypeOK
    <3> QED
      BY <1>0, <1>2, <1>4, <1>5, <1>6, <2>2, <3>1, HandFrame
  <2> QED
    BY <2>1, <2>2
<1>11. \A e \in Dlv : Busies(e)' = Busies(e)
  BY <1>2, <1>6 DEF Busies, Busy
<1>12. OneDeliverer'
  BY <1>0, <1>11 DEF OneDeliverer
<1>13. ASSUME NEW e \in Dlv, Stored(e)'
       PROVE  posts'[e] <= dlv'[e].attempts + faults'
                            + (IF \E v \in Busies(e)' : pc'[v] = "store" THEN 1 ELSE 0)
  <2>1. Stored(e) /\ dlv[e].attempts \in Nat /\ faults \in Nat
    BY <1>0, <1>2, <1>13 DEF Stored, TypeOK, Row
  <2>2. posts[e] <= dlv[e].attempts + faults
                        + (IF \E v \in Busies(e) : pc[v] = "store" THEN 1 ELSE 0)
    BY <1>0, <2>1 DEF RequestsCounted
  <2>3. CASE e = d
    <3>1. w \in Busies(d)
      BY <1>2 DEF Busies, Busy
    <3>2. ~ \E v \in Busies(d) : pc[v] = "store"
      BY <1>0, <1>2, <3>1 DEF OneDeliverer
    <3>3. \E v \in Busies(d)' : pc'[v] = "store"
      BY <1>2, <1>6, <1>11, <3>1
    <3> QED
      BY <1>2, <1>5, <2>1, <2>2, <2>3, <3>2, <3>3
  <2>4. CASE e # d
    <3>1. (\E v \in Busies(e) : pc[v] = "store") <=> (\E v \in Busies(e)' : pc'[v] = "store")
      BY <1>2, <1>6, <1>11, <2>4 DEF Busies
    <3> QED
      BY <1>2, <1>5, <2>1, <2>2, <2>4, <3>1
  <2> QED
    BY <2>3, <2>4
<1>14. RequestsCounted'
  BY <1>13 DEF RequestsCounted
<1> QED
  BY <1>1, <1>9, <1>10, <1>12, <1>14 DEF Queue

(* A row that is dead-lettered has spent the budget that was read with it.  *)
LEMMA DeadIsSpent ==
  ASSUME NEW n \in Nat, NEW max \in Nat, RetrySchedule(n, max) = None
  PROVE  max <= n
BY BackoffType, NoneAssumption DEF RetrySchedule

(* Nobody else holds the row whose outcome is stored.                       *)
LEMMA StoreKeeps ==
  ASSUME Queue, NEW w \in Workers, Store(w)
  PROVE  Queue'
<1>0. TypeOK /\ (\A e \in Dlv : RowShape(e)) /\ Hands /\ OneDeliverer /\ RequestsCounted
  BY QueueParts
<1>1. TypeOK'
  BY <1>0, StoreType
<1>2. CASE ~Stored(job[w])
  BY <1>1, <1>2, GoOnKeeps DEF Store
<1>3. CASE Stored(job[w])
  <2>0. PICK d \in Dlv : d = job[w]
    BY <1>0 DEF Store, Busy, TypeOK
  <2> DEFINE done == seen[w].attempts + 1
  <2>1. /\ pc[w] = "store" /\ d = job[w] /\ HandShape(w)
        /\ UNCHANGED <<accepted, posts, faults>> /\ GoOn(w, batch[w])
    BY <1>0, <2>0 DEF Store, Hands, Busy, TypeOK
  <2>2. /\ seen[w].attempts = dlv[d].attempts /\ seen[w].max \in Budgets
        /\ dlv[d].attempts < posts[d] /\ (seen[w].ok => d \in accepted)
    BY <1>3, <2>1 DEF HandShape
  <2>3. /\ dlv[d].attempts \in Nat /\ posts[d] \in Nat /\ faults \in Nat /\ done \in Nat
        /\ seen[w].max \in Nat /\ dlv[d] \in Row
    <3>1. /\ dlv[d] \in Row /\ posts[d] \in Nat /\ faults \in Nat
          /\ seen[w] \in [attempts : Nat, max : Nat, ok : BOOLEAN]
      BY <1>0 DEF TypeOK
    <3>2. dlv[d].attempts \in Nat /\ seen[w].max \in Nat /\ seen[w].attempts \in Nat
      BY <3>1 DEF Row
    <3> QED
      BY <3>1, <3>2
  <2>4. /\ dlv'[d].hook = dlv[d].hook /\ dlv'[d].attempts = done
        /\ \/ dlv'[d].status = "SUCCEEDED" /\ dlv'[d].wait = None /\ seen[w].ok
           \/ dlv'[d].status = "FAILED" /\ dlv'[d].wait = RetrySchedule(done, seen[w].max)
        /\ \A e \in Dlv \ {d} : dlv'[e] = dlv[e]
    <3>1. PICK row \in {[dlv[d] EXCEPT !.status = "SUCCEEDED", !.attempts = done, !.wait = None],
                        [dlv[d] EXCEPT !.status = "FAILED", !.attempts = done,
                                       !.wait = RetrySchedule(done, seen[w].max)]} :
            /\ dlv' = [dlv EXCEPT ![d] = row]
            /\ row.status = "SUCCEEDED" => seen[w].ok
      BY <1>3, <2>1, <2>3 DEF Store, Row
    <3>2. /\ row.hook = dlv[d].hook /\ row.attempts = done
          /\ \/ row.status = "SUCCEEDED" /\ row.wait = None
             \/ row.status = "FAILED" /\ row.wait = RetrySchedule(done, seen[w].max)
      BY <2>3, <3>1 DEF Row
    <3>3. dlv'[d] = row /\ \A e \in Dlv \ {d} : dlv'[e] = dlv[e]
      BY <1>0, <2>1, <3>1 DEF TypeOK
    <3> QED
      BY <3>1, <3>2, <3>3
  <2>5. \A v \in Workers \ {w} : /\ pc'[v] = pc[v] /\ job'[v] = job[v]
                                /\ seen'[v] = seen[v] /\ held'[v] = held[v]
    BY <1>0, <2>1 DEF GoOn, TypeOK
  <2>6. pc'[w] \notin Busy
    BY <1>0, <2>1 DEF GoOn, TypeOK, Busy
  <2>7. \A v \in Workers \ {w} : pc[v] \in Busy => job[v] # d
    BY <1>0, <2>1 DEF OneDeliverer, Busies, Busy
  <2>8. \A e \in Dlv : posts'[e] = posts[e] /\ posts[e] \in Nat
    BY <1>0, <2>1 DEF TypeOK
  <2>9. RowShape(d)'
    <3>1. Stored(d)' /\ dlv'[d].hook \in Hooks
      BY <1>0, <1>3, <2>1, <2>4 DEF RowShape, Stored
    <3>2. dlv'[d].attempts <= posts'[d]
      BY <2>2, <2>3, <2>4, <2>8, <2>1
    <3>3. Dead(d)' => seen[w].max <= dlv'[d].attempts
      <4>1. SUFFICES ASSUME Dead(d)' PROVE seen[w].max <= dlv'[d].attempts
        OBVIOUS
      <4>2. RetrySchedule(done, seen[w].max) = None
        BY <2>4, <4>1 DEF Dead
      <4> HIDE DEF done
      <4> QED
        BY <2>3, <2>4, <4>2, DeadIsSpent
    <3> QED
      BY <2>1, <2>2, <2>4, <3>1, <3>2, <3>3 DEF RowShape, Dead, Stored
  <2>10. ASSUME NEW e \in Dlv PROVE RowShape(e)'
    <3>1. CASE e = d
      BY <2>9, <3>1
    <3>2. CASE e # d
      BY <1>0, <2>1, <2>4, <2>8, <3>2, RowFrame
    <3> QED
      BY <3>1, <3>2
  <2>11. ASSUME NEW v \in Workers, pc'[v] \in Busy PROVE HandShape(v)'
    <3>1. v # w /\ pc[v] \in Busy /\ HandShape(v) /\ job[v] \in Dlv /\ job[v] # d
      BY <1>0, <2>5, <2>6, <2>7, <2>11 DEF Hands, TypeOK
    <3> QED
      BY <1>0, <2>1, <2>4, <2>5, <2>8, <3>1, HandFrame
  <2>12. OneDeliverer'
    BY <1>0, <2>5, <2>6 DEF OneDeliverer, Busies
  <2>13. ASSUME NEW e \in Dlv, Stored(e)'
         PROVE  posts'[e] <= dlv'[e].attempts + faults'
                              + (IF \E v \in Busies(e)' : pc'[v] = "store" THEN 1 ELSE 0)
    <3>1. CASE e = d
      <4>1. posts[d] <= dlv[d].attempts + faults + 1
        BY <1>0, <1>3, <2>1, <2>3 DEF RequestsCounted
      <4> QED
        BY <2>1, <2>2, <2>3, <2>4, <2>8, <3>1, <4>1
    <3>2. CASE e # d
      <4>1. Stored(e) /\ dlv[e].attempts \in Nat
        BY <1>0, <2>4, <2>13, <3>2 DEF Stored, TypeOK, Row
      <4>2. (\E v \in Busies(e) : pc[v] = "store") => (\E v \in Busies(e)' : pc'[v] = "store")
        BY <2>1, <2>5, <3>2 DEF Busies
      <4>3. posts[e] <= dlv[e].attempts + faults
                          + (IF \E v \in Busies(e) : pc[v] = "store" THEN 1 ELSE 0)
        BY <1>0, <4>1 DEF RequestsCounted
      <4> QED
        BY <2>1, <2>3, <2>4, <2>8, <3>2, <4>1, <4>2, <4>3
    <3> QED
      BY <3>1, <3>2
  <2>14. RequestsCounted'
    BY <2>13 DEF RequestsCounted
  <2> QED
    BY <1>1, <2>10, <2>11, <2>12, <2>14 DEF Queue
<1> QED
  BY <1>2, <1>3

(* The administrator, and a step of nobody.                                 *)
LEMMA SaveKeeps ==
  ASSUME Queue, TypeOK', UNCHANGED <<dlv, worker, accepted, posts, faults>>
  PROVE  Queue'
<1>0. (\A e \in Dlv : RowShape(e)) /\ Hands /\ OneDeliverer /\ RequestsCounted
  BY QueueParts
<1>1. \A d \in Dlv : RowShape(d)'
  BY <1>0 DEF RowShape, Stored, Dead
<1>2. \A w \in Workers : pc'[w] \in Busy => HandShape(w)'
  BY <1>0 DEF Hands, HandShape, Stored, worker
<1>3. \A d \in Dlv : Busies(d)' = Busies(d)
  BY DEF Busies, worker
<1>4. OneDeliverer'
  BY <1>0, <1>3 DEF OneDeliverer
<1>5. RequestsCounted'
  BY <1>0, <1>3 DEF RequestsCounted, Stored, worker
<1> QED
  BY <1>1, <1>2, <1>4, <1>5 DEF Queue

LEMMA DeleteKeeps ==
  ASSUME Queue, NEW h \in Hooks, DeleteWebhook(h)
  PROVE  Queue'
<1>0. TypeOK /\ (\A e \in Dlv : RowShape(e)) /\ Hands /\ OneDeliverer /\ RequestsCounted
  BY QueueParts
<1>1. TypeOK'
  BY <1>0, DeleteType
<1>2. UNCHANGED <<pc, job, seen, held, accepted, posts, faults>>
  BY DEF DeleteWebhook, worker
<1>3. \A d \in Dlv : dlv'[d] = dlv[d] \/ dlv'[d] = GoneRow
  BY DEF DeleteWebhook, WithoutHook
<1>4. \A d \in Dlv : posts'[d] = posts[d] /\ posts[d] \in Nat
  BY <1>0, <1>2 DEF TypeOK
<1>5. ASSUME NEW d \in Dlv PROVE RowShape(d)'
  <2>1. CASE dlv'[d] = dlv[d]
    BY <1>0, <1>2, <1>4, <2>1, RowFrame
  <2>2. CASE dlv'[d] = GoneRow
    BY <1>4, <2>2 DEF RowShape, Stored, Dead, GoneRow
  <2> QED
    BY <1>3, <2>1, <2>2
<1>6. ASSUME NEW w \in Workers, pc'[w] \in Busy PROVE HandShape(w)'
  <2>1. HandShape(w) /\ pc[w] \in Busy /\ job[w] \in Dlv
    BY <1>0, <1>2, <1>6 DEF Hands, TypeOK
  <2>2. CASE dlv'[job[w]] = dlv[job[w]]
    BY <1>0, <1>2, <1>4, <2>1, <2>2, HandFrame
  <2>3. CASE dlv'[job[w]] = GoneRow
    BY <1>2, <2>1, <2>3 DEF HandShape, Stored, GoneRow
  <2> QED
    BY <1>3, <2>1, <2>2, <2>3
<1>7. \A d \in Dlv : Busies(d)' = Busies(d)
  BY <1>2 DEF Busies
<1>8. OneDeliverer'
  BY <1>0, <1>7 DEF OneDeliverer
<1>9. RequestsCounted'
  <2>1. \A d \in Dlv : Stored(d)' => dlv'[d] = dlv[d] /\ Stored(d)
    BY <1>3 DEF Stored, GoneRow
  <2> QED
    BY <1>0, <1>2, <1>7, <2>1 DEF RequestsCounted
<1> QED
  BY <1>1, <1>5, <1>6, <1>8, <1>9 DEF Queue

(* Time runs alike for a lease and for the worker that holds it.            *)
LEMMA TickKeeps ==
  ASSUME Queue, Tick
  PROVE  Queue'
<1>0. TypeOK /\ (\A e \in Dlv : RowShape(e)) /\ Hands /\ OneDeliverer /\ RequestsCounted
  BY QueueParts
<1>1. TypeOK'
  BY <1>0, TickType
<1>2. UNCHANGED <<pc, job, seen, accepted, posts, faults>>
  BY DEF Tick
<1>3. ASSUME NEW d \in Dlv
      PROVE  /\ dlv'[d].status = dlv[d].status /\ dlv'[d].hook = dlv[d].hook
             /\ dlv'[d].attempts = dlv[d].attempts
             /\ dlv[d].wait = None => dlv'[d].wait = None
             /\ dlv[d].wait \in Nat \ {0} => dlv'[d].wait = dlv[d].wait - 1
             /\ dlv[d].wait # None => dlv'[d].wait # None
  <2>1. dlv[d] \in Row /\ dlv[d].wait \in Nat \cup {None} /\ None \notin Nat
    BY <1>0, NoneAssumption DEF TypeOK, Row
  <2>2. dlv'[d] = IF dlv[d].wait \in {None, 0} THEN dlv[d]
                  ELSE [dlv[d] EXCEPT !.wait = dlv[d].wait - 1]
    BY DEF Tick
  <2>3. CASE dlv[d].wait \in {None, 0}
    BY <2>1, <2>2, <2>3
  <2>4. CASE dlv[d].wait \notin {None, 0}
    <3>1. dlv'[d] = [dlv[d] EXCEPT !.wait = dlv[d].wait - 1]
      BY <2>2, <2>4
    <3>2. dlv[d].wait \in Nat \ {0} /\ dlv[d].wait - 1 \in Nat
      BY <2>1, <2>4
    <3>3. /\ dlv'[d].status = dlv[d].status /\ dlv'[d].hook = dlv[d].hook
          /\ dlv'[d].attempts = dlv[d].attempts /\ dlv'[d].wait = dlv[d].wait - 1
      BY <2>1, <3>1 DEF Row
    <3> QED
      BY <2>1, <2>4, <3>2, <3>3
  <2> QED
    BY <2>3, <2>4
<1>4. \A d \in Dlv : RowShape(d)'
  BY <1>0, <1>2, <1>3 DEF RowShape, Stored, Dead
<1>5. ASSUME NEW w \in Workers, pc'[w] \in Busy PROVE HandShape(w)'
  <2>1. HandShape(w) /\ pc[w] \in Busy /\ job[w] \in Dlv /\ held[w] \in Nat /\ held[w] < Hold
    BY <1>0, <1>2, <1>5 DEF Hands, TypeOK, Tick
  <2>2. held'[w] = held[w] + 1
    BY <2>1 DEF Tick
  <2>3. dlv'[job[w]].wait = None \/ dlv'[job[w]].wait + held'[w] = Lease
    <3>1. CASE dlv[job[w]].wait = None
      BY <1>3, <2>1, <3>1
    <3>2. CASE dlv[job[w]].wait # None
      <4>1. dlv[job[w]].wait \in Nat /\ dlv[job[w]].wait + held[w] = Lease
        BY <1>0, <2>1, <3>2 DEF HandShape, TypeOK, Row
      <4>2. dlv[job[w]].wait \in Nat \ {0}
        BY <2>1, <4>1, LeaseAssumption
      <4> QED
        BY <1>3, <2>1, <2>2, <4>1, <4>2
    <3> QED
      BY <3>1, <3>2
  <2>4. held'[w] <= Hold
    BY <2>1, <2>2, LeaseAssumption
  <2> QED
    BY <1>2, <1>3, <2>1, <2>3, <2>4 DEF HandShape, Stored
<1>6. \A d \in Dlv : Busies(d)' = Busies(d)
  BY <1>2 DEF Busies
<1>7. OneDeliverer'
  BY <1>0, <1>6 DEF OneDeliverer
<1>8. RequestsCounted'
  BY <1>0, <1>2, <1>3, <1>6 DEF RequestsCounted, Stored
<1> QED
  BY <1>1, <1>4, <1>5, <1>7, <1>8 DEF Queue

-----------------------------------------------------------------------------
(* The invariant and what follows from it.                                  *)

LEMMA NextKeeps == Queue /\ [Next]_vars => Queue'
<1> SUFFICES ASSUME Queue, [Next]_vars PROVE Queue'
  OBVIOUS
<1>0. TypeOK
  BY QueueParts
<1>1. CASE UNCHANGED vars
  <2>1. TypeOK' /\ UNCHANGED <<dlv, worker, accepted, posts, faults>>
    BY <1>0, <1>1 DEF vars, worker, TypeOK
  <2> QED
    BY <2>1, SaveKeeps
<1>2. ASSUME NEW w \in Workers, FanOut(w) \/ FanInsert(w) \/ Sweep(w) PROVE Queue'
  BY <1>2, FillKeeps
<1>3. ASSUME NEW w \in Workers, SweepNext(w) PROVE Queue'
  BY <1>3, SweepNextKeeps
<1>4. ASSUME NEW w \in Workers, Read(w) \/ Post(w) \/ Store(w) PROVE Queue'
  BY <1>4, ReadKeeps, PostKeeps, StoreKeeps
<1>5. ASSUME NEW w \in Workers, Crash(w) \/ StatementFails(w) PROVE Queue'
  BY <1>5, FaultKeeps
<1>6. ASSUME NEW w \in Workers, NEW h \in Hooks, DeliverWebhook(w, h) PROVE Queue'
  BY <1>6, DeliverWebhookKeeps
<1>7. ASSUME NEW w \in Workers, NEW d \in Dlv, Retry(w, d) PROVE Queue'
  BY <1>7, RetryKeeps
<1>8. ASSUME NEW h \in Hooks, SaveWebhook(h) PROVE Queue'
  BY <1>0, <1>8, SaveType, SaveKeeps DEF SaveWebhook
<1>9. ASSUME NEW h \in Hooks, DeleteWebhook(h) PROVE Queue'
  BY <1>9, DeleteKeeps
<1>10. CASE Tick
  BY <1>10, TickKeeps
<1> QED
  BY <1>1, <1>2, <1>3, <1>4, <1>5, <1>6, <1>7, <1>8, <1>9, <1>10
     DEF Next, Step, Deliver

(* The queue's inductive invariant holds of every reachable state.          *)
THEOREM QueueInvariant == Spec => []Queue
<1>1. Init => Queue
  BY InitQueue
<1>2. Queue /\ [Next]_vars => Queue'
  BY NextKeeps
<1> QED
  BY <1>1, <1>2, PTL DEF Spec

(* Every variable keeps its type.                                           *)
THEOREM TypeCorrect == Spec => []TypeOK
<1>1. Queue => TypeOK
  BY QueueParts
<1> QED
  BY <1>1, QueueInvariant, PTL

(* No delivery is ever in the hands of two workers: claims exclude each     *)
(* other for as long as the lease outlasts the request it covers.           *)
THEOREM DeliveriesExclude == Spec => []OneDeliverer
<1>1. Queue => OneDeliverer
  BY QueueParts
<1> QED
  BY <1>1, QueueInvariant, PTL

(* Requests exceed the recorded attempts by the faults alone.               *)
THEOREM EveryRequestIsCounted == Spec => []RequestsCounted
<1>1. Queue => RequestsCounted
  BY QueueParts
<1> QED
  BY <1>1, QueueInvariant, PTL

(* A dead letter was requested as often as some budget of its subscription  *)
(* allowed.                                                                 *)
THEOREM DeadLettersAreSpent == Spec => []DeadOnlyWhenSpent
<1>1. Queue => DeadOnlyWhenSpent
  <2> SUFFICES ASSUME Queue, NEW d \in Dlv, Dead(d)
               PROVE  \E n \in Budgets : n <= posts[d]
    BY DEF DeadOnlyWhenSpent
  <2>1. RowShape(d) /\ dlv[d].attempts \in Nat /\ posts[d] \in Nat
    BY QueueParts DEF TypeOK, Row
  <2>2. PICK n \in Budgets : n <= dlv[d].attempts
    BY <2>1 DEF RowShape, Dead
  <2>3. n \in Nat /\ dlv[d].attempts <= posts[d]
    BY <2>1, BudgetsAssumption DEF RowShape
  <2> QED
    BY <2>1, <2>2, <2>3
<1> QED
  BY <1>1, QueueInvariant, PTL

-----------------------------------------------------------------------------
(* The queue implements the contract of a delivery.                         *)

state == [d \in Dlv |-> ContractState(d)]

(* A step that leaves every status, and whether the next attempt is NULL,   *)
(* and the endpoints alone is none of the contract's.                       *)
LEMMA ContractFrame ==
  ASSUME UNCHANGED accepted,
         \A d \in Dlv : ContractState(d)' = ContractState(d)
  PROVE  UNCHANGED <<state, accepted>>
BY DEF state

LEMMA InsertEnqueues ==
  ASSUME TypeOK, NEW d \in Dlv, NEW h \in Hooks, NEW next, Insert(d, h, next),
         UNCHANGED accepted
  PROVE  Contract!Next
<1>1. dlv'[d].status = "PENDING" /\ \A e \in Dlv \ {d} : dlv'[e] = dlv[e]
  BY DEF Insert, TypeOK
<1>2. ContractState(d) = "none" /\ ContractState(d)' = "owed"
  BY <1>1 DEF ContractState, Dead, Insert
<1>3. \A e \in Dlv \ {d} : ContractState(e)' = ContractState(e)
  BY <1>1 DEF ContractState, Dead
<1>4. Contract!Enqueue(d)
  BY <1>2, <1>3 DEF Contract!Enqueue
<1> QED
  BY <1>4 DEF Contract!Next

LEMMA ClaimStutters ==
  ASSUME TypeOK, NEW d \in Dlv, NEW b \in BOOLEAN, Claimable(d, b), Claim(d),
         UNCHANGED accepted
  PROVE  UNCHANGED <<state, accepted>>
<1>1. dlv'[d].status = "PENDING" /\ \A e \in Dlv \ {d} : dlv'[e] = dlv[e]
  <2>1. dlv \in [Dlv -> Row] /\ dlv[d] \in Row
    BY DEF TypeOK
  <2>2. dlv'[d] = [dlv[d] EXCEPT !.status = "PENDING", !.wait = Lease]
    BY <2>1 DEF Claim
  <2>3. dlv'[d].status = "PENDING"
    BY <2>1, <2>2 DEF Row
  <2> QED
    BY <2>1, <2>3 DEF Claim
<1>2. ContractState(d) = "owed" /\ ContractState(d)' = "owed"
  BY <1>1 DEF ContractState, Dead, Claimable
<1>3. \A e \in Dlv \ {d} : ContractState(e)' = ContractState(e)
  BY <1>1 DEF ContractState, Dead
<1> QED
  BY <1>2, <1>3, ContractFrame

LEMMA PostAccepts ==
  ASSUME Queue, NEW w \in Workers, Post(w)
  PROVE  Contract!Next \/ UNCHANGED <<state, accepted>>
<1>1. job[w] \in Dlv /\ HandShape(w)
  BY QueueParts DEF Post, Busy, TypeOK, Hands
<1>2. ContractState(job[w]) \in {"owed", "gone"}
  BY <1>1 DEF HandShape, ContractState, Dead
<1>3. \A d \in Dlv : ContractState(d)' = ContractState(d)
  BY DEF Post, ContractState, Dead
<1>4. CASE accepted' = accepted
  BY <1>3, <1>4, ContractFrame
<1>5. CASE accepted' = accepted \cup {job[w]}
  <2>1. Contract!Accept(job[w])
    BY <1>1, <1>2, <1>3, <1>5 DEF Contract!Accept
  <2> QED
    BY <1>1, <2>1 DEF Contract!Next
<1> QED
  BY <1>4, <1>5 DEF Post

LEMMA StoreSettles ==
  ASSUME Queue, NEW w \in Workers, Store(w)
  PROVE  Contract!Next \/ UNCHANGED <<state, accepted>>
<1>0. TypeOK /\ UNCHANGED accepted
  BY QueueParts DEF Store
<1>1. PICK d \in Dlv : d = job[w]
  BY <1>0 DEF Store, Busy, TypeOK
<1>2. HandShape(w)
  BY <1>0, QueueParts DEF Store, Busy, Hands
<1>3. CASE dlv' = dlv
  BY <1>0, <1>3, ContractFrame DEF ContractState, Dead
<1>4. CASE Stored(d) /\ dlv' # dlv
  <2>1. ContractState(d) = "owed"
    BY <1>1, <1>2, <1>4 DEF HandShape, Stored, ContractState, Dead
  <2> DEFINE done == seen[w].attempts + 1
             won  == [dlv[d] EXCEPT !.status = "SUCCEEDED", !.attempts = done, !.wait = None]
             lost == [dlv[d] EXCEPT !.status = "FAILED", !.attempts = done,
                                    !.wait = RetrySchedule(done, seen[w].max)]
  <2>2. PICK row : dlv' = [dlv EXCEPT ![d] = row] /\ row = IF seen[w].ok THEN won ELSE lost
    BY <1>1, <1>4 DEF Store
  <2>6. dlv'[d] = row /\ won.status = "SUCCEEDED" /\ lost.status = "FAILED"
    <3>1. dlv \in [Dlv -> Row] /\ dlv[d] \in Row
      BY <1>0 DEF TypeOK
    <3> QED
      BY <2>2, <3>1 DEF Row
  <2>3. \A e \in Dlv \ {d} : ContractState(e)' = ContractState(e)
    BY <1>0, <2>2 DEF ContractState, Dead, TypeOK
  <2>4. CASE seen[w].ok
    <3>1. dlv'[d].status = "SUCCEEDED"
      BY <2>2, <2>4, <2>6
    <3>2. ContractState(d)' = "done"
      BY <3>1 DEF ContractState, Dead
    <3>3. ContractState(d)' = "done" /\ d \in accepted
      BY <1>1, <1>2, <2>4, <3>2 DEF HandShape, Store
    <3>4. Contract!Finish(d)
      BY <1>0, <2>1, <2>3, <3>3 DEF Contract!Finish
    <3> QED
      BY <3>4 DEF Contract!Next
  <2>5. CASE ~seen[w].ok
    <3>1. dlv'[d].status = "FAILED"
      BY <2>2, <2>5, <2>6
    <3>2. CASE Dead(d)'
      <4>1. ContractState(d)' = "dead"
        BY <3>1, <3>2 DEF ContractState
      <4>2. Contract!GiveUp(d)
        BY <1>0, <2>1, <2>3, <4>1 DEF Contract!GiveUp
      <4> QED
        BY <4>2 DEF Contract!Next
    <3>3. CASE ~Dead(d)'
      <4>1. ContractState(d)' = "owed"
        BY <3>1, <3>3 DEF ContractState
      <4> QED
        BY <1>0, <2>1, <2>3, <4>1, ContractFrame
    <3> QED
      BY <3>2, <3>3
  <2> QED
    BY <2>4, <2>5
<1> QED
  BY <1>1, <1>3, <1>4 DEF Store

LEMMA DeleteDrops ==
  ASSUME Queue, NEW h \in Hooks, DeleteWebhook(h)
  PROVE  Contract!Next
<1>0. TypeOK /\ (\A d \in Dlv : RowShape(d)) /\ UNCHANGED accepted
  BY QueueParts DEF DeleteWebhook
<1> DEFINE D == {d \in Dlv : dlv[d].hook = h}
<1>1. \A d \in D : ContractState(d) # "none"
  BY <1>0, NoneAssumption DEF RowShape, Stored, ContractState
<1>2. \A d \in Dlv : ContractState(d)' = IF d \in D THEN "gone" ELSE ContractState(d)
  BY DEF DeleteWebhook, WithoutHook, GoneRow, ContractState, Dead
<1>3. Contract!Drop(D)
  BY <1>0, <1>1, <1>2 DEF Contract!Drop
<1> QED
  BY <1>3 DEF Contract!Next

LEMMA TickStutters ==
  ASSUME TypeOK, Tick
  PROVE  UNCHANGED <<state, accepted>>
<1>1. ASSUME NEW d \in Dlv
      PROVE  dlv'[d].status = dlv[d].status /\ (dlv'[d].wait = None <=> dlv[d].wait = None)
  <2>1. dlv[d] \in Row /\ dlv[d].wait \in Nat \cup {None} /\ None \notin Nat
    BY NoneAssumption DEF TypeOK, Row
  <2>2. dlv'[d] = IF dlv[d].wait \in {None, 0} THEN dlv[d]
                  ELSE [dlv[d] EXCEPT !.wait = dlv[d].wait - 1]
    BY DEF Tick
  <2>3. CASE dlv[d].wait \in {None, 0}
    BY <2>2, <2>3
  <2>4. CASE dlv[d].wait \notin {None, 0}
    <3>1. dlv'[d].status = dlv[d].status /\ dlv'[d].wait = dlv[d].wait - 1
      BY <2>1, <2>2, <2>4 DEF Row
    <3>2. dlv[d].wait - 1 \in Nat
      BY <2>1, <2>4
    <3> QED
      BY <2>1, <2>4, <3>1, <3>2
  <2> QED
    BY <2>3, <2>4
<1>2. \A d \in Dlv : ContractState(d)' = ContractState(d)
  BY <1>1 DEF ContractState, Dead
<1> QED
  BY <1>2, ContractFrame DEF Tick

LEMMA QuietStutters ==
  ASSUME UNCHANGED <<dlv, accepted>>
  PROVE  UNCHANGED <<state, accepted>>
BY DEF state, ContractState, Dead

LEMMA StepImplements ==
  ASSUME Queue, Next
  PROVE  Contract!Next \/ UNCHANGED <<state, accepted>>
<1>0. TypeOK
  BY QueueParts
<1>1. ASSUME NEW w \in Workers, FanOut(w) \/ Sweep(w) \/ Read(w) \/ Crash(w) \/ StatementFails(w)
      PROVE  UNCHANGED <<state, accepted>>
  BY <1>1, QuietStutters DEF FanOut, Sweep, Read, Crash, StatementFails
<1>2. ASSUME NEW w \in Workers, FanInsert(w)
      PROVE  Contract!Next \/ UNCHANGED <<state, accepted>>
  <2>1. batch[w] \subseteq Hooks
    BY <1>0, <1>2 DEF FanInsert, TypeOK
  <2>2. UNCHANGED dlv \/ \E d \in Dlv, h \in Hooks : Insert(d, h, 0)
    BY <1>2, <2>1 DEF FanInsert
  <2> QED
    BY <1>0, <1>2, <2>2, QuietStutters, InsertEnqueues DEF FanInsert
<1>3. ASSUME NEW w \in Workers, SweepNext(w)
      PROVE  UNCHANGED <<state, accepted>>
  <2>1. batch[w] \subseteq Dlv
    BY <1>0, <1>3 DEF SweepNext, TypeOK
  <2>2. \/ \E d \in Dlv : Claimable(d, TRUE) /\ Claim(d)
        \/ UNCHANGED dlv
    BY <1>3, <2>1 DEF SweepNext
  <2> QED
    BY <1>0, <1>3, <2>2, ClaimStutters, QuietStutters DEF SweepNext
<1>4. ASSUME NEW w \in Workers, NEW h \in Hooks, DeliverWebhook(w, h)
      PROVE  Contract!Next
  BY <1>0, <1>4, InsertEnqueues DEF DeliverWebhook
<1>5. ASSUME NEW w \in Workers, NEW d \in Dlv, Retry(w, d)
      PROVE  UNCHANGED <<state, accepted>>
  BY <1>0, <1>5, ClaimStutters DEF Retry
<1>6. ASSUME NEW w \in Workers, Post(w) \/ Store(w)
      PROVE  Contract!Next \/ UNCHANGED <<state, accepted>>
  BY <1>6, PostAccepts, StoreSettles
<1>7. ASSUME NEW h \in Hooks, SaveWebhook(h)
      PROVE  UNCHANGED <<state, accepted>>
  BY <1>7, QuietStutters DEF SaveWebhook
<1>8. ASSUME NEW h \in Hooks, DeleteWebhook(h)
      PROVE  Contract!Next
  BY <1>8, DeleteDrops
<1>9. CASE Tick
  BY <1>0, <1>9, TickStutters
<1> QED
  BY <1>1, <1>2, <1>3, <1>4, <1>5, <1>6, <1>7, <1>8, <1>9 DEF Next, Step, Deliver

(* Whatever overlaps or dies, a delivery is offered only while it is owed,  *)
(* is done only when it was accepted, and stays done or dead.               *)
THEOREM QueueImplementsContract == Spec => ImplementsContract
<1>1. Init => Contract!Init
  <2> SUFFICES ASSUME Init PROVE Contract!Init
    OBVIOUS
  <2>1. \A d \in Dlv : dlv[d].status = "absent"
    BY DEF Init
  <2>2. \A d \in Dlv : ContractState(d) = "none"
    BY <2>1 DEF ContractState, Dead
  <2> QED
    BY <2>2 DEF Init, Contract!Init
<1>2. Queue /\ [Next]_vars => [Contract!Next]_<<state, accepted>>
  <2> SUFFICES ASSUME Queue, [Next]_vars, ~ UNCHANGED <<state, accepted>>
               PROVE  Contract!Next
    BY DEF state
  <2>1. CASE UNCHANGED vars
    BY <2>1, QuietStutters DEF vars
  <2> QED
    BY <2>1, StepImplements
<1>3. Queue /\ [Next]_vars => [Contract!Next]_<<[d \in Dlv |-> ContractState(d)], accepted>>
  BY <1>2 DEF state
<1> QED
  BY <1>1, <1>3, QueueInvariant, PTL DEF Spec, ImplementsContract, Contract!Spec
=============================================================================
