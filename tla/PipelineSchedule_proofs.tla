----------------------- MODULE PipelineSchedule_proofs -----------------------
(***************************************************************************)
(* Proofs about PipelineSchedule: one run for a cron fire, whatever ticks   *)
(* overlap and whatever their clocks say, and how far a watermark may be    *)
(* behind a fire its job was started for.                                   *)
(***************************************************************************)
EXTENDS PipelineSchedule, TLAPS

-----------------------------------------------------------------------------
(* The key of a fire is the fire: fires are whole minutes.                  *)
LEMMA KeyOfFire ==
  ASSUME NEW c, NEW f \in Fires
  PROVE  Key(c, f) = f /\ f \in Nat
<1>1. f \in Nat /\ f % Minute = 0  BY FiresAssumption
<1>2. Minute \in Nat /\ Minute > 0  BY TimeAssumption
<1>3. f = Minute * (f \div Minute) + (f % Minute)  BY <1>1, <1>2
<1>4. (f \div Minute) \in Nat  BY <1>1, <1>2
<1>5. (f \div Minute) * Minute = Minute * (f \div Minute)  BY <1>2, <1>4
<1>q. QED  BY <1>1, <1>2, <1>3, <1>4, <1>5 DEF Key

LEMMA FireIsNotNone == None \notin Fires
  BY NoneAssumption, FiresAssumption

(* What one call becomes, the others keep.                                  *)
LEMMA OnlyOne ==
  ASSUME NEW C, NEW f \in [Callers -> C], NEW c \in Callers, NEW k \in C, NEW g,
         g = [f EXCEPT ![c] = k]
  PROVE  /\ g \in [Callers -> C]
         /\ g[c] = k
         /\ \A b \in Callers : b # c => g[b] = f[b]
  OBVIOUS

-----------------------------------------------------------------------------
(* The call of c after each of its steps.                                   *)
Ticking(n)    == [Idle EXCEPT !.pc = "read", !.now = n, !.todo = Jobs]
Triggering(J) == [Idle EXCEPT !.pc = "spawn", !.due = J \X {None}]
Reading(c, j, l) == [call[c] EXCEPT
                       !.pc   = IF call[c].todo = {j} THEN "spawn" ELSE "read",
                       !.todo = call[c].todo \ {j},
                       !.due  = call[c].due \cup ({j} \X Earliest(Elapsed(l, call[c].now)))]
Stamping(c)   == [call[c] EXCEPT !.pc = "insert", !.at = now]
Inserting(c, j, f) == [call[c] EXCEPT !.pc = "spawn", !.due = call[c].due \ {<<j, f>>}]

LEMMA TickingCall ==
  ASSUME NEW n \in Nat
  PROVE  /\ Ticking(n) \in Call
         /\ Ticking(n).pc = "read" /\ Ticking(n).now = n /\ Ticking(n).due = {}
  BY DEF Ticking, Idle, Call

LEMMA TriggeringCall ==
  ASSUME NEW J \in SUBSET Jobs
  PROVE  /\ Triggering(J) \in Call
         /\ Triggering(J).pc = "spawn" /\ Triggering(J).now = 0
         /\ Triggering(J).due = J \X {None}
  BY DEF Triggering, Idle, Call

LEMMA ReadingCall ==
  ASSUME NEW c \in Callers, NEW j \in Jobs, NEW l, call[c] \in Call
  PROVE  /\ Reading(c, j, l) \in Call
         /\ Reading(c, j, l).pc \in {"spawn", "read"} /\ Reading(c, j, l).now = call[c].now
         /\ Reading(c, j, l).due = call[c].due \cup ({j} \X Earliest(Elapsed(l, call[c].now)))
<1>1. Earliest(Elapsed(l, call[c].now)) \subseteq Fires  BY DEF Earliest, Elapsed
<1> DEFINE D == call[c].due \cup ({j} \X Earliest(Elapsed(l, call[c].now)))
<1>2. D \in SUBSET (Jobs \X (Fires \cup {None}))  BY <1>1 DEF Call
<1> HIDE DEF D
<1>3. Reading(c, j, l) = [call[c] EXCEPT
                    !.pc = IF call[c].todo = {j} THEN "spawn" ELSE "read",
                    !.todo = call[c].todo \ {j}, !.due = D]
  BY DEF Reading, D
<1> DEFINE p == IF call[c].todo = {j} THEN "spawn" ELSE "read"
           T == call[c].todo \ {j}
<1>4. p \in {"spawn", "read"} /\ T \in SUBSET Jobs  BY DEF Call
<1>5. Reading(c, j, l) = [call[c] EXCEPT !.pc = p, !.todo = T, !.due = D]  BY <1>3
<1> HIDE DEF p, T
<1>6. /\ Reading(c, j, l) \in Call
      /\ Reading(c, j, l).pc = p /\ Reading(c, j, l).now = call[c].now /\ Reading(c, j, l).due = D
  BY <1>2, <1>4, <1>5 DEF Call
<1>q. QED  BY <1>4, <1>6 DEF D

LEMMA StampingCall ==
  ASSUME NEW c \in Callers, call[c] \in Call, now \in Nat
  PROVE  /\ Stamping(c) \in Call
         /\ Stamping(c).pc = "insert" /\ Stamping(c).now = call[c].now
         /\ Stamping(c).due = call[c].due /\ Stamping(c).at = now
  BY DEF Stamping, Call

LEMMA InsertingCall ==
  ASSUME NEW c \in Callers, NEW j, NEW f, call[c] \in Call
  PROVE  /\ Inserting(c, j, f) \in Call
         /\ Inserting(c, j, f).pc = "spawn" /\ Inserting(c, j, f).now = call[c].now
         /\ Inserting(c, j, f).due \subseteq call[c].due
  BY DEF Inserting, Call

LEMMA IdleCall == Idle \in Call /\ Idle.pc = "idle" /\ Idle.now = 0 /\ Idle.due = {}
  BY DEF Idle, Call

-----------------------------------------------------------------------------
(* The inductive invariant.  A fire that was started is in the index, so    *)
(* that a second insertion is ignored; a call never inserts a fire more     *)
(* than Skew past the instant it stamps the run with.                       *)
Counted == \A e \in Jobs \X Fires : starts[e] = 0 \/ (starts[e] = 1 /\ e \in reserved)

Timely(c) ==
    /\ call[c].now <= now + Skew
    /\ call[c].pc = "insert" => call[c].now <= call[c].at + Skew
    /\ \A e \in call[c].due : e[2] = None \/ e[2] <= call[c].now

WatermarkWithinSkew ==
    \A e \in reserved : last[e[1]] # None /\ e[2] <= last[e[1]] + Skew

Inv == TypeOK /\ Counted /\ (\A c \in Callers : Timely(c)) /\ WatermarkWithinSkew

(* A step that moves one call and nothing else the invariant reads.         *)
LEMMA CallMoves ==
  ASSUME Inv, NEW c \in Callers, NEW k \in Call,
         call' = [call EXCEPT ![c] = k],
         UNCHANGED <<now, last, reserved, starts>>, faults' \in Nat,
         k.now <= now + Skew,
         k.pc = "insert" => k.now <= k.at + Skew,
         \A e \in k.due : e[2] = None \/ e[2] <= k.now
  PROVE  Inv'
<1>1. /\ call' \in [Callers -> Call] /\ call'[c] = k
      /\ \A b \in Callers : b # c => call'[b] = call[b]
  BY OnlyOne DEF Inv, TypeOK
<1>2. TypeOK'  BY <1>1 DEF Inv, TypeOK
<1>3. Counted' /\ WatermarkWithinSkew'  BY DEF Inv, Counted, WatermarkWithinSkew
<1>4. ASSUME NEW b \in Callers PROVE Timely(b)'
  <2>1. CASE b = c  BY <1>1, <2>1 DEF Timely
  <2>2. CASE b # c  BY <1>1, <2>2 DEF Timely, Inv
  <2>q. QED  BY <2>1, <2>2
<1>q. QED  BY <1>2, <1>3, <1>4 DEF Inv

LEMMA InitInv == Init => Inv
<1> SUFFICES ASSUME Init PROVE Inv  OBVIOUS
<1>1. TypeOK  BY IdleCall DEF Init, TypeOK
<1>2. Counted /\ WatermarkWithinSkew  BY DEF Init, Counted, WatermarkWithinSkew
<1>3. ASSUME NEW c \in Callers PROVE Timely(c)
  <2>1. call[c] = Idle /\ now = 0  BY DEF Init
  <2>q. QED  BY <2>1, IdleCall, TimeAssumption DEF Timely
<1>q. QED  BY <1>1, <1>2, <1>3 DEF Inv

LEMMA TickInv == Inv /\ Tick => Inv'
<1> SUFFICES ASSUME Inv, Tick PROVE Inv'  OBVIOUS
<1>1. now \in Nat /\ now' = now + 1 /\ UNCHANGED <<last, reserved, call, starts, faults>>
  BY DEF Inv, TypeOK, Tick
<1>2. TypeOK'  BY <1>1 DEF Inv, TypeOK
<1>3. Counted' /\ WatermarkWithinSkew'  BY <1>1 DEF Inv, Counted, WatermarkWithinSkew
<1>4. ASSUME NEW c \in Callers PROVE Timely(c)'
  <2>1. call[c].now \in Nat  BY DEF Inv, TypeOK, Call
  <2>2. Timely(c)  BY DEF Inv
  <2>q. QED  BY <1>1, <2>1, <2>2, TimeAssumption DEF Timely
<1>q. QED  BY <1>2, <1>3, <1>4 DEF Inv

LEMMA DueScheduledRunsInv ==
  ASSUME Inv, NEW c \in Callers, NEW n \in Nat, DueScheduledRuns(c, n)
  PROVE  Inv'
<1>1. call' = [call EXCEPT ![c] = Ticking(n)]  BY DEF DueScheduledRuns, Ticking
<1>2. n <= now + Skew
  BY TimeAssumption DEF DueScheduledRuns, Inv, TypeOK
<1>3. faults' \in Nat /\ UNCHANGED <<now, last, reserved, starts>>
  BY DEF DueScheduledRuns, Inv, TypeOK
<1>4. /\ Ticking(n) \in Call /\ Ticking(n).now <= now + Skew
      /\ Ticking(n).pc # "insert" /\ Ticking(n).due = {}
  BY <1>2, TickingCall
<1>5. \A e \in Ticking(n).due : e[2] = None \/ e[2] <= Ticking(n).now  BY <1>4
<1>q. QED  BY <1>1, <1>3, <1>4, <1>5, CallMoves

LEMMA ReadLastInv ==
  ASSUME Inv, NEW c \in Callers, NEW j \in Jobs, ReadLast(c, j)
  PROVE  Inv'
<1>1. PICK l \in {last[j], None} :
        /\ call' = [call EXCEPT ![c] = Reading(c, j, l)]
        /\ faults' = faults \/ faults' = faults + 1
        /\ UNCHANGED <<now, last, reserved, starts>>
  BY DEF ReadLast, Reading
<1>2. call[c] \in Call /\ Timely(c)  BY DEF Inv, TypeOK
<1>3. \A e \in Reading(c, j, l).due : e[2] = None \/ e[2] <= call[c].now
  <2>1. \A f \in Earliest(Elapsed(l, call[c].now)) : f <= call[c].now
    BY DEF Earliest, Elapsed
  <2>2. ASSUME NEW e \in Reading(c, j, l).due PROVE e[2] = None \/ e[2] <= call[c].now
    <3>1. e \in call[c].due \/ e \in {j} \X Earliest(Elapsed(l, call[c].now))
      BY <1>2, ReadingCall
    <3>2. CASE e \in call[c].due  BY <1>2, <3>2 DEF Timely
    <3>3. CASE e \in {j} \X Earliest(Elapsed(l, call[c].now))
      <4>1. e[2] \in Earliest(Elapsed(l, call[c].now))  BY <3>3
      <4>q. QED  BY <2>1, <4>1
    <3>q. QED  BY <3>1, <3>2, <3>3
  <2>q. QED  BY <2>2
<1>4. faults' \in Nat /\ UNCHANGED <<now, last, reserved, starts>>
  BY <1>1 DEF Inv, TypeOK
<1>5. /\ Reading(c, j, l) \in Call /\ Reading(c, j, l).pc # "insert"
      /\ Reading(c, j, l).now = call[c].now /\ call[c].now <= now + Skew
  BY <1>2, ReadingCall DEF Timely
<1>6. call' = [call EXCEPT ![c] = Reading(c, j, l)]  BY <1>1
<1> HIDE DEF Reading
<1>q. QED  BY <1>3, <1>4, <1>5, <1>6, CallMoves

LEMMA TriggerInv ==
  ASSUME Inv, NEW c \in Callers, NEW J \in SUBSET Jobs, Trigger(c, J)
  PROVE  Inv'
<1>1. call' = [call EXCEPT ![c] = Triggering(J)]  BY DEF Trigger, Triggering
<1>2. \A e \in Triggering(J).due : e[2] = None  BY TriggeringCall
<1>3. faults' \in Nat /\ UNCHANGED <<now, last, reserved, starts>>
  BY DEF Trigger, Inv, TypeOK
<1>4. 0 <= now + Skew  BY TimeAssumption DEF Inv, TypeOK
<1>q. QED  BY <1>1, <1>2, <1>3, <1>4, TriggeringCall, CallMoves

LEMMA StampInv ==
  ASSUME Inv, NEW c \in Callers, Stamp(c)
  PROVE  Inv'
<1>1. call' = [call EXCEPT ![c] = Stamping(c)]  BY DEF Stamp, Stamping
<1>2. call[c] \in Call /\ Timely(c) /\ now \in Nat  BY DEF Inv, TypeOK
<1>3. faults' \in Nat /\ UNCHANGED <<now, last, reserved, starts>>
  BY DEF Stamp, Inv, TypeOK
<1>q. QED  BY <1>1, <1>2, <1>3, StampingCall, CallMoves DEF Timely

LEMMA EndInv ==
  ASSUME Inv, NEW c \in Callers, Return(c) \/ Stops(c)
  PROVE  Inv'
<1>1. call' = [call EXCEPT ![c] = Idle]  BY DEF Return, Stops
<1>2. faults' \in Nat /\ UNCHANGED <<now, last, reserved, starts>>
  BY DEF Return, Stops, Inv, TypeOK
<1>3. 0 <= now + Skew  BY TimeAssumption DEF Inv, TypeOK
<1>q. QED  BY <1>1, <1>2, <1>3, IdleCall, CallMoves

(* The watermark of a job that a run is inserted for reaches its stamp, and *)
(* no watermark ever moves back.                                            *)
LEMMA WatermarkRises ==
  ASSUME last \in [Jobs -> Nat \cup {None}], NEW j \in Jobs, NEW at \in Nat,
         last' = IF last[j] = None \/ last[j] < at THEN [last EXCEPT ![j] = at] ELSE last
  PROVE  /\ last' \in [Jobs -> Nat \cup {None}]
         /\ last'[j] # None /\ at <= last'[j]
         /\ \A i \in Jobs : last[i] # None => last'[i] # None /\ last[i] <= last'[i]
<1>1. at # None  BY NoneAssumption
<1>2. CASE last[j] = None
  <2>1. last' = [last EXCEPT ![j] = at]  BY <1>2
  <2>q. QED  BY <1>1, <1>2, <2>1
<1>3. CASE last[j] # None
  <2>1. last[j] \in Nat  BY <1>3
  <2>2. CASE last[j] < at
    <3>1. last' = [last EXCEPT ![j] = at]  BY <2>2
    <3>q. QED  BY <1>1, <2>1, <2>2, <3>1
  <2>3. CASE ~(last[j] < at)
    <3>1. last' = last  BY <1>3, <2>3
    <3>q. QED  BY <1>3, <2>1, <2>3, <3>1
  <2>q. QED  BY <2>2, <2>3
<1>q. QED  BY <1>2, <1>3

LEMMA InsertInv ==
  ASSUME Inv, NEW c \in Callers, NEW j \in Jobs, NEW f \in Fires \cup {None}, Insert(c, j, f)
  PROVE  Inv'
<1>1. call[c] \in Call /\ Timely(c) /\ call[c].pc = "insert" /\ <<j, f>> \in call[c].due
  BY DEF Inv, TypeOK, Insert
<1>2. call' = [call EXCEPT ![c] = Inserting(c, j, f)]  BY DEF Insert, Inserting
<1>3. now' = now /\ faults' = faults  BY DEF Insert
<1>4. /\ call' \in [Callers -> Call] /\ call'[c] = Inserting(c, j, f)
      /\ \A b \in Callers : b # c => call'[b] = call[b]
  BY <1>1, <1>2, InsertingCall, OnlyOne DEF Inv, TypeOK
<1>5. ASSUME NEW b \in Callers PROVE Timely(b)'
  <2>1. CASE b = c  BY <1>1, <1>3, <1>4, <2>1, InsertingCall DEF Timely
  <2>2. CASE b # c  BY <1>3, <1>4, <2>2 DEF Timely, Inv
  <2>q. QED  BY <2>1, <2>2
<1>6. CASE UNCHANGED <<last, reserved, starts>>
  <2>1. TypeOK'  BY <1>3, <1>4, <1>6 DEF Inv, TypeOK
  <2>2. Counted' /\ WatermarkWithinSkew'  BY <1>6 DEF Inv, Counted, WatermarkWithinSkew
  <2>q. QED  BY <1>5, <2>1, <2>2 DEF Inv
<1>7. CASE ~(f # None /\ Taken(j, Key(c, f)))
  <2>1. call[c].at \in Nat /\ call[c].now \in Nat  BY <1>1 DEF Call
  <2>2. last' = IF last[j] = None \/ last[j] < call[c].at
                THEN [last EXCEPT ![j] = call[c].at] ELSE last
    BY <1>7 DEF Insert
  <2>3. /\ last' \in [Jobs -> Nat \cup {None}]
        /\ last'[j] # None /\ call[c].at <= last'[j]
        /\ \A i \in Jobs : last[i] # None => last'[i] # None /\ last[i] <= last'[i]
    BY <2>1, <2>2, WatermarkRises DEF Inv, TypeOK
  <2>4. ASSUME NEW e \in reserved
        PROVE  last'[e[1]] # None /\ e[2] <= last'[e[1]] + Skew
    <3>1. e[1] \in Jobs /\ e[2] \in Nat  BY DEF Inv, TypeOK
    <3>2. last[e[1]] # None /\ e[2] <= last[e[1]] + Skew  BY DEF Inv, WatermarkWithinSkew
    <3>3. last[e[1]] \in Nat /\ last'[e[1]] \in Nat  BY <2>3, <3>1, <3>2 DEF Inv, TypeOK
    <3>q. QED  BY <2>3, <3>1, <3>2, <3>3, TimeAssumption
  <2>5. CASE f = None
    <3>1. reserved' = reserved /\ starts' = starts  BY <1>7, <2>5 DEF Insert
    <3>2. TypeOK'  BY <1>3, <1>4, <2>3, <3>1 DEF Inv, TypeOK
    <3>3. Counted' /\ WatermarkWithinSkew'
      BY <2>4, <3>1 DEF Inv, Counted, WatermarkWithinSkew
    <3>q. QED  BY <1>5, <3>2, <3>3 DEF Inv
  <2>6. CASE f # None
    <3>1. f \in Fires /\ f \in Nat /\ Key(c, f) = f  BY <2>6, KeyOfFire
    <3>2. <<j, f>> \notin reserved  BY <1>7, <2>6, <3>1 DEF Taken
    <3>3. /\ reserved' = reserved \cup {<<j, f>>}
          /\ starts' = [starts EXCEPT ![<<j, f>>] = starts[<<j, f>>] + 1]
      BY <1>7, <2>6, <3>1 DEF Insert
    <3>4. <<j, f>> \in Jobs \X Fires /\ starts \in [Jobs \X Fires -> Nat]
      BY <3>1 DEF Inv, TypeOK
    <3>5. starts[<<j, f>>] = 0  BY <3>2, <3>4 DEF Inv, Counted
    <3>6. starts' \in [Jobs \X Fires -> Nat] /\ starts'[<<j, f>>] = 1
      BY <3>3, <3>4, <3>5
    <3>7. TypeOK'  BY <1>3, <1>4, <2>3, <3>1, <3>3, <3>6 DEF Inv, TypeOK
    <3>8. ASSUME NEW e \in Jobs \X Fires
          PROVE  starts'[e] = 0 \/ (starts'[e] = 1 /\ e \in reserved')
      <4>1. CASE e = <<j, f>>  BY <3>3, <3>6, <4>1
      <4>2. CASE e # <<j, f>>
        <5>1. starts'[e] = starts[e]  BY <3>3, <3>4, <4>2
        <5>q. QED  BY <3>3, <5>1 DEF Inv, Counted
      <4>q. QED  BY <4>1, <4>2
    <3>9. last'[j] # None /\ f <= last'[j] + Skew
      <4>1. f <= call[c].now /\ call[c].now <= call[c].at + Skew  BY <1>1, <2>6 DEF Timely
      <4>2. last'[j] \in Nat  BY <2>3
      <4>q. QED  BY <2>1, <2>3, <3>1, <4>1, <4>2, TimeAssumption
    <3>10. WatermarkWithinSkew'
      BY <2>4, <3>3, <3>9 DEF WatermarkWithinSkew
    <3>q. QED  BY <1>5, <3>7, <3>8, <3>10 DEF Inv, Counted
  <2>q. QED  BY <2>5, <2>6
<1>q. QED  BY <1>6, <1>7 DEF Insert

LEMMA NextInv == Inv /\ [Next]_vars => Inv'
<1> SUFFICES ASSUME Inv, [Next]_vars PROVE Inv'  OBVIOUS
<1>1. CASE UNCHANGED vars
  <2>1. UNCHANGED <<now, last, reserved, call, starts, faults>>  BY <1>1 DEF vars
  <2>2. TypeOK'  BY <2>1 DEF Inv, TypeOK
  <2>3. Counted' /\ WatermarkWithinSkew'  BY <2>1 DEF Inv, Counted, WatermarkWithinSkew
  <2>4. \A c \in Callers : Timely(c)'  BY <2>1 DEF Inv, Timely
  <2>q. QED  BY <2>2, <2>3, <2>4 DEF Inv
<1>2. CASE Tick  BY <1>2, TickInv
<1>3. ASSUME NEW c \in Callers, NEW n \in 0 .. Horizon + Skew, DueScheduledRuns(c, n) PROVE Inv'
  <2>1. n \in Nat  BY TimeAssumption
  <2>q. QED  BY <1>3, <2>1, DueScheduledRunsInv
<1>4. ASSUME NEW c \in Callers, NEW J \in SUBSET Jobs \ {{}}, Trigger(c, J) PROVE Inv'
  BY <1>4, TriggerInv
<1>5. ASSUME NEW c \in Callers, Step(c) PROVE Inv'
  BY <1>5, ReadLastInv, StampInv, InsertInv, EndInv DEF Step
<1>6. ASSUME NEW c \in Callers, Stops(c) PROVE Inv'
  BY <1>6, EndInv
<1>q. QED  BY <1>1, <1>2, <1>3, <1>4, <1>5, <1>6 DEF Next

-----------------------------------------------------------------------------
(* The invariant of the schedule holds in every reachable state, for any    *)
(* jobs, fires and callers, and any bound on the clocks' difference.        *)
THEOREM ScheduleInvariant == Spec => []Inv
<1>q. QED  BY InitInv, NextInv, PTL DEF Spec

(* Every variable keeps its type.                                           *)
THEOREM TypeCorrect == Spec => []TypeOK
<1>1. Inv => TypeOK  BY DEF Inv
<1>q. QED  BY <1>1, ScheduleInvariant, PTL

(* due_scheduled_runs starts a job once for a cron fire, however many ticks *)
(* overlap, whatever minutes they name and wherever they are cut short.     *)
THEOREM StartedOncePerFire == Spec => []OncePerFire
<1>1. Inv => OncePerFire  BY DEF Inv, TypeOK, Counted, OncePerFire
<1>q. QED  BY <1>1, ScheduleInvariant, PTL

(* The watermark of a job is behind a fire the job was started for by no    *)
(* more than the difference of the clocks.                                  *)
THEOREM WatermarkIsClose == Spec => []WatermarkWithinSkew
<1>1. Inv => WatermarkWithinSkew  BY DEF Inv
<1>q. QED  BY <1>1, ScheduleInvariant, PTL

(* With one clock it is never behind: next_after looks beyond every fire    *)
(* that has a run.                                                          *)
THEOREM OneClockCovers ==
  ASSUME Skew = 0
  PROVE  Spec => []WatermarkCovers
<1>1. Inv => WatermarkCovers
  <2> SUFFICES ASSUME Inv, NEW e \in reserved
               PROVE  last[e[1]] # None /\ e[2] <= last[e[1]]
    BY DEF WatermarkCovers
  <2>1. e[1] \in Jobs /\ e[2] \in Nat  BY DEF Inv, TypeOK
  <2>2. last[e[1]] # None /\ e[2] <= last[e[1]] + Skew  BY DEF Inv, WatermarkWithinSkew
  <2>3. last[e[1]] \in Nat  BY <2>1, <2>2 DEF Inv, TypeOK
  <2>q. QED  BY <2>1, <2>2, <2>3
<1>q. QED  BY <1>1, ScheduleInvariant, PTL
=============================================================================
