-------------------------- MODULE Deployments_proofs --------------------------
(***************************************************************************)
(* Proofs about Deployments: what holds of the rows however many requests  *)
(* interleave, and what more holds when requests run one after another.    *)
(***************************************************************************)
EXTENDS Deployments, TLAPS

(* The history variable overlapped only watches the program's steps.        *)
LEMMA ProgramSteps == Spec => Init /\ [][Next]_vars
<1>1. [Next /\ Watch]_allvars => [Next]_vars
  BY DEF allvars
<1>q. QED  BY <1>1, PTL DEF Spec

-----------------------------------------------------------------------------
(* The inductive invariant.                                                 *)

RowShape ==
    \A d \in Deps :
      /\ dep[d].status # "absent" => dep[d].target \in Targets
      /\ dep[d].status = "CURRENT" => promoter[d] \in Callers

(* What a call still knows of the row it works on, however stale its check. *)
Knows(c) ==
    /\ call[c].pc \notin {"idle", "drop"} => call[c].dep \in Deps
    /\ call[c].pc = "drop" => call[c].target \in Targets
    /\ call[c].pc \in {"peek", "check", "write", "supersede", "promote"} =>
         /\ call[c].target \in Targets
         /\ call[c].to \in Status
         /\ dep[call[c].dep].status # "absent"
    /\ call[c].pc = "write" =>
         /\ call[c].to # "CURRENT"
         /\ call[c].to \in {"HANGING", "OBSOLETE"} => dep[call[c].dep].started
    /\ call[c].pc \in {"supersede", "promote"} =>
         /\ dep[call[c].dep].started
         /\ dep[call[c].dep].target = call[c].target
    /\ call[c].pc = "peek" \/ call[c].pc = "check" => dep[call[c].dep].target = call[c].target
    /\ call[c].pc \in {"reread superseded", "tell superseded"} => call[c].sup \in Deps

CallShape == \A c \in Callers : Knows(c)

(* After its first UPDATE a promotion is the promoter of no CURRENT row.    *)
Cleared ==
    \A c \in Callers : call[c].pc = "promote" =>
      \A d \in Currents(call[c].target) : promoter[d] # c

Inv == StateOK /\ RowShape /\ NeverSkips /\ CallShape /\ Cleared /\ DistinctPromoters

-----------------------------------------------------------------------------
(* The rows as one step may change them, seen by a call that does not move. *)
RowsKeep ==
    \A d \in Deps : dep[d].status # "absent" =>
      /\ dep'[d].status # "absent" /\ dep'[d].target = dep[d].target
      /\ dep[d].started => dep'[d].started

LEMMA KnowsKept ==
  ASSUME NEW c \in Callers, Knows(c), RowsKeep, call'[c] = call[c]
  PROVE  Knows(c)'
<1> DEFINE d == call[c].dep
<1>1. ASSUME call[c].pc \notin {"idle", "drop"}
      PROVE  /\ d \in Deps
             /\ dep[d].status # "absent" =>
                  /\ dep'[d].status # "absent" /\ dep'[d].target = dep[d].target
                  /\ dep[d].started => dep'[d].started
  <2>1. d \in Deps  BY <1>1 DEF Knows
  <2>q. QED  BY <2>1 DEF RowsKeep
<1>2. d' = d /\ call'[c].pc = call[c].pc /\ call'[c].target = call[c].target
      /\ call'[c].to = call[c].to /\ call'[c].sup = call[c].sup
  OBVIOUS
<1> HIDE DEF d
<1>q. QED  BY <1>1, <1>2 DEF Knows, d

LEMMA TypeSplit ==
  StateOK <=> /\ target \in [Targets -> Life \cup {"stored"}]
             /\ dep \in [Deps -> Row]
             /\ call \in [Callers -> Call]
             /\ told \in [Deps -> Told]
             /\ promoter \in [Deps -> Callers \cup {None}]
             /\ faults \in Nat
BY DEF StateOK

(* A step moves one call; what every other call knows stays true. *)
LEMMA OthersKeep ==
  ASSUME Inv, NEW c \in Callers, NEW k \in Call,
         call' = [call EXCEPT ![c] = k],
         RowsKeep, Knows(c)'
  PROVE  /\ CallShape'
         /\ call' \in [Callers -> Call]
         /\ call'[c] = k
         /\ \A b \in Callers \ {c} : call'[b] = call[b]
<1>1. call' \in [Callers -> Call] /\ call'[c] = k
      /\ \A b \in Callers \ {c} : call'[b] = call[b]
  BY DEF Inv, StateOK
<1>2. ASSUME NEW b \in Callers PROVE Knows(b)'
  <2>1. CASE b = c  BY <2>1
  <2>2. CASE b # c
    <3>1. call'[b] = call[b]  BY <1>1, <2>2
    <3>2. Knows(b)  BY DEF Inv, CallShape
    <3>q. QED  BY <3>1, <3>2, KnowsKept
  <2>q. QED  BY <2>1, <2>2
<1>q. QED  BY <1>1, <1>2 DEF CallShape

(* No row becomes CURRENT: promotions stay cleared, promoters distinct. *)
LEMMA NoNewCurrent ==
  ASSUME Inv, NEW c \in Callers, NEW k \in Call,
         call' = [call EXCEPT ![c] = k],
         k.pc = "promote" => Currents(k.target)' = {},
         UNCHANGED promoter,
         \A t \in Targets : Currents(t)' \subseteq Currents(t)
  PROVE  Cleared' /\ DistinctPromoters'
<1>1. call'[c] = k /\ \A b \in Callers \ {c} : call'[b] = call[b]
  BY DEF Inv, StateOK
<1>2. ASSUME NEW b \in Callers, call'[b].pc = "promote",
             NEW d \in Deps, dep'[d].target = call'[b].target, dep'[d].status = "CURRENT"
      PROVE  promoter'[d] # b
  <2>1. CASE b = c
    <3>1. Currents(k.target)' = {}  BY <1>1, <1>2, <2>1
    <3>2. call'[b] = k  BY <1>1, <2>1
    <3>3. d \in Currents(k.target)'  BY <1>2, <3>2 DEF Currents
    <3>q. QED  BY <3>1, <3>3
  <2>2. CASE b # c
    <3>1. call'[b] = call[b]  BY <1>1, <2>2
    <3>2. call[b].target \in Targets
      BY <1>2, <3>1 DEF Inv, CallShape, Knows
    <3>3. PICK t \in Targets : t = call[b].target  BY <3>2
    <3>4. d \in Currents(t)'  BY <1>2, <3>1, <3>3 DEF Currents
    <3>6. d \in Currents(call[b].target)  BY <3>3, <3>4
    <3>5. promoter[d] # b  BY <1>2, <3>1, <3>6 DEF Inv, Cleared
    <3>q. QED  BY <3>5
  <2>q. QED  BY <2>1, <2>2
<1>3. Cleared'
  BY <1>2 DEF Cleared, Currents
<1>4. DistinctPromoters'
  BY DEF Inv, DistinctPromoters
<1>q. QED  BY <1>3, <1>4

(* A step that leaves the rows alone. *)
LEMMA CallMoves ==
  ASSUME Inv, NEW c \in Callers, NEW k \in Call,
         call' = [call EXCEPT ![c] = k], k.pc # "promote",
         UNCHANGED <<dep, promoter>>,
         target' \in [Targets -> Life \cup {"stored"}],
         told' \in [Deps -> Told], faults' \in Nat,
         Knows(c)'
  PROVE  Inv'
<1>1. RowsKeep
  BY DEF RowsKeep
<1>2. CallShape' /\ call' \in [Callers -> Call]
  BY <1>1, OthersKeep
<1>3. \A t \in Targets : Currents(t)' \subseteq Currents(t)
  BY DEF Currents
<1>4. Cleared' /\ DistinctPromoters'
  BY <1>3, NoNewCurrent
<1>5. StateOK'
  BY <1>2 DEF Inv, StateOK
<1>6. RowShape' /\ NeverSkips'
  BY DEF Inv, RowShape, NeverSkips
<1>q. QED  BY <1>2, <1>4, <1>5, <1>6 DEF Inv

(* A step that writes rows, and makes none CURRENT. *)
LEMMA RowsMove ==
  ASSUME Inv, NEW c \in Callers, NEW k \in Call,
         call' = [call EXCEPT ![c] = k],
         k.pc = "promote" => Currents(k.target)' = {},
         dep' \in [Deps -> Row], RowsKeep,
         \A d \in Deps : dep'[d].status = "CURRENT" =>
            dep[d].status = "CURRENT" /\ dep'[d].target = dep[d].target,
         \A d \in Deps : dep'[d].status # "absent" => dep'[d].target \in Targets,
         NeverSkips',
         UNCHANGED <<target, told, promoter, faults>>,
         Knows(c)'
  PROVE  Inv'
<1>1. CallShape' /\ call' \in [Callers -> Call]
  BY OthersKeep
<1>2. \A t \in Targets : Currents(t)' \subseteq Currents(t)
  BY DEF Currents
<1>3. Cleared' /\ DistinctPromoters'
  BY <1>2, NoNewCurrent
<1>4. StateOK'
  BY <1>1 DEF Inv, StateOK
<1>5. RowShape'
  BY DEF Inv, RowShape
<1>q. QED  BY <1>1, <1>3, <1>4, <1>5 DEF Inv

-----------------------------------------------------------------------------
LEMMA Initial == Init => Inv
<1> SUFFICES ASSUME Init PROVE Inv  OBVIOUS
<1>1. StateOK
  BY DEF Init, StateOK, Row, Call, Told, Idle, Life
<1>2. RowShape /\ NeverSkips
  BY DEF Init, RowShape, NeverSkips
<1>3. CallShape /\ Cleared
  BY DEF Init, CallShape, Knows, Cleared, Idle
<1>4. DistinctPromoters
  BY DEF Init, DistinctPromoters, Currents
<1>q. QED  BY <1>1, <1>2, <1>3, <1>4 DEF Inv

-----------------------------------------------------------------------------
(* One lemma per kind of step. *)

LEMMA IdleIsCall == Idle \in Call
BY DEF Idle, Call

(* Facts every step about caller c starts from. *)
LEMMA Facts ==
  ASSUME Inv, NEW c \in Callers
  PROVE  /\ call[c] \in Call
         /\ Knows(c)
         /\ dep \in [Deps -> Row] /\ told \in [Deps -> Told] /\ faults \in Nat
         /\ target \in [Targets -> Life \cup {"stored"}]
BY DEF Inv, StateOK, CallShape

(* A call that ends, whatever it has told. *)
LEMMA EndKeeps ==
  ASSUME Inv, NEW c \in Callers, Ends(c), UNCHANGED <<dep, promoter>>,
         target' \in [Targets -> Life \cup {"stored"}],
         told' \in [Deps -> Told], faults' \in Nat
  PROVE  Inv'
<1>1. call'[c] = Idle
  BY DEF Inv, StateOK, Ends
<1>2. Knows(c)'
  BY <1>1 DEF Knows, Idle
<1>3. Idle.pc # "promote"
  BY DEF Idle
<1>q. QED  BY <1>2, <1>3, IdleIsCall, CallMoves DEF Ends

LEMMA ToldTyped ==
  ASSUME told \in [Deps -> Told], NEW d \in Deps,
         NEW prev \in Status \cup {None}, NEW now \in Status \cup {None}, Tells(d, prev, now)
  PROVE  told' \in [Deps -> Told]
<1>1. told[d].broken \in BOOLEAN
  BY DEF Told
<1>2. [last |-> now, broken |-> told[d].broken \/ told[d].last # prev] \in Told
  BY <1>1 DEF Told
<1>q. QED  BY <1>2 DEF Tells

LEMMA CreateKeeps ==
  ASSUME Inv, NEW t \in Targets, CreateDeployTarget(t)
  PROVE  Inv'
<1>1. StateOK'
  BY DEF Inv, StateOK, CreateDeployTarget
<1>2. RowShape' /\ NeverSkips' /\ DistinctPromoters' /\ Cleared'
  BY DEF Inv, RowShape, NeverSkips, DistinctPromoters, Cleared, Currents, CreateDeployTarget
<1>3. ASSUME NEW c \in Callers PROVE Knows(c)'
  <2>1. RowsKeep /\ call'[c] = call[c]
    BY DEF CreateDeployTarget, RowsKeep
  <2>q. QED  BY <2>1, Facts, KnowsKept
<1>q. QED  BY <1>1, <1>2, <1>3 DEF Inv, CallShape

LEMMA DropKeeps ==
  ASSUME Inv, NEW c \in Callers, Drop(c)
  PROVE  Inv'
<1>1. call[c].target \in Targets
  BY Facts DEF Drop, Knows
<1>2. target' \in [Targets -> Life \cup {"stored"}]
  BY <1>1, Facts DEF Drop, Life
<1>q. QED  BY <1>2, Facts, EndKeeps DEF Drop

LEMMA TransitionKeeps ==
  ASSUME Inv, NEW c \in Callers, NEW d \in Deps, NEW to \in Status,
         TransitionDeployment(c, d, to)
  PROVE  Inv'
<1> DEFINE k == [Idle EXCEPT !.pc = IF to = "CURRENT" THEN "peek" ELSE "check",
                   !.dep = d, !.target = dep[d].target, !.to = to, !.prev = dep[d].status]
<1>1. dep[d] \in Row /\ dep[d].status \in Status
  BY Facts DEF TransitionDeployment, Stored
<1>2. dep[d].target \in Targets
  BY <1>1 DEF Inv, RowShape, Status
<1>3. k \in Call /\ k.pc \in {"peek", "check"} /\ k.dep = d /\ k.target = dep[d].target /\ k.to = to
  BY <1>1, <1>2 DEF Idle, Call
<1>4. call' = [call EXCEPT ![c] = k]
  BY DEF TransitionDeployment
<1>5. call'[c] = k
  BY <1>4 DEF Inv, StateOK
<1>6. dep[d].status # "absent"
  BY <1>1 DEF Status
<1> HIDE DEF k
<1>7. Knows(c)'
  BY <1>2, <1>3, <1>5, <1>6 DEF Knows, TransitionDeployment
<1>q. QED  BY <1>3, <1>4, <1>7, Facts, CallMoves DEF TransitionDeployment

LEMMA PeekKeeps ==
  ASSUME Inv, NEW c \in Callers, Peek(c)
  PROVE  Inv'
<1>1. PICK s \in Currents(call[c].target) \cup {None} :
         call' = [call EXCEPT ![c] = [@ EXCEPT !.pc = "check", !.sup = s]]
  BY DEF Peek
<1> DEFINE k == [call[c] EXCEPT !.pc = "check", !.sup = s]
<1>2. s \in Deps \cup {None}
  BY DEF Currents
<1>3. /\ k \in Call /\ k.pc = "check" /\ k.dep = call[c].dep /\ k.target = call[c].target
      /\ k.to = call[c].to
  BY <1>2, Facts DEF Call
<1>4. call' = [call EXCEPT ![c] = k]
  BY <1>1
<1>5. call'[c] = k
  BY <1>4 DEF Inv, StateOK
<1> HIDE DEF k
<1>6. Knows(c)'
  BY <1>3, <1>5, Facts DEF Knows, Peek
<1>q. QED  BY <1>3, <1>4, <1>6, Facts, CallMoves DEF Peek

LEMMA CheckKeeps ==
  ASSUME Inv, NEW c \in Callers, Check(c)
  PROVE  Inv'
<1>1. CASE ~Allowed(dep[call[c].dep].status, call[c].to)
  BY <1>1, Facts, EndKeeps DEF Check
<1>2. CASE Allowed(dep[call[c].dep].status, call[c].to)
  <2> DEFINE d == call[c].dep
             next == IF call[c].to = "CURRENT" THEN "supersede" ELSE "write"
             k == [call[c] EXCEPT !.pc = next]
  <2>1. /\ d \in Deps /\ dep[d].status # "absent" /\ dep[d].target = call[c].target
        /\ call[c].target \in Targets /\ call[c].to \in Status
    BY Facts DEF Check, Knows
  <2>2. call[c].to \in {"HANGING", "OBSOLETE", "CURRENT"} => dep[d].started
    BY <1>2, <2>1 DEF Allowed, Inv, NeverSkips
  <2>3. /\ k \in Call /\ k.pc = next /\ k.dep = d /\ k.target = call[c].target
        /\ k.to = call[c].to
    BY Facts DEF Call
  <2>4. call' = [call EXCEPT ![c] = k]
    BY <1>2 DEF Check, Goes
  <2>5. call'[c] = k
    BY <2>4 DEF Inv, StateOK
  <2>6. (next = "supersede" /\ k.to = "CURRENT") \/ (next = "write" /\ k.to # "CURRENT")
    BY <2>3
  <2>7. dep' = dep
    BY DEF Check
  <2> HIDE DEF k, next
  <2>8. Knows(c)'
    BY <2>1, <2>2, <2>3, <2>5, <2>6, <2>7 DEF Knows
  <2>q. QED  BY <2>3, <2>4, <2>6, <2>8, Facts, CallMoves DEF Check
<1>q. QED  BY <1>1, <1>2

LEMMA RereadKeeps ==
  ASSUME Inv, NEW c \in Callers, Reread(c)
  PROVE  Inv'
<1>1. CASE ~Stored(call[c].dep)
  BY <1>1, Facts, EndKeeps DEF Reread
<1>2. CASE Stored(call[c].dep)
  <2> DEFINE d == call[c].dep
             next == IF call[c].sup = None THEN "tell" ELSE "reread superseded"
             k == [call[c] EXCEPT !.pc = next, !.now = dep[d].status]
  <2>1. d \in Deps /\ dep[d].status \in Status
    BY <1>2, Facts DEF Reread, Knows, Stored
  <2>2. call[c].sup \in Deps \cup {None}
    BY Facts DEF Call
  <2>3. k \in Call /\ k.pc = next /\ k.dep = d /\ k.sup = call[c].sup
    BY <2>1, Facts DEF Call
  <2>4. call' = [call EXCEPT ![c] = k]
    BY <1>2 DEF Reread
  <2>5. call'[c] = k
    BY <2>4 DEF Inv, StateOK
  <2>6. next = "tell" \/ (next = "reread superseded" /\ k.sup \in Deps)
    BY <2>2, <2>3
  <2> HIDE DEF k, next
  <2>7. Knows(c)'
    BY <2>1, <2>3, <2>5, <2>6 DEF Knows
  <2>q. QED  BY <2>3, <2>4, <2>6, <2>7, Facts, CallMoves DEF Reread
<1>q. QED  BY <1>1, <1>2

LEMMA RereadSupersededKeeps ==
  ASSUME Inv, NEW c \in Callers, RereadSuperseded(c)
  PROVE  Inv'
<1>1. CASE ~Stored(call[c].sup)
  BY <1>1, Facts, EndKeeps DEF RereadSuperseded
<1>2. CASE Stored(call[c].sup)
  <2> DEFINE k == [call[c] EXCEPT !.pc = "tell superseded", !.supnow = dep[call[c].sup].status]
  <2>1. call[c].sup \in Deps /\ call[c].dep \in Deps
    BY Facts DEF RereadSuperseded, Knows
  <2>2. dep[call[c].sup].status \in Status
    BY <1>2 DEF Stored
  <2>3. k \in Call /\ k.pc = "tell superseded" /\ k.dep = call[c].dep /\ k.sup = call[c].sup
    BY <2>2, Facts DEF Call
  <2>4. call' = [call EXCEPT ![c] = k]
    BY <1>2 DEF RereadSuperseded
  <2>5. call'[c] = k
    BY <2>4 DEF Inv, StateOK
  <2> HIDE DEF k
  <2>6. Knows(c)'
    BY <2>1, <2>3, <2>5 DEF Knows
  <2>q. QED  BY <2>3, <2>4, <2>6, Facts, CallMoves DEF RereadSuperseded
<1>q. QED  BY <1>1, <1>2

(* The superseded row's event, sent or not. *)
LEMMA TurnsToTell ==
  ASSUME Inv, NEW c \in Callers, call[c].pc = "tell superseded", Goes(c, "tell"),
         UNCHANGED <<target, dep, promoter>>,
         told' \in [Deps -> Told], faults' \in Nat
  PROVE  Inv'
<1> DEFINE k == [call[c] EXCEPT !.pc = "tell"]
<1>1. k \in Call /\ k.pc = "tell" /\ k.dep = call[c].dep /\ call[c].dep \in Deps
  BY Facts DEF Call, Knows
<1>2. call' = [call EXCEPT ![c] = k]
  BY DEF Goes
<1>3. call'[c] = k
  BY <1>2 DEF Inv, StateOK
<1> HIDE DEF k
<1>4. Knows(c)'
  BY <1>1, <1>3 DEF Knows
<1>q. QED  BY <1>1, <1>2, <1>4, Facts, CallMoves

LEMMA TellSupersededKeeps ==
  ASSUME Inv, NEW c \in Callers, TellSuperseded(c)
  PROVE  Inv'
<1>1. call[c].sup \in Deps /\ call[c].supnow \in Status \cup {None}
  BY Facts DEF TellSuperseded, Knows, Call
<1>2. told' \in [Deps -> Told]
  <2>1. "CURRENT" \in Status \cup {None}  BY DEF Status
  <2>q. QED  BY <1>1, <2>1, Facts, ToldTyped DEF TellSuperseded
<1>q. QED  BY <1>2, Facts, TurnsToTell DEF TellSuperseded

LEMMA TellKeeps ==
  ASSUME Inv, NEW c \in Callers, Tell(c)
  PROVE  Inv'
<1>1. /\ call[c].dep \in Deps
      /\ call[c].prev \in Status \cup {None} /\ call[c].now \in Status \cup {None}
  BY Facts DEF Tell, Knows, Call
<1>2. told' \in [Deps -> Told]
  BY <1>1, Facts, ToldTyped DEF Tell
<1>q. QED  BY <1>2, Facts, EndKeeps DEF Tell

LEMMA DeleteKeeps ==
  ASSUME Inv, NEW c \in Callers, NEW t \in Targets, DeleteDeployTarget(c, t)
  PROVE  Inv'
<1> DEFINE k == [Idle EXCEPT !.pc = "drop", !.target = t]
<1>1. k \in Call /\ k.pc = "drop" /\ k.target = t
  BY DEF Idle, Call
<1>2. call' = [call EXCEPT ![c] = k]
  BY DEF DeleteDeployTarget
<1>3. call'[c] = k
  BY <1>2 DEF Inv, StateOK
<1>4. ASSUME NEW d \in Deps
      PROVE  dep'[d] = dep[d] \/ (Stored(d) /\ dep'[d] = [dep[d] EXCEPT !.status = "gone"])
  BY DEF DeleteDeployTarget
<1>5. ASSUME NEW d \in Deps
      PROVE  /\ dep'[d] \in Row
             /\ dep'[d].target = dep[d].target /\ dep'[d].started = dep[d].started
             /\ dep'[d].status = dep[d].status
                  \/ (dep'[d].status = "gone" /\ dep[d].status \in Status)
  <2>1. dep[d] \in Row  BY Facts
  <2>q. QED  BY <1>4, <2>1 DEF Row, Stored, Life
<1>6. dep' \in [Deps -> Row]
  <2>1. dep' = [d \in Deps |-> dep'[d]]  BY DEF DeleteDeployTarget
  <2>q. QED  BY <1>5, <2>1
<1>7. RowsKeep
  BY <1>5 DEF RowsKeep
<1>8. \A d \in Deps : dep'[d].status = "CURRENT" =>
        dep[d].status = "CURRENT" /\ dep'[d].target = dep[d].target
  BY <1>5
<1>9. \A d \in Deps : dep'[d].status # "absent" => dep'[d].target \in Targets
  BY <1>5 DEF Inv, RowShape, Status
<1>10. NeverSkips'
  BY <1>5 DEF Inv, NeverSkips
<1> HIDE DEF k
<1>11. Knows(c)'
  BY <1>1, <1>3 DEF Knows
<1>q. QED
  BY <1>1, <1>2, <1>6, <1>7, <1>8, <1>9, <1>10, <1>11, RowsMove DEF DeleteDeployTarget

LEMMA ScheduleKeeps ==
  ASSUME Inv, NEW c \in Callers, NEW d \in Deps, NEW t \in Targets, ScheduleDeployment(c, d, t)
  PROVE  Inv'
<1> DEFINE k == [Idle EXCEPT !.pc = "tell", !.dep = d, !.now = "SCHEDULED"]
           r == [target |-> t, status |-> "SCHEDULED", started |-> FALSE]
<1>1. k \in Call /\ k.pc = "tell" /\ k.dep = d
  BY DEF Idle, Call, Status
<1>2. call' = [call EXCEPT ![c] = k] /\ dep' = [dep EXCEPT ![d] = r]
  BY DEF ScheduleDeployment
<1>3. call'[c] = k
  BY <1>2 DEF Inv, StateOK
<1>4. r \in Row /\ r.status = "SCHEDULED" /\ r.target = t
  BY DEF Row, Status
<1> HIDE DEF k, r
<1>5. dep' \in [Deps -> Row] /\ dep'[d] = r /\ \A e \in Deps \ {d} : dep'[e] = dep[e]
  BY <1>2, <1>4, Facts
<1>6. dep[d].status = "absent"
  BY DEF ScheduleDeployment
<1>7. RowsKeep
  BY <1>5, <1>6 DEF RowsKeep
<1>8. \A e \in Deps : dep'[e].status = "CURRENT" =>
        dep[e].status = "CURRENT" /\ dep'[e].target = dep[e].target
  BY <1>4, <1>5
<1>9. \A e \in Deps : dep'[e].status # "absent" => dep'[e].target \in Targets
  BY <1>4, <1>5 DEF Inv, RowShape
<1>10. NeverSkips'
  BY <1>4, <1>5 DEF Inv, NeverSkips
<1>11. Knows(c)'
  BY <1>1, <1>3 DEF Knows
<1>q. QED
  BY <1>1, <1>2, <1>5, <1>7, <1>8, <1>9, <1>10, <1>11, RowsMove DEF ScheduleDeployment

(* UPDATE by id *)
LEMMA UpdateRow ==
  ASSUME dep \in [Deps -> Row], NEW d \in Deps, NEW s \in Status,
         dep' = Updated(d, s)
  PROVE  /\ dep' \in [Deps -> Row]
         /\ RowsKeep
         /\ \A e \in Deps \ {d} : dep'[e] = dep[e]
         /\ dep'[d].target = dep[d].target
         /\ IF dep[d].status \in Status
            THEN dep'[d].status = s /\ dep'[d].started = (dep[d].started \/ s = "DEPLOYING")
            ELSE dep' = dep
<1>1. CASE ~Stored(d)
  BY <1>1 DEF Updated, RowsKeep, Stored
<1>2. CASE Stored(d)
  <2> DEFINE r == [dep[d] EXCEPT !.status = s, !.started = dep[d].started \/ s = "DEPLOYING"]
  <2>1. dep[d] \in Row /\ dep[d].started \in BOOLEAN
    BY DEF Row
  <2>2. /\ r \in Row /\ r.target = dep[d].target /\ r.status = s
        /\ r.started = (dep[d].started \/ s = "DEPLOYING")
    BY <2>1 DEF Row
  <2>3. dep' = [dep EXCEPT ![d] = r]
    BY <1>2 DEF Updated
  <2> HIDE DEF r
  <2>4. dep' \in [Deps -> Row] /\ dep'[d] = r /\ \A e \in Deps \ {d} : dep'[e] = dep[e]
    BY <2>2, <2>3
  <2>5. RowsKeep
    BY <2>2, <2>4 DEF RowsKeep, Status
  <2>q. QED  BY <1>2, <2>2, <2>4, <2>5 DEF Stored
<1>q. QED  BY <1>1, <1>2

LEMMA WriteKeeps ==
  ASSUME Inv, NEW c \in Callers, Write(c)
  PROVE  Inv'
<1> DEFINE d == call[c].dep
           s == call[c].to
           k == [call[c] EXCEPT !.pc = "reread"]
<1>1. /\ d \in Deps /\ s \in Status /\ s # "CURRENT"
      /\ s \in {"HANGING", "OBSOLETE"} => dep[d].started
  BY Facts DEF Write, Knows
<1>2. k \in Call /\ k.pc = "reread" /\ k.dep = d
  BY Facts DEF Call
<1>3. call' = [call EXCEPT ![c] = k] /\ dep' = Updated(d, s)
  BY DEF Write, Goes
<1>4. call'[c] = k
  BY <1>3 DEF Inv, StateOK
<1> HIDE DEF k, d, s
<1>5. /\ dep' \in [Deps -> Row] /\ RowsKeep
      /\ \A e \in Deps \ {d} : dep'[e] = dep[e]
      /\ dep'[d].target = dep[d].target
      /\ IF dep[d].status \in Status
         THEN dep'[d].status = s /\ dep'[d].started = (dep[d].started \/ s = "DEPLOYING")
         ELSE dep' = dep
  BY <1>1, <1>3, Facts, UpdateRow
<1>6. \A e \in Deps : dep'[e].status = "CURRENT" =>
        dep[e].status = "CURRENT" /\ dep'[e].target = dep[e].target
  BY <1>1, <1>5
<1>7. \A e \in Deps : dep'[e].status # "absent" => dep'[e].target \in Targets
  BY <1>5 DEF Inv, RowShape, Status
<1>8. NeverSkips'
  <2>1. ASSUME NEW e \in Deps, dep'[e].status \in {"DEPLOYING", "HANGING", "CURRENT", "OBSOLETE"}
        PROVE  dep'[e].started
    <3>1. CASE e # d  BY <1>5, <2>1, <3>1 DEF Inv, NeverSkips
    <3>2. CASE e = d /\ dep[d].status \in Status
      <4>1. s \in {"DEPLOYING", "HANGING", "OBSOLETE"}  BY <1>1, <1>5, <2>1, <3>2
      <4>2. dep[d].started \/ s = "DEPLOYING"  BY <1>1, <4>1
      <4>q. QED  BY <1>5, <3>2, <4>2
    <3>3. CASE e = d /\ dep[d].status \notin Status
      BY <1>5, <2>1, <3>3 DEF Inv, NeverSkips
    <3>q. QED  BY <3>1, <3>2, <3>3
  <2>q. QED  BY <2>1 DEF NeverSkips
<1>9. Knows(c)'
  BY <1>1, <1>2, <1>4 DEF Knows
<1>q. QED
  BY <1>2, <1>3, <1>5, <1>6, <1>7, <1>8, <1>9, RowsMove DEF Write

LEMMA SupersedeKeeps ==
  ASSUME Inv, NEW c \in Callers, Supersede(c)
  PROVE  Inv'
<1>0. PICK t \in Targets : t = call[c].target
  BY Facts DEF Supersede, Knows
<1> DEFINE k == [call[c] EXCEPT !.pc = "promote"]
<1>1. /\ call[c].dep \in Deps /\ t \in Targets /\ call[c].to \in Status
      /\ dep[call[c].dep].started /\ dep[call[c].dep].target = t
      /\ dep[call[c].dep].status # "absent"
  BY <1>0, Facts DEF Supersede, Knows
<1>2. /\ k \in Call /\ k.pc = "promote" /\ k.dep = call[c].dep /\ k.target = t
      /\ k.to = call[c].to
  BY <1>0, Facts DEF Call
<1>3. call' = [call EXCEPT ![c] = k]
  BY DEF Supersede, Goes
<1>4. call'[c] = k
  BY <1>3 DEF Inv, StateOK
<1>5. ASSUME NEW d \in Deps
      PROVE  /\ dep'[d] \in Row
             /\ dep'[d].target = dep[d].target /\ dep'[d].started = dep[d].started
             /\ IF dep[d].target = t /\ dep[d].status = "CURRENT"
                THEN dep'[d].status = "OBSOLETE" ELSE dep'[d].status = dep[d].status
  <2>1. dep[d] \in Row  BY Facts
  <2>2. CASE d \in Currents(t)
    <3>1. dep'[d] = [dep[d] EXCEPT !.status = "OBSOLETE"]  BY <1>0, <2>2 DEF Supersede
    <3>2. dep[d].target = t /\ dep[d].status = "CURRENT"  BY <2>2 DEF Currents
    <3>q. QED  BY <2>1, <3>1, <3>2 DEF Row, Status
  <2>3. CASE d \notin Currents(t)
    <3>1. dep'[d] = dep[d]  BY <1>0, <2>3 DEF Supersede
    <3>2. ~(dep[d].target = t /\ dep[d].status = "CURRENT")  BY <2>3 DEF Currents
    <3>q. QED  BY <2>1, <3>1, <3>2
  <2>q. QED  BY <2>2, <2>3
<1>6. dep' \in [Deps -> Row]
  <2>1. dep' = [d \in Deps |-> dep'[d]]  BY DEF Supersede
  <2>q. QED  BY <1>5, <2>1
<1> HIDE DEF k
<1>7. RowsKeep
  BY <1>5 DEF RowsKeep
<1>8. Currents(t)' = {}
  BY <1>5 DEF Currents
<1>9. \A e \in Deps : dep'[e].status = "CURRENT" =>
        dep[e].status = "CURRENT" /\ dep'[e].target = dep[e].target
  BY <1>5
<1>10. \A e \in Deps : dep'[e].status # "absent" => dep'[e].target \in Targets
  BY <1>5 DEF Inv, RowShape
<1>11. NeverSkips'
  BY <1>5 DEF Inv, NeverSkips
<1>12. Knows(c)'
  BY <1>1, <1>2, <1>4, <1>5 DEF Knows
<1>q. QED
  BY <1>2, <1>3, <1>6, <1>7, <1>8, <1>9, <1>10, <1>11, <1>12, RowsMove DEF Supersede

(* The second UPDATE of a promotion: only d may become CURRENT, by c. *)
LEMMA PromoteKeeps ==
  ASSUME Inv, NEW c \in Callers, Promote(c)
  PROVE  Inv'
<1>0. PICK d \in Deps, t \in Targets :
        /\ d = call[c].dep /\ t = call[c].target
        /\ dep[d].started /\ dep[d].target = t /\ dep[d].status # "absent"
  BY Facts DEF Promote, Knows
<1> DEFINE k == [call[c] EXCEPT !.pc = "reread"]
<1>1. k \in Call /\ k.pc = "reread" /\ k.dep = d
  BY <1>0, Facts DEF Call
<1>2. /\ call' = [call EXCEPT ![c] = k] /\ dep' = Updated(d, "CURRENT")
      /\ promoter' = [promoter EXCEPT ![d] = c]
  BY <1>0 DEF Promote, Goes
<1> HIDE DEF k
<1>3. call'[c] = k
  BY <1>2 DEF Inv, StateOK
<1>4. /\ promoter' \in [Deps -> Callers \cup {None}] /\ promoter'[d] = c
      /\ \A e \in Deps \ {d} : promoter'[e] = promoter[e]
  BY <1>2 DEF Inv, StateOK
<1>5. /\ dep' \in [Deps -> Row] /\ RowsKeep
      /\ \A e \in Deps \ {d} : dep'[e] = dep[e]
      /\ dep'[d].target = t
      /\ dep'[d].status = "CURRENT" => dep'[d].started
  <2>1. "CURRENT" \in Status  BY DEF Status
  <2>2. /\ dep' \in [Deps -> Row] /\ RowsKeep
        /\ \A e \in Deps \ {d} : dep'[e] = dep[e]
        /\ dep'[d].target = dep[d].target
    BY <1>2, <2>1, Facts, UpdateRow
  <2>3. dep'[d].started  BY <1>0, <2>2 DEF RowsKeep
  <2>q. QED  BY <1>0, <2>2, <2>3
<1>6. dep'[d].status \in {"CURRENT", "gone"}
  <2>1. dep[d] \in Row /\ "CURRENT" \in Status  BY Facts DEF Status
  <2>2. IF dep[d].status \in Status THEN dep'[d].status = "CURRENT" ELSE dep' = dep
    BY <1>2, <2>1, Facts, UpdateRow
  <2>q. QED  BY <1>0, <2>1, <2>2 DEF Row, Life
<1>7. Knows(c)'
  BY <1>1, <1>3 DEF Knows
<1>8. CallShape' /\ call' \in [Callers -> Call] /\ \A b \in Callers \ {c} : call'[b] = call[b]
  BY <1>1, <1>2, <1>5, <1>7, OthersKeep
<1>9. StateOK'
  BY <1>4, <1>5, <1>8 DEF Inv, StateOK, Promote
<1>10. RowShape' /\ NeverSkips'
  BY <1>4, <1>5, <1>6 DEF Inv, RowShape, NeverSkips
<1>11. ASSUME NEW b \in Callers, call'[b].pc = "promote",
              NEW e \in Deps, dep'[e].target = call'[b].target, dep'[e].status = "CURRENT"
       PROVE  promoter'[e] # b
  <2>1. b # c /\ call'[b] = call[b]  BY <1>1, <1>3, <1>8, <1>11
  <2>2. CASE e = d  BY <1>4, <2>1, <2>2
  <2>3. CASE e # d
    <3>1. e \in Currents(call[b].target)  BY <1>5, <1>11, <2>1, <2>3 DEF Currents
    <3>q. QED  BY <1>4, <1>11, <2>1, <2>3, <3>1 DEF Inv, Cleared
  <2>q. QED  BY <2>2, <2>3
<1>12. Cleared'
  BY <1>11 DEF Cleared, Currents
<1>13. ASSUME NEW e \in Deps, e # d, dep'[e].target = t, dep'[e].status = "CURRENT"
       PROVE  promoter'[e] # c
  <2>1. e \in Currents(call[c].target)  BY <1>0, <1>5, <1>13 DEF Currents
  <2>q. QED  BY <1>4, <1>13, <2>1 DEF Inv, Cleared, Promote
<1>14. DistinctPromoters'
  <2>1. ASSUME NEW u \in Targets, NEW e \in Deps, NEW f \in Deps,
               dep'[e].target = u, dep'[e].status = "CURRENT",
               dep'[f].target = u, dep'[f].status = "CURRENT",
               promoter'[e] = promoter'[f]
        PROVE  e = f
    <3>1. CASE e # d /\ f # d
      <4>1. e \in Currents(u) /\ f \in Currents(u)  BY <1>5, <2>1, <3>1 DEF Currents
      <4>q. QED  BY <1>4, <2>1, <3>1, <4>1 DEF Inv, DistinctPromoters
    <3>2. CASE e = d  BY <1>4, <1>5, <1>13, <2>1, <3>2
    <3>3. CASE f = d  BY <1>4, <1>5, <1>13, <2>1, <3>3
    <3>q. QED  BY <3>1, <3>2, <3>3
  <2>q. QED  BY <2>1 DEF DistinctPromoters, Currents
<1>q. QED  BY <1>8, <1>9, <1>10, <1>12, <1>14 DEF Inv

(* A call cut short forgets what it knew; the rows stay as written. *)
LEMMA StopsKeeps ==
  ASSUME Inv, NEW c \in Callers, Stops(c)
  PROVE  Inv'
<1>1. faults \in Nat /\ faults' = faults + 1
  BY DEF Inv, StateOK, Stops
<1>q. QED  BY <1>1, Facts, EndKeeps DEF Stops

LEMMA UnsentKeeps ==
  ASSUME Inv, NEW c \in Callers, Unsent(c)
  PROVE  Inv'
<1>1. faults \in Nat /\ faults' = faults + 1
  BY DEF Inv, StateOK, Unsent
<1>2. faults' \in Nat
  BY <1>1
<1>3. told' \in [Deps -> Told]
  BY Facts DEF Unsent
<1>4. call[c].pc = "tell superseded" /\ Goes(c, "tell") /\ UNCHANGED <<target, dep, promoter>>
  BY DEF Unsent
<1>q. QED  BY <1>2, <1>3, <1>4, TurnsToTell

LEMMA NextKeeps == Inv /\ [Next]_vars => Inv'
<1> SUFFICES ASSUME Inv, [Next]_vars PROVE Inv'  OBVIOUS
<1>1. CASE UNCHANGED vars
  BY <1>1 DEF vars, Inv, StateOK, RowShape, NeverSkips, CallShape, Knows, Cleared,
              DistinctPromoters, Currents
<1>2. ASSUME NEW t \in Targets, CreateDeployTarget(t) PROVE Inv'
  BY <1>2, CreateKeeps
<1>3. ASSUME NEW c \in Callers, NEW t \in Targets, DeleteDeployTarget(c, t) PROVE Inv'
  BY <1>3, DeleteKeeps
<1>4. ASSUME NEW c \in Callers, NEW d \in Deps, NEW t \in Targets, ScheduleDeployment(c, d, t)
      PROVE  Inv'
  BY <1>4, ScheduleKeeps
<1>5. ASSUME NEW c \in Callers, NEW d \in Deps, NEW s \in Status, TransitionDeployment(c, d, s)
      PROVE  Inv'
  BY <1>5, TransitionKeeps
<1>6. ASSUME NEW c \in Callers,
             Drop(c) \/ Peek(c) \/ Check(c) \/ Write(c) \/ Supersede(c) \/ Promote(c)
      PROVE  Inv'
  BY <1>6, DropKeeps, PeekKeeps, CheckKeeps, WriteKeeps, SupersedeKeeps, PromoteKeeps
<1>7. ASSUME NEW c \in Callers,
             Reread(c) \/ RereadSuperseded(c) \/ TellSuperseded(c) \/ Tell(c) \/ Stops(c) \/ Unsent(c)
      PROVE  Inv'
  BY <1>7, RereadKeeps, RereadSupersededKeeps, TellSupersededKeeps, TellKeeps, StopsKeeps, UnsentKeeps
<1>q. QED  BY <1>1, <1>2, <1>3, <1>4, <1>5, <1>6, <1>7 DEF Next

-----------------------------------------------------------------------------
(* The invariant, for any number of callers, rows and faults.               *)
THEOREM DeploymentsInvariant == Spec => []Inv
BY Initial, NextKeeps, ProgramSteps, PTL

Watched == overlapped \in BOOLEAN

(* Every variable keeps its type.                                           *)
THEOREM TypeCorrect == Spec => []TypeOK
<1>1. Init => Watched
  BY DEF Init, Watched
<1>2. Watched /\ [Next /\ Watch]_allvars => Watched'
  BY DEF Watched, Watch, allvars
<1>3. Inv /\ Watched => TypeOK
  BY DEF TypeOK, Watched, Inv
<1>q. QED  BY <1>1, <1>2, <1>3, DeploymentsInvariant, PTL DEF Spec

(* However stale the check of transition_deployment_tx, no deployment is    *)
(* HANGING, CURRENT or OBSOLETE that was not DEPLOYING before.              *)
THEOREM NoDeploymentSkips == Spec => []NeverSkips
<1>1. Inv => NeverSkips  BY DEF Inv
<1>q. QED  BY <1>1, DeploymentsInvariant, PTL

(* Rows CURRENT together on one target come from different requests: the    *)
(* two UPDATEs of one promotion, cut short or not, never leave two.         *)
THEOREM PromotersDiffer == Spec => []DistinctPromoters
<1>1. Inv => DistinctPromoters  BY DEF Inv
<1>q. QED  BY <1>1, DeploymentsInvariant, PTL

-----------------------------------------------------------------------------
(* One request after another.  The other callers stand idle before and      *)
(* after the step.                                                          *)
Alone(c) == \A b \in Callers \ {c} : call[b].pc = "idle" /\ call'[b].pc = "idle"

Steps(c) ==
    \/ \E t \in Targets : DeleteDeployTarget(c, t)
    \/ \E d \in Deps, t \in Targets : ScheduleDeployment(c, d, t)
    \/ \E d \in Deps, s \in Status : TransitionDeployment(c, d, s)
    \/ Drop(c) \/ Peek(c) \/ Check(c) \/ Write(c) \/ Supersede(c) \/ Promote(c)
    \/ Reread(c) \/ RereadSuperseded(c) \/ TellSuperseded(c) \/ Tell(c)
    \/ Stops(c) \/ Unsent(c)

LEMMA NextSteps ==
  ASSUME [Next]_vars
  PROVE  \/ UNCHANGED vars \/ \E t \in Targets : CreateDeployTarget(t)
         \/ \E c \in Callers : Steps(c)
BY DEF Next, Steps

(* A step moves the call of one caller; only Supersede leads to promote.    *)
LEMMA CallerMoves ==
  ASSUME Inv, NEW c \in Callers, Steps(c)
  PROVE  /\ call[c].pc # "idle" \/ call'[c].pc # "idle"
         /\ \A b \in Callers \ {c} : call'[b] = call[b]
         /\ call'[c].pc = "promote" => Supersede(c)
<1> DEFINE Moves == /\ call[c].pc # "idle" \/ call'[c].pc # "idle"
                    /\ \A b \in Callers \ {c} : call'[b] = call[b]
                    /\ call'[c].pc = "promote" => Supersede(c)
<1>1. call \in [Callers -> Call] /\ call[c] \in Call  BY DEF Inv, StateOK
<1>2. ASSUME NEW k, call' = [call EXCEPT ![c] = k], call[c].pc # "idle" \/ k.pc # "idle",
             k.pc # "promote"
      PROVE  Moves
  BY <1>1, <1>2
<1>3. ASSUME NEW t \in Targets, DeleteDeployTarget(c, t)  PROVE Moves
  <2>1. call' = [call EXCEPT ![c] = [Idle EXCEPT !.pc = "drop", !.target = t]]
    BY <1>3 DEF DeleteDeployTarget
  <2>2. [Idle EXCEPT !.pc = "drop", !.target = t].pc = "drop"  BY DEF Idle
  <2>q. QED  BY <1>2, <2>1, <2>2
<1>4. ASSUME NEW d \in Deps, NEW t \in Targets, ScheduleDeployment(c, d, t)  PROVE Moves
  <2> DEFINE k == [Idle EXCEPT !.pc = "tell", !.dep = d, !.now = "SCHEDULED"]
  <2>1. call' = [call EXCEPT ![c] = k]  BY <1>4 DEF ScheduleDeployment
  <2>2. k.pc = "tell"  BY DEF Idle
  <2> HIDE DEF k
  <2>q. QED  BY <1>2, <2>1, <2>2
<1>5. ASSUME NEW d \in Deps, NEW s \in Status, TransitionDeployment(c, d, s)  PROVE Moves
  <2> DEFINE k == [Idle EXCEPT !.pc = IF s = "CURRENT" THEN "peek" ELSE "check",
                     !.dep = d, !.target = dep[d].target, !.to = s, !.prev = dep[d].status]
  <2>1. call' = [call EXCEPT ![c] = k]  BY <1>5 DEF TransitionDeployment
  <2>2. k.pc \in {"peek", "check"}  BY DEF Idle
  <2> HIDE DEF k
  <2>q. QED  BY <1>2, <2>1, <2>2
<1>6. ASSUME Ends(c), call[c].pc # "idle"  PROVE Moves
  <2>1. Idle.pc # "promote"  BY DEF Idle
  <2>q. QED  BY <1>2, <1>6, <2>1 DEF Ends
<1>7. ASSUME NEW n, Goes(c, n), call[c].pc # "idle", n # "promote" \/ Supersede(c)  PROVE Moves
  <2>1. call' = [call EXCEPT ![c] = [call[c] EXCEPT !.pc = n]]  BY <1>7 DEF Goes
  <2>2. [call[c] EXCEPT !.pc = n].pc = n  BY <1>1 DEF Call
  <2>q. QED  BY <1>1, <1>7, <2>1, <2>2
<1>8. ASSUME Drop(c) \/ Tell(c) \/ Stops(c)  PROVE Moves
  BY <1>6, <1>8 DEF Drop, Tell, Stops
<1>9. ASSUME Check(c) \/ Write(c) \/ Supersede(c) \/ Promote(c) \/ TellSuperseded(c) \/ Unsent(c)
      PROVE  Moves
  BY <1>6, <1>7, <1>9 DEF Check, Write, Supersede, Promote, TellSuperseded, Unsent
<1>10. ASSUME Peek(c)  PROVE Moves
  <2>1. PICK s : call' = [call EXCEPT ![c] = [call[c] EXCEPT !.pc = "check", !.sup = s]]
    BY <1>10 DEF Peek
  <2>2. [call[c] EXCEPT !.pc = "check", !.sup = s].pc = "check"  BY <1>1 DEF Call
  <2>q. QED  BY <1>2, <2>1, <2>2
<1>11. ASSUME Reread(c), ~Ends(c)  PROVE Moves
  <2> DEFINE k == [call[c] EXCEPT !.pc = IF call[c].sup = None THEN "tell" ELSE "reread superseded",
                                  !.now = dep[call[c].dep].status]
  <2>1. call' = [call EXCEPT ![c] = k]  BY <1>11 DEF Reread
  <2>2. k.pc \in {"tell", "reread superseded"}  BY <1>1 DEF Call
  <2> HIDE DEF k
  <2>q. QED  BY <1>2, <2>1, <2>2
<1>12. ASSUME RereadSuperseded(c), ~Ends(c)  PROVE Moves
  <2> DEFINE k == [call[c] EXCEPT !.pc = "tell superseded", !.supnow = dep[call[c].sup].status]
  <2>1. call' = [call EXCEPT ![c] = k]  BY <1>12 DEF RereadSuperseded
  <2>2. k.pc = "tell superseded"  BY <1>1 DEF Call
  <2> HIDE DEF k
  <2>q. QED  BY <1>2, <2>1, <2>2
<1>13. ASSUME Reread(c) \/ RereadSuperseded(c)  PROVE Moves
  BY <1>6, <1>11, <1>12, <1>13 DEF Reread, RereadSuperseded
<1>q. QED
  BY <1>3, <1>4, <1>5, <1>8, <1>9, <1>10, <1>13 DEF Steps

LEMMA StepIsAlone ==
  ASSUME OneAtATime, OneAtATime', Inv, NEW c \in Callers, Steps(c)
  PROVE  Alone(c)
BY CallerMoves DEF OneAtATime, Alone

-----------------------------------------------------------------------------
(* One request after another: a promotion finds its target cleared.         *)
Single ==
    /\ OneCurrent
    /\ \A c \in Callers : call[c].pc = "promote" => Currents(call[c].target) = {}

(* Only the second UPDATE of a promotion makes a row CURRENT. *)
LEMMA CurrentsShrink ==
  ASSUME Inv, NEW c \in Callers, Steps(c), ~Promote(c), NEW d \in Deps, dep'[d].status = "CURRENT"
  PROVE  dep[d].status = "CURRENT" /\ dep'[d].target = dep[d].target
<1>1. dep[d] \in Row /\ dep \in [Deps -> Row]  BY Facts
<1>2. CASE dep' = dep  BY <1>2
<1>3. ASSUME NEW t \in Targets, DeleteDeployTarget(c, t)
      PROVE  dep[d].status = "CURRENT" /\ dep'[d].target = dep[d].target
  <2>1. dep'[d] \in {dep[d], [dep[d] EXCEPT !.status = "gone"]}  BY <1>3 DEF DeleteDeployTarget
  <2>2. [dep[d] EXCEPT !.status = "gone"].status = "gone"  BY <1>1 DEF Row
  <2>q. QED  BY <2>1, <2>2
<1>4. ASSUME NEW e \in Deps, NEW t \in Targets, ScheduleDeployment(c, e, t)
      PROVE  dep[d].status = "CURRENT" /\ dep'[d].target = dep[d].target
  BY <1>1, <1>4 DEF ScheduleDeployment
<1>5. CASE Write(c)
  <2>1. /\ call[c].dep \in Deps /\ call[c].to \in Status \ {"CURRENT"}
        /\ dep' = Updated(call[c].dep, call[c].to)
    BY <1>5, Facts DEF Write, Knows
  <2>2. PICK e \in Deps, s \in Status : s # "CURRENT" /\ dep' = Updated(e, s)  BY <2>1
  <2>q. QED  BY <1>1, <2>2, UpdateRow
<1>6. CASE Supersede(c)
  <2>1. dep'[d] = dep[d] \/ dep'[d] = [dep[d] EXCEPT !.status = "OBSOLETE"]
    BY <1>6 DEF Supersede
  <2>2. [dep[d] EXCEPT !.status = "OBSOLETE"].status = "OBSOLETE"  BY <1>1 DEF Row
  <2>q. QED  BY <2>1, <2>2
<1>7. \/ dep' = dep \/ Write(c) \/ Supersede(c)
      \/ \E t \in Targets : DeleteDeployTarget(c, t)
      \/ \E e \in Deps, t \in Targets : ScheduleDeployment(c, e, t)
  BY DEF Steps, TransitionDeployment, Drop, Peek, Check, Reread, RereadSuperseded,
         TellSuperseded, Tell, Stops, Unsent
<1>q. QED  BY <1>2, <1>3, <1>4, <1>5, <1>6, <1>7

LEMMA SingleStep ==
  ASSUME OneAtATime, OneAtATime', Inv, Single, [Next]_vars
  PROVE  Single'
<1>1. CASE UNCHANGED vars \/ \E t \in Targets : CreateDeployTarget(t)
  BY <1>1 DEF vars, CreateDeployTarget, Single, OneCurrent, Currents
<1>2. ASSUME NEW c \in Callers, Steps(c)  PROVE Single'
  <2>1. Alone(c) /\ (call'[c].pc = "promote" => Supersede(c))
    BY <1>2, StepIsAlone, CallerMoves
  <2>2. CASE Promote(c)
    <3>1. PICK d \in Deps, t \in Targets :
            /\ d = call[c].dep /\ t = call[c].target /\ dep[d].target = t
            /\ dep' = Updated(d, "CURRENT")
      BY <2>2, Facts DEF Promote, Knows
    <3>2. Currents(t) = {}  BY <2>2, <3>1 DEF Promote, Single
    <3>3. /\ \A e \in Deps \ {d} : dep'[e] = dep[e]
          /\ dep'[d].target = t
      BY <3>1, Facts, UpdateRow DEF Status
    <3>4. OneCurrent'  BY <3>2, <3>3 DEF Single, OneCurrent, Currents
    <3>5. ~Supersede(c)  BY <2>2 DEF Promote, Supersede
    <3>6. \A b \in Callers : call'[b].pc # "promote"  BY <2>1, <3>5 DEF Alone
    <3>q. QED  BY <3>4, <3>6 DEF Single
  <2>3. CASE ~Promote(c)
    <3>1. OneCurrent'
      BY <1>2, <2>3, CurrentsShrink DEF Single, OneCurrent, Currents
    <3>2. CASE Supersede(c)
      <4>1. PICK t \in Targets : t = call[c].target  BY <3>2, Facts DEF Supersede, Knows
      <4>2. ASSUME NEW d \in Deps, dep'[d].status = "CURRENT", dep'[d].target = t  PROVE FALSE
        <5>1. d \in Currents(t)
          BY <1>2, <2>3, <4>2, CurrentsShrink DEF Currents
        <5>2. dep'[d] = [dep[d] EXCEPT !.status = "OBSOLETE"]  BY <3>2, <4>1, <5>1 DEF Supersede
        <5>3. dep[d] \in Row  BY Facts
        <5>q. QED  BY <4>2, <5>2, <5>3 DEF Row
      <4>3. Currents(t)' = {}  BY <4>2 DEF Currents
      <4>4. call'[c].target = t
        <5>1. call \in [Callers -> Call] /\ call[c] \in Call  BY DEF Inv, StateOK
        <5>2. call'[c] = [call[c] EXCEPT !.pc = "promote"]  BY <3>2, <5>1 DEF Supersede, Goes
        <5>q. QED  BY <4>1, <5>1, <5>2 DEF Call
      <4>5. Currents(call[c].target)' = {}  BY <4>3, <4>4 DEF Currents
      <4>6. \A b \in Callers : call'[b].pc = "promote" => b = c  BY <2>1 DEF Alone
      <4>q. QED  BY <3>1, <4>5, <4>6 DEF Single
    <3>3. CASE ~Supersede(c)
      <4>1. \A b \in Callers : call'[b].pc # "promote"  BY <2>1, <3>3 DEF Alone
      <4>q. QED  BY <3>1, <4>1 DEF Single
    <3>q. QED  BY <3>2, <3>3
  <2>q. QED  BY <2>2, <2>3
<1>q. QED  BY <1>1, <1>2, NextSteps

-----------------------------------------------------------------------------
(* Requests one at a time: the check is still good when the UPDATE runs.    *)
Fresh ==
    \A c \in Callers :
      /\ call[c].pc = "write" => Stored(call[c].dep) /\ Allowed(dep[call[c].dep].status, call[c].to)
      /\ call[c].pc \in {"supersede", "promote"} => dep[call[c].dep].status \in {"DEPLOYING", "HANGING"}

LEMMA OnlyCall ==
  ASSUME Inv, NEW c \in Callers, Alone(c), NEW k, call' = [call EXCEPT ![c] = k]
  PROVE  call'[c] = k /\ \A b \in Callers : b # c => call'[b].pc = "idle"
BY DEF Inv, StateOK, Alone

LEMMA FreshCall ==
  ASSUME Inv, Fresh, NEW c \in Callers, Alone(c), Steps(c)
  PROVE  Fresh' /\ LegalStep
<1> USE DEF LegalStep
<1>3. ASSUME NEW k \in Call, call' = [call EXCEPT ![c] = k],
             k.pc \notin {"write", "supersede", "promote"}
      PROVE  Fresh'
  <2>1. call'[c] = k /\ \A b \in Callers : b # c => call'[b].pc = "idle"
    BY <1>3, OnlyCall
  <2>q. QED  BY <1>3, <2>1 DEF Fresh
<1>4. ASSUME NEW t \in Targets, DeleteDeployTarget(c, t) PROVE Fresh' /\ LegalStep
  <2>1. [Idle EXCEPT !.pc = "drop", !.target = t] \in Call  BY DEF Idle, Call
  <2>2. Fresh'  BY <1>3, <1>4, <2>1 DEF DeleteDeployTarget, Idle
  <2>3. ASSUME NEW d \in Deps
        PROVE  dep'[d] = dep[d] \/ dep'[d] = [dep[d] EXCEPT !.status = "gone"]
    BY <1>4 DEF DeleteDeployTarget
  <2>4. LegalStep
    <3>1. ASSUME NEW d \in Deps PROVE dep'[d] = dep[d] \/ dep'[d].status = "gone"
      <4>1. dep[d] \in Row  BY DEF Inv, StateOK
      <4>q. QED  BY <2>3, <4>1 DEF Row
    <3>q. QED  BY <3>1 DEF Stored, Status
  <2>q. QED  BY <2>2, <2>4
<1>5. ASSUME NEW d \in Deps, NEW t \in Targets, ScheduleDeployment(c, d, t)
      PROVE  Fresh' /\ LegalStep
  <2>1. [Idle EXCEPT !.pc = "tell", !.dep = d, !.now = "SCHEDULED"] \in Call
    BY DEF Idle, Call, Status
  <2>2. Fresh'  BY <1>3, <1>5, <2>1 DEF ScheduleDeployment, Idle
  <2>3. dep[d].status = "absent" /\ \A e \in Deps \ {d} : dep'[e] = dep[e]
    BY <1>5 DEF ScheduleDeployment, Inv, StateOK
  <2>q. QED  BY <2>2, <2>3 DEF Stored, Status
<1>6. ASSUME UNCHANGED dep, Ends(c) PROVE Fresh' /\ LegalStep
  BY <1>3, <1>6, IdleIsCall DEF Ends, Idle
<1>7. ASSUME NEW d \in Deps, NEW s \in Status, TransitionDeployment(c, d, s)
      PROVE  Fresh' /\ LegalStep
  <2> DEFINE k == [Idle EXCEPT !.pc = IF s = "CURRENT" THEN "peek" ELSE "check",
                     !.dep = d, !.target = dep[d].target, !.to = s, !.prev = dep[d].status]
  <2>0. call' = [call EXCEPT ![c] = k]  BY <1>7 DEF TransitionDeployment
  <2>3. k.pc \in {"peek", "check"}  BY DEF Idle
  <2> HIDE DEF k
  <2>1. \A b \in Callers : call'[b].pc \in {"peek", "check", "idle"}
    BY <2>0, <2>3, OnlyCall
  <2>q. QED  BY <1>7, <2>1 DEF TransitionDeployment, Fresh
<1>8. ASSUME Peek(c) PROVE Fresh' /\ LegalStep
  <2>1. call[c] \in Call  BY Facts
  <2>3. PICK s : call' = [call EXCEPT ![c] = [@ EXCEPT !.pc = "check", !.sup = s]]
    BY <1>8 DEF Peek
  <2> DEFINE k == [call[c] EXCEPT !.pc = "check", !.sup = s]
  <2>4. k.pc = "check"  BY <2>1 DEF Call
  <2>5. call' = [call EXCEPT ![c] = k]  BY <2>3
  <2> HIDE DEF k
  <2>2. \A b \in Callers : call'[b].pc \in {"check", "idle"}
    BY <2>4, <2>5, OnlyCall
  <2>q. QED  BY <1>8, <2>2 DEF Peek, Fresh
<1>9. ASSUME Check(c) PROVE Fresh' /\ LegalStep
  <2>1. CASE ~Allowed(dep[call[c].dep].status, call[c].to)
    BY <1>6, <1>9, <2>1 DEF Check
  <2>2. CASE Allowed(dep[call[c].dep].status, call[c].to)
    <3>1. call[c] \in Call  BY Facts
    <3> DEFINE next == IF call[c].to = "CURRENT" THEN "supersede" ELSE "write"
               k == [call[c] EXCEPT !.pc = next]
    <3>7. k.dep = call[c].dep /\ k.to = call[c].to /\ k.pc = next  BY <3>1 DEF Call
    <3>8. call' = [call EXCEPT ![c] = k]  BY <1>9, <2>2 DEF Check, Goes
    <3> HIDE DEF k
    <3>2. /\ call'[c].dep = call[c].dep /\ call'[c].to = call[c].to /\ call'[c].pc = next
          /\ \A b \in Callers : b # c => call'[b].pc = "idle"
      BY <3>7, <3>8, OnlyCall
    <3>3. dep' = dep  BY <1>9 DEF Check
    <3>4. dep[call[c].dep].status \in Status  BY <2>2 DEF Allowed, Status
    <3>5. call[c].to = "CURRENT" => dep[call[c].dep].status \in {"DEPLOYING", "HANGING"}
      BY <2>2 DEF Allowed
    <3>6. Fresh'  BY <2>2, <3>2, <3>3, <3>4, <3>5 DEF Fresh, Stored
    <3>q. QED  BY <3>3, <3>6
  <2>q. QED  BY <2>1, <2>2
<1>10. ASSUME Goes(c, "reread") \/ Goes(c, "tell") PROVE Fresh'
  <2>1. call[c] \in Call  BY Facts
  <2>3. PICK n \in {"reread", "tell"} : Goes(c, n)  BY <1>10
  <2> DEFINE k == [call[c] EXCEPT !.pc = n]
  <2>4. k.pc = n  BY <2>1 DEF Call
  <2>5. call' = [call EXCEPT ![c] = k]  BY <2>3 DEF Goes
  <2> HIDE DEF k
  <2>2. \A b \in Callers : call'[b].pc \in {"reread", "tell", "idle"}
    BY <2>4, <2>5, OnlyCall
  <2>q. QED  BY <2>2 DEF Fresh
<1>11. ASSUME NEW s \in Status, call[c].dep \in Deps,
              dep' = Updated(call[c].dep, s), Allowed(dep[call[c].dep].status, s)
       PROVE  LegalStep
  <2>1. /\ \A e \in Deps \ {call[c].dep} : dep'[e] = dep[e]
        /\ IF dep[call[c].dep].status \in Status
           THEN dep'[call[c].dep].status = s ELSE dep' = dep
    BY <1>11, Facts, UpdateRow
  <2>q. QED  BY <1>11, <2>1
<1>12. ASSUME Write(c) PROVE Fresh' /\ LegalStep
  <2>1. call[c].dep \in Deps /\ call[c].to \in Status  BY <1>12, Facts DEF Write, Knows
  <2>2. Allowed(dep[call[c].dep].status, call[c].to)  BY <1>12 DEF Write, Fresh
  <2>3. dep' = Updated(call[c].dep, call[c].to) /\ Goes(c, "reread")  BY <1>12 DEF Write
  <2>q. QED  BY <1>10, <1>11, <2>1, <2>2, <2>3
<1>13. ASSUME Promote(c) PROVE Fresh' /\ LegalStep
  <2>1. call[c].dep \in Deps /\ "CURRENT" \in Status  BY <1>13, Facts DEF Promote, Knows, Status
  <2>2. Allowed(dep[call[c].dep].status, "CURRENT")  BY <1>13 DEF Promote, Fresh, Allowed
  <2>3. dep' = Updated(call[c].dep, "CURRENT") /\ Goes(c, "reread")  BY <1>13 DEF Promote
  <2>q. QED  BY <1>10, <1>11, <2>1, <2>2, <2>3
<1>14. ASSUME Supersede(c) PROVE Fresh' /\ LegalStep
  <2>1. ASSUME NEW d \in Deps
        PROVE  \/ dep'[d] = dep[d]
               \/ dep[d].status = "CURRENT" /\ dep'[d].status = "OBSOLETE"
    <3>1. dep[d] \in Row  BY Facts
    <3>2. CASE d \in Currents(call[c].target)
      <4>1. dep'[d] = [dep[d] EXCEPT !.status = "OBSOLETE"]  BY <1>14, <3>2 DEF Supersede
      <4>2. dep[d].status = "CURRENT"  BY <3>2 DEF Currents
      <4>q. QED  BY <3>1, <4>1, <4>2 DEF Row
    <3>3. CASE d \notin Currents(call[c].target)
      BY <1>14, <3>3 DEF Supersede
    <3>q. QED  BY <3>2, <3>3
  <2>2. LegalStep  BY <2>1 DEF Allowed
  <2>3. call[c] \in Call  BY Facts
  <2> DEFINE k == [call[c] EXCEPT !.pc = "promote"]
  <2>8. k.pc = "promote" /\ k.dep = call[c].dep  BY <2>3 DEF Call
  <2>9. call' = [call EXCEPT ![c] = k]  BY <1>14 DEF Supersede, Goes
  <2> HIDE DEF k
  <2>4. /\ call'[c].pc = "promote" /\ call'[c].dep = call[c].dep
        /\ \A b \in Callers : b # c => call'[b].pc = "idle"
    BY <2>8, <2>9, OnlyCall
  <2>5. call[c].dep \in Deps /\ dep[call[c].dep].status \in {"DEPLOYING", "HANGING"}
    BY <1>14, Facts DEF Supersede, Knows, Fresh
  <2>6. dep'[call[c].dep].status \in {"DEPLOYING", "HANGING"}
    BY <2>1, <2>5
  <2>7. Fresh'  BY <2>4, <2>6 DEF Fresh
  <2>q. QED  BY <2>2, <2>7
<1>15. ASSUME Reread(c) \/ RereadSuperseded(c) PROVE Fresh' /\ LegalStep
  <2>1. dep' = dep  BY <1>15 DEF Reread, RereadSuperseded
  <2>2. call[c] \in Call  BY Facts
  <2>3. CASE Ends(c)  BY <1>6, <2>1, <2>3
  <2>4. CASE ~Ends(c)
    <3>4. \A b \in Callers :
            call'[b].pc \in {"tell", "reread superseded", "tell superseded", "idle"}
      <4>1. CASE Reread(c)
        <5> DEFINE k1 == [call[c] EXCEPT
                 !.pc = IF call[c].sup = None THEN "tell" ELSE "reread superseded",
                 !.now = dep[call[c].dep].status]
        <5>1. call' = [call EXCEPT ![c] = k1]  BY <2>4, <4>1 DEF Reread
        <5>2. k1.pc \in {"tell", "reread superseded"}  BY <2>2 DEF Call
        <5> HIDE DEF k1
        <5>q. QED  BY <5>1, <5>2, OnlyCall
      <4>2. CASE RereadSuperseded(c)
        <5> DEFINE k2 == [call[c] EXCEPT
                 !.pc = "tell superseded", !.supnow = dep[call[c].sup].status]
        <5>1. call' = [call EXCEPT ![c] = k2]  BY <2>4, <4>2 DEF RereadSuperseded
        <5>2. k2.pc = "tell superseded"  BY <2>2 DEF Call
        <5> HIDE DEF k2
        <5>q. QED  BY <5>1, <5>2, OnlyCall
      <4>q. QED  BY <1>15, <4>1, <4>2
    <3>5. Fresh'  BY <3>4 DEF Fresh
    <3>q. QED  BY <2>1, <3>5
  <2>q. QED  BY <2>3, <2>4
<1>16. ASSUME TellSuperseded(c) \/ Unsent(c) PROVE Fresh' /\ LegalStep
  BY <1>10, <1>16 DEF TellSuperseded, Unsent
<1>17. ASSUME Drop(c) \/ Tell(c) \/ Stops(c) PROVE Fresh' /\ LegalStep
  BY <1>6, <1>17 DEF Drop, Tell, Stops
<1>q. QED
  BY <1>4, <1>5, <1>7, <1>8, <1>9, <1>12, <1>13, <1>14, <1>15, <1>16, <1>17 DEF Steps

LEMMA FreshStep ==
  ASSUME OneAtATime, OneAtATime', Inv, Fresh, [Next]_vars
  PROVE  Fresh' /\ LegalStep
<1>1. CASE UNCHANGED vars
  BY <1>1 DEF vars, Fresh, Stored, LegalStep
<1>2. ASSUME NEW t \in Targets, CreateDeployTarget(t) PROVE Fresh' /\ LegalStep
  BY <1>2 DEF CreateDeployTarget, Fresh, Stored, LegalStep
<1>3. ASSUME NEW c \in Callers, Steps(c)  PROVE Fresh' /\ LegalStep
  BY <1>3, StepIsAlone, FreshCall
<1>q. QED  BY <1>1, <1>2, <1>3, NextSteps

(* Until two requests overlap, all of this holds: one request ends where it *)
(* may, and the next one, of whichever caller, finds the rows as it says.   *)
SoFar == ~overlapped => OneAtATime /\ Single /\ Fresh

LEMMA SoFarStep ==
  ASSUME Inv, SoFar, [Next /\ Watch]_allvars, ~overlapped'
  PROVE  /\ ~overlapped /\ OneAtATime /\ OneAtATime' /\ [Next]_vars
         /\ Single' /\ Fresh' /\ LegalStep
<1>1. ~overlapped /\ OneAtATime /\ OneAtATime' /\ [Next]_vars
  <2>1. CASE Next /\ Watch
    BY <2>1 DEF Watch, SoFar
  <2>2. CASE UNCHANGED allvars
    <3>1. UNCHANGED vars /\ ~overlapped  BY <2>2 DEF allvars
    <3>2. OneAtATime  BY <3>1 DEF SoFar
    <3>q. QED  BY <3>1, <3>2 DEF OneAtATime, vars
  <2>q. QED  BY <2>1, <2>2
<1>q. QED  BY <1>1, SingleStep, FreshStep DEF SoFar

LEMMA SoFarInvariant == Spec => []SoFar
<1>1. Init => SoFar
  BY DEF Init, Idle, SoFar, OneAtATime, Single, Fresh, OneCurrent, Currents
<1>2. Inv /\ SoFar /\ [Next /\ Watch]_allvars => SoFar'
  BY SoFarStep DEF SoFar
<1>q. QED  BY <1>1, <1>2, DeploymentsInvariant, PTL DEF Spec

(* Served one request at a time, a target has one CURRENT deployment,       *)
(* whatever is cut short between its UPDATEs.                               *)
THEOREM OneAtATimeOneCurrent == Spec => []AloneOneCurrent
<1>1. SoFar => AloneOneCurrent
  BY DEF SoFar, Single, AloneOneCurrent
<1>q. QED  BY <1>1, SoFarInvariant, PTL

(* Served one request at a time, a deployment only moves along the state    *)
(* machine of allowed_deployment_transition.                                *)
THEOREM OneAtATimeStepsLegal == Spec => AloneStepsLegal
<1>1. Inv /\ SoFar /\ [Next /\ Watch]_allvars => [~overlapped' => LegalStep]_allvars
  BY SoFarStep
<1>q. QED  BY <1>1, SoFarInvariant, DeploymentsInvariant, PTL DEF Spec, AloneStepsLegal

-----------------------------------------------------------------------------
(* Requests one at a time: every change of a row is told, in order.         *)

(* What the event of a row d said last, with a call of c under way: a row   *)
(* that changed is behind until its event is told.                          *)
Behind == {"reread", "reread superseded", "tell superseded", "tell"}
Passed == {"promote", "reread", "reread superseded", "tell superseded"}

Due(c, d) ==
    IF call[c].pc \in Behind /\ d = call[c].dep THEN call[c].prev
    ELSE IF call[c].pc \in Passed /\ d = call[c].sup THEN "CURRENT"
    ELSE dep[d].status

(* What the one call remembers of the rows is still so. *)
Remembers(c) ==
    LET k == call[c] IN
    /\ k.pc \in {"peek", "check", "write", "supersede", "promote"} =>
         k.prev = dep[k.dep].status /\ k.target = dep[k.dep].target
    /\ k.pc \in {"peek", "check", "write", "supersede", "promote"} \cup Behind => Stored(k.dep)
    /\ k.pc = "peek" => k.to = "CURRENT"
    /\ k.pc \in {"peek", "write"} => k.sup = None
    /\ k.pc = "check" /\ k.to # "CURRENT" => k.sup = None
    /\ k.pc = "supersede" \/ (k.pc = "check" /\ k.to = "CURRENT") =>
         \A d \in Deps : d \in Currents(k.target) <=> d = k.sup
    /\ k.pc \in Passed /\ k.sup # None => Stored(k.sup) /\ k.sup # k.dep
    /\ k.pc \in {"reread superseded", "tell superseded"} => k.sup # None
    /\ k.pc \in Behind \ {"reread"} => k.now = dep[k.dep].status
    /\ k.pc = "tell superseded" => k.supnow = dep[k.sup].status

Heard(d) ==
    /\ ~told[d].broken
    /\ dep[d].status = "absent" => told[d].last = None
    /\ Stored(d) => \E c \in Callers : /\ told[d].last = Due(c, d)
                                       /\ \A b \in Callers : b # c => call[b].pc = "idle"

Story == faults = 0 => (\A d \in Deps : Heard(d)) /\ (\A c \in Callers : Remembers(c))

(* Seen from the caller whose step it is, and after it.                     *)
LEMMA HeardOf ==
  ASSUME NEW c \in Callers, Alone(c), NEW d \in Deps, Heard(d), Stored(d)
  PROVE  told[d].last = Due(c, d)
<1>1. PICK b \in Callers : /\ told[d].last = Due(b, d)
                           /\ \A a \in Callers : a # b => call[a].pc = "idle"
  BY DEF Heard
<1>2. CASE b # c
  <2>1. call[b].pc = "idle" /\ call[c].pc = "idle"  BY <1>1, <1>2 DEF Alone
  <2>2. Due(b, d) = Due(c, d)  BY <2>1 DEF Due, Behind, Passed
  <2>q. QED  BY <1>1, <2>2
<1>q. QED  BY <1>1, <1>2

LEMMA HeardNext ==
  ASSUME NEW c \in Callers, Alone(c), NEW d \in Deps, ~told'[d].broken,
         dep'[d].status = "absent" => told'[d].last = None,
         Stored(d)' => told'[d].last = Due(c, d)'
  PROVE  Heard(d)'
<1>1. \A b \in Callers : b # c => call'[b].pc = "idle"  BY DEF Alone
<1>q. QED  BY <1>1 DEF Heard

LEMMA AllRemember ==
  ASSUME NEW c \in Callers, Alone(c), Remembers(c)'
  PROVE  \A b \in Callers : Remembers(b)'
<1>1. ASSUME NEW b \in Callers, b # c  PROVE Remembers(b)'
  <2>1. call'[b].pc = "idle"  BY <1>1 DEF Alone
  <2>q. QED  BY <2>1 DEF Remembers, Behind, Passed
<1>q. QED  BY <1>1

(* A row that no step tells of keeps what is due for it. *)
LEMMA StoryKept ==
  ASSUME NEW c \in Callers, Alone(c), Story, faults = 0, told' = told,
         \A d \in Deps : /\ Stored(d)' => Stored(d) /\ Due(c, d)' = Due(c, d)
                         /\ dep'[d].status = "absent" => dep[d].status = "absent",
         Remembers(c)'
  PROVE  Story'
<1>1. ASSUME NEW d \in Deps  PROVE Heard(d)'
  <2>1. Heard(d)  BY DEF Story
  <2>2. ASSUME Stored(d)'  PROVE told'[d].last = Due(c, d)'
    <3>1. Stored(d) /\ Due(c, d)' = Due(c, d)  BY <2>2
    <3>2. told[d].last = Due(c, d)  BY <2>1, <3>1, HeardOf
    <3>q. QED  BY <3>1, <3>2
  <2>3. ~told'[d].broken /\ (dep'[d].status = "absent" => told'[d].last = None)
    BY <2>1 DEF Heard
  <2>q. QED  BY <2>2, <2>3, HeardNext
<1>q. QED  BY <1>1, AllRemember DEF Story

LEMMA NewCall ==
  ASSUME NEW c \in Callers, Inv
  PROVE  /\ \A k : call' = [call EXCEPT ![c] = k] => call'[c] = k
         /\ \A n : Goes(c, n) =>
              /\ call'[c].pc = n
              /\ \A f \in {"dep", "target", "to", "prev", "sup", "now", "supnow"} :
                   call'[c][f] = call[c][f]
         /\ Ends(c) => call'[c] = Idle
<1>1. call \in [Callers -> Call] /\ call[c] \in Call  BY DEF Inv, StateOK
<1>2. ASSUME NEW n, Goes(c, n)
      PROVE  /\ call'[c].pc = n
             /\ \A f \in {"dep", "target", "to", "prev", "sup", "now", "supnow"} :
                  call'[c][f] = call[c][f]
  <2>1. call'[c] = [call[c] EXCEPT !.pc = n]  BY <1>1, <1>2 DEF Goes
  <2>q. QED  BY <1>1, <2>1 DEF Call
<1>q. QED  BY <1>1, <1>2 DEF Ends

(* Nothing is due while a call has written nothing. *)
LEMMA QuietMove ==
  ASSUME NEW c \in Callers, Alone(c), Story, faults = 0, told' = told, dep' = dep,
         call[c].pc \notin Behind \cup Passed, call'[c].pc \notin Behind \cup Passed,
         Remembers(c)'
  PROVE  Story'
<1>1. \A d \in Deps : Due(c, d)' = Due(c, d)  BY DEF Due
<1>2. \A d \in Deps : Stored(d)' <=> Stored(d)  BY DEF Stored
<1>q. QED  BY <1>1, <1>2, StoryKept

LEMMA QuietStory ==
  ASSUME Inv, Single, Story, faults = 0, NEW c \in Callers, Alone(c),
         \/ \E d \in Deps, s \in Status : TransitionDeployment(c, d, s)
         \/ Drop(c) \/ Peek(c) \/ Check(c)
  PROVE  Story'
<1>1. Idle.pc = "idle"  BY DEF Idle
<1>2. ASSUME Ends(c)  PROVE Remembers(c)' /\ call'[c].pc = "idle"
  <2>1. call'[c].pc = "idle"  BY <1>1, <1>2, NewCall
  <2>q. QED  BY <2>1 DEF Remembers, Behind, Passed
<1>3. CASE Drop(c)
  BY <1>2, <1>3, QuietMove DEF Drop, Behind, Passed
<1>4. ASSUME NEW d \in Deps, NEW s \in Status, TransitionDeployment(c, d, s)
      PROVE  Story'
  <2>1. call'[c] = [Idle EXCEPT !.pc = IF s = "CURRENT" THEN "peek" ELSE "check",
                  !.dep = d, !.target = dep[d].target, !.to = s, !.prev = dep[d].status]
    BY <1>4 DEF TransitionDeployment, Inv, StateOK
  <2>2. /\ call'[c].pc = IF s = "CURRENT" THEN "peek" ELSE "check"
        /\ call'[c].dep = d /\ call'[c].target = dep[d].target /\ call'[c].to = s
        /\ call'[c].prev = dep[d].status /\ call'[c].sup = None
    BY <2>1 DEF Idle
  <2>3. Stored(d)' /\ dep' = dep /\ told' = told /\ call[c].pc = "idle"
    BY <1>4 DEF TransitionDeployment, Stored
  <2>4. Remembers(c)'  BY <2>2, <2>3 DEF Remembers, Behind, Passed
  <2>q. QED  BY <2>2, <2>3, <2>4, QuietMove DEF Behind, Passed
<1>5. CASE Peek(c)
  <2>1. PICK s \in Currents(call[c].target) \cup {None} :
          /\ s = None => Currents(call[c].target) = {}
          /\ call' = [call EXCEPT ![c] = [@ EXCEPT !.pc = "check", !.sup = s]]
    BY <1>5 DEF Peek
  <2>2. call[c] \in Call /\ call \in [Callers -> Call]  BY DEF Inv, StateOK
  <2>3. call'[c] = [call[c] EXCEPT !.pc = "check", !.sup = s]
    BY <2>1, <2>2
  <2>4. /\ call'[c].pc = "check" /\ call'[c].sup = s /\ call'[c].dep = call[c].dep
        /\ call'[c].target = call[c].target /\ call'[c].to = call[c].to
        /\ call'[c].prev = call[c].prev
    BY <2>2, <2>3 DEF Call
  <2>5. dep' = dep /\ told' = told /\ call[c].pc = "peek"  BY <1>5 DEF Peek
  <2>6. PICK t \in Targets : t = call[c].target  BY <2>5, Facts DEF Knows
  <2>7. \A d \in Deps : d \in Currents(t) <=> d = s
    <3>1. \A d, e \in Currents(t) : d = e
      BY <2>6 DEF Single, OneCurrent
    <3>2. Currents(t) \subseteq Deps  BY DEF Currents
    <3>q. QED  BY <2>1, <2>6, <3>1, <3>2, NoneAssumption
  <2>8. \A d \in Deps : d \in Currents(t)' <=> d = s  BY <2>5, <2>7 DEF Currents
  <2>9. Remembers(c)
    BY DEF Story
  <2>10. /\ call[c].prev = dep[call[c].dep].status /\ call[c].target = dep[call[c].dep].target
         /\ Stored(call[c].dep) /\ call[c].to = "CURRENT"
    BY <2>5, <2>9 DEF Remembers
  <2>11. Remembers(c)'
    BY <2>4, <2>5, <2>6, <2>8, <2>10 DEF Remembers, Behind, Passed, Stored, Currents
  <2>q. QED  BY <2>4, <2>5, <2>11, QuietMove DEF Behind, Passed
<1>6. CASE Check(c)
  <2>1. dep' = dep /\ told' = told /\ call[c].pc = "check"  BY <1>6 DEF Check
  <2>2. CASE Ends(c)
    BY <1>2, <2>1, <2>2, QuietMove DEF Behind, Passed
  <2>3. CASE Goes(c, IF call[c].to = "CURRENT" THEN "supersede" ELSE "write")
    <3>1. /\ call'[c].pc = IF call[c].to = "CURRENT" THEN "supersede" ELSE "write"
          /\ call'[c].sup = call[c].sup /\ call'[c].dep = call[c].dep
          /\ call'[c].target = call[c].target /\ call'[c].to = call[c].to
          /\ call'[c].prev = call[c].prev
      BY <2>3, NewCall
    <3>2. Remembers(c)  BY DEF Story
    <3>3. Remembers(c)'
      BY <2>1, <3>1, <3>2 DEF Remembers, Behind, Passed, Stored, Currents
    <3>q. QED  BY <2>1, <3>1, <3>3, QuietMove DEF Behind, Passed
  <2>q. QED  BY <1>6, <2>2, <2>3 DEF Check
<1>q. QED  BY <1>3, <1>4, <1>5, <1>6

(* A statement writes the row of the call, or those it supersedes. *)
LEMMA WriteStory ==
  ASSUME Inv, Fresh, Story, faults = 0, NEW c \in Callers, Alone(c),
         Write(c) \/ Promote(c)
  PROVE  Story'
<1>1. PICK e \in Deps : e = call[c].dep
  BY Facts DEF Write, Promote, Knows
<1>2. PICK s \in Status : dep' = Updated(e, s)
  BY <1>1, Facts DEF Write, Promote, Knows, Status
<1>3. told' = told /\ Goes(c, "reread") /\ call[c].pc \in {"write", "promote"}
  BY DEF Write, Promote
<1>4. /\ call'[c].pc = "reread" /\ call'[c].dep = e /\ call'[c].sup = call[c].sup
      /\ call'[c].prev = call[c].prev
  BY <1>1, <1>3, NewCall
<1>5. /\ Remembers(c)
      /\ Stored(e) /\ call[c].prev = dep[e].status
  BY <1>1, <1>3 DEF Story, Remembers
<1>6. /\ dep'[e].status = s /\ \A d \in Deps \ {e} : dep'[d] = dep[d]
  BY <1>2, <1>5, Facts, UpdateRow DEF Stored
<1>7. call[c].sup # None => call[c].sup # e /\ Stored(call[c].sup) /\ call[c].pc = "promote"
  BY <1>1, <1>3, <1>5 DEF Remembers, Passed
<1>8. ASSUME NEW d \in Deps
      PROVE  /\ Stored(d)' => Stored(d) /\ Due(c, d)' = Due(c, d)
             /\ dep'[d].status = "absent" => dep[d].status = "absent"
  <2>1. CASE d = e
    <3>1. Due(c, d)' = call[c].prev  BY <1>4, <2>1 DEF Due, Behind
    <3>2. d # call[c].sup  BY <1>7, <2>1, NoneAssumption
    <3>3. Due(c, d) = dep[e].status  BY <1>3, <2>1, <3>2 DEF Due, Behind
    <3>q. QED  BY <1>5, <1>6, <2>1, <3>1, <3>3 DEF Status
  <2>2. CASE d # e
    <3>1. dep'[d] = dep[d]  BY <1>6, <2>2
    <3>2. d = call[c].sup => call[c].pc = "promote"  BY <1>7, NoneAssumption
    <3>3. Due(c, d)' = Due(c, d)
      BY <1>1, <1>3, <1>4, <2>2, <3>1, <3>2 DEF Due, Behind, Passed
    <3>q. QED  BY <3>1, <3>3 DEF Stored
  <2>q. QED  BY <2>1, <2>2
<1>9. Remembers(c)'
  <2>1. call[c].sup # None => Stored(call[c].sup)'
    <3>1. ASSUME call[c].sup # None  PROVE Stored(call[c].sup)'
      <4>1. call[c].sup \in Deps \ {e}  BY <1>7, <3>1, Facts DEF Call
      <4>q. QED  BY <1>3, <1>4, <1>6, <1>7, <3>1, <4>1 DEF Stored, Goes
    <3>q. QED  BY <3>1
  <2>q. QED  BY <1>4, <1>6, <1>7, <2>1 DEF Remembers, Behind, Passed, Stored
<1>q. QED  BY <1>3, <1>8, <1>9, StoryKept

LEMMA SupersedeStory ==
  ASSUME Inv, Fresh, Story, faults = 0, NEW c \in Callers, Alone(c),
         Supersede(c)
  PROVE  Story'
<1>1. PICK e \in Deps : e = call[c].dep
  BY Facts DEF Supersede, Knows
<1>2. PICK t \in Targets : t = call[c].target
  BY Facts DEF Supersede, Knows
<1>3. told' = told /\ Goes(c, "promote") /\ call[c].pc = "supersede"
  BY DEF Supersede
<1>4. /\ call'[c].pc = "promote" /\ call'[c].dep = e /\ call'[c].sup = call[c].sup
      /\ call'[c].prev = call[c].prev /\ call'[c].target = t
  BY <1>1, <1>2, <1>3, NewCall
<1>5. PICK x : x = call[c].sup  OBVIOUS
<1>6. /\ Remembers(c)
      /\ Stored(e) /\ call[c].prev = dep[e].status /\ t = dep[e].target
      /\ \A d \in Deps : d \in Currents(t) <=> d = x
  BY <1>1, <1>2, <1>3, <1>5 DEF Story, Remembers
<1>7. dep[e].status # "CURRENT"  BY <1>1, <1>3 DEF Fresh
<1>8. e # x  BY <1>6, <1>7 DEF Currents
<1>9. ASSUME NEW d \in Deps
      PROVE  IF d = x THEN /\ dep'[d].status = "OBSOLETE" /\ dep'[d].target = dep[d].target
                           /\ dep[d].status = "CURRENT"
                      ELSE dep'[d] = dep[d]
  <2>1. dep'[d] = IF d \in Currents(t) THEN [dep[d] EXCEPT !.status = "OBSOLETE"] ELSE dep[d]
    BY <1>2 DEF Supersede
  <2>2. dep[d] \in Row  BY Facts
  <2>3. d = x => dep[d].status = "CURRENT"  BY <1>6 DEF Currents
  <2>4. CASE d = x
    <3>1. dep'[d] = [dep[d] EXCEPT !.status = "OBSOLETE"]  BY <1>6, <2>1, <2>4
    <3>q. QED  BY <2>2, <2>3, <2>4, <3>1 DEF Row
  <2>5. CASE d # x  BY <1>6, <2>1, <2>5
  <2>q. QED  BY <2>4, <2>5
<1>10. ASSUME NEW d \in Deps
      PROVE  /\ Stored(d)' => Stored(d) /\ Due(c, d)' = Due(c, d)
             /\ dep'[d].status = "absent" => dep[d].status = "absent"
  <2>1. Due(c, d) = dep[d].status  BY <1>3 DEF Due, Behind, Passed
  <2>2. Due(c, d)' = IF d = x THEN "CURRENT" ELSE dep'[d].status
    BY <1>4, <1>5 DEF Due, Behind, Passed
  <2>q. QED  BY <1>9, <2>1, <2>2 DEF Stored, Status
<1>11. Remembers(c)'
  <2>1. x # None => Stored(x)'
    <3>1. x \in Deps \cup {None}  BY <1>5, Facts DEF Call
    <3>q. QED  BY <1>9, <3>1 DEF Stored, Status
  <2>2. dep'[e] = dep[e]  BY <1>8, <1>9
  <2>q. QED  BY <1>4, <1>5, <1>6, <1>8, <2>1, <2>2 DEF Remembers, Behind, Passed, Stored
<1>q. QED  BY <1>3, <1>10, <1>11, StoryKept

LEMMA RereadStory ==
  ASSUME Inv, Story, faults = 0, NEW c \in Callers, Alone(c),
         Reread(c) \/ RereadSuperseded(c)
  PROVE  Story'
<1>1. dep' = dep /\ told' = told /\ call[c].pc \in {"reread", "reread superseded"}
  BY DEF Reread, RereadSuperseded
<1>2. call \in [Callers -> Call] /\ call[c] \in Call  BY DEF Inv, StateOK
<1>3. Remembers(c)  BY DEF Story
<1>4. /\ call'[c].dep = call[c].dep /\ call'[c].sup = call[c].sup /\ call'[c].prev = call[c].prev
      /\ Remembers(c)'
      /\ call'[c].pc \in Behind /\ (call'[c].pc \in Passed \/ call[c].sup = None)
  <2>1. CASE Reread(c)
    <3>1. call' = [call EXCEPT ![c] = [@ EXCEPT
                    !.pc = IF call[c].sup = None THEN "tell" ELSE "reread superseded",
                    !.now = dep[call[c].dep].status]]
      BY <1>3, <2>1 DEF Reread, Remembers, Behind
    <3>2. call'[c] = [call[c] EXCEPT
                    !.pc = IF call[c].sup = None THEN "tell" ELSE "reread superseded",
                    !.now = dep[call[c].dep].status]
      BY <1>2, <3>1
    <3>3. /\ call'[c].dep = call[c].dep /\ call'[c].sup = call[c].sup
          /\ call'[c].prev = call[c].prev /\ call'[c].now = dep[call[c].dep].status
          /\ call'[c].pc = IF call[c].sup = None THEN "tell" ELSE "reread superseded"
      BY <1>2, <3>2 DEF Call
    <3>4. call[c].pc = "reread"  BY <2>1 DEF Reread
    <3>5. Remembers(c)'
      BY <1>1, <1>3, <3>3, <3>4 DEF Remembers, Behind, Passed, Stored
    <3>q. QED  BY <3>3, <3>5 DEF Behind, Passed
  <2>2. CASE RereadSuperseded(c)
    <3>1. call' = [call EXCEPT ![c] = [@ EXCEPT
                    !.pc = "tell superseded", !.supnow = dep[call[c].sup].status]]
      BY <1>3, <2>2 DEF RereadSuperseded, Remembers, Behind, Passed
    <3>2. call'[c] = [call[c] EXCEPT
                    !.pc = "tell superseded", !.supnow = dep[call[c].sup].status]
      BY <1>2, <3>1
    <3>3. /\ call'[c].dep = call[c].dep /\ call'[c].sup = call[c].sup
          /\ call'[c].prev = call[c].prev /\ call'[c].now = call[c].now
          /\ call'[c].supnow = dep[call[c].sup].status /\ call'[c].pc = "tell superseded"
      BY <1>2, <3>2 DEF Call
    <3>4. call[c].pc = "reread superseded"  BY <2>2 DEF RereadSuperseded
    <3>5. Remembers(c)'
      BY <1>1, <1>3, <3>3, <3>4 DEF Remembers, Behind, Passed, Stored
    <3>q. QED  BY <3>3, <3>5 DEF Behind, Passed
  <2>q. QED  BY <2>1, <2>2
<1>5. ASSUME NEW d \in Deps  PROVE Due(c, d)' = Due(c, d)
  <2>1. d = call[c].sup => call'[c].pc \in Passed  BY <1>4, NoneAssumption
  <2>q. QED  BY <1>1, <1>4, <2>1 DEF Due, Behind, Passed
<1>q. QED  BY <1>1, <1>4, <1>5, StoryKept DEF Stored

(* The rows of a target go: what is left is as it was. *)
LEMMA DeleteStory ==
  ASSUME Inv, Story, faults = 0, NEW c \in Callers, Alone(c),
         NEW t \in Targets, DeleteDeployTarget(c, t)
  PROVE  Story'
<1>1. call[c].pc = "idle" /\ told' = told  BY DEF DeleteDeployTarget
<1>2. call'[c].pc = "drop"
  <2>1. call'[c] = [Idle EXCEPT !.pc = "drop", !.target = t]
    BY DEF DeleteDeployTarget, Inv, StateOK
  <2>q. QED  BY <2>1 DEF Idle
<1>3. ASSUME NEW d \in Deps
      PROVE  /\ Stored(d)' => Stored(d) /\ dep'[d] = dep[d]
             /\ dep'[d].status = "absent" => dep[d].status = "absent"
  <2>1. dep[d] \in Row  BY Facts
  <2>2. CASE dep'[d] = dep[d]  BY <2>2 DEF Stored
  <2>3. CASE dep'[d] = [dep[d] EXCEPT !.status = "gone"]
    <3>1. dep'[d].status = "gone"  BY <2>1, <2>3 DEF Row
    <3>q. QED  BY <3>1 DEF Stored, Status
  <2>q. QED  BY <2>2, <2>3 DEF DeleteDeployTarget
<1>4. \A d \in Deps : Stored(d)' => Due(c, d)' = Due(c, d)
  BY <1>1, <1>2, <1>3 DEF Due, Behind, Passed
<1>5. Remembers(c)'  BY <1>2 DEF Remembers, Behind, Passed
<1>q. QED  BY <1>1, <1>3, <1>4, <1>5, StoryKept

(* A new row has no event yet: its first one follows nothing. *)
LEMMA ScheduleStory ==
  ASSUME Inv, Story, faults = 0, NEW c \in Callers, Alone(c),
         NEW e \in Deps, NEW t \in Targets, ScheduleDeployment(c, e, t)
  PROVE  Story'
<1>1. call[c].pc = "idle" /\ told' = told /\ dep[e].status = "absent"
  BY DEF ScheduleDeployment
<1>2. call'[c].pc = "tell" /\ call'[c].dep = e /\ call'[c].now = "SCHEDULED"
      /\ call'[c].prev = None
  <2>1. call'[c] = [Idle EXCEPT !.pc = "tell", !.dep = e, !.now = "SCHEDULED"]
    BY DEF ScheduleDeployment, Inv, StateOK
  <2>q. QED  BY <2>1 DEF Idle
<1>3. dep'[e].status = "SCHEDULED" /\ \A d \in Deps \ {e} : dep'[d] = dep[d]
  BY Facts DEF ScheduleDeployment
<1>4. ASSUME NEW d \in Deps  PROVE Heard(d)'
  <2>1. Heard(d)  BY DEF Story
  <2>2. CASE d = e
    <3>1. told'[d].last = None /\ ~told'[d].broken  BY <1>1, <2>1, <2>2 DEF Heard
    <3>2. Due(c, d)' = None  BY <1>2, <2>2 DEF Due, Behind
    <3>q. QED  BY <1>3, <2>2, <3>1, <3>2, HeardNext
  <2>3. CASE d # e
    <3>1. dep'[d] = dep[d]  BY <1>3, <2>3
    <3>2. Due(c, d)' = Due(c, d)
      BY <1>1, <1>2, <2>3, <3>1 DEF Due, Behind, Passed
    <3>3. Stored(d)' => told'[d].last = Due(c, d)'
      BY <1>1, <2>1, <3>1, <3>2, HeardOf DEF Stored
    <3>4. ~told'[d].broken /\ (dep'[d].status = "absent" => told'[d].last = None)
      BY <1>1, <2>1, <3>1 DEF Heard
    <3>q. QED  BY <3>3, <3>4, HeardNext
  <2>q. QED  BY <2>2, <2>3
<1>5. Remembers(c)'
  BY <1>2, <1>3 DEF Remembers, Behind, Passed, Stored, Status
<1>q. QED  BY <1>4, <1>5, AllRemember DEF Story

(* An event says what the row was at its last event and what it is now. *)
LEMMA TellStory ==
  ASSUME Inv, Story, faults = 0, NEW c \in Callers, Alone(c),
         TellSuperseded(c) \/ Tell(c)
  PROVE  Story'
<1>1. Remembers(c)  BY DEF Story
<1>2. dep' = dep /\ told \in [Deps -> Told]  BY Facts DEF TellSuperseded, Tell
<1>3. ASSUME NEW e \in Deps, NEW p, NEW n, Tells(e, p, n), Due(c, e) = p, Stored(e),
             n = dep[e].status, \A d \in Deps : Stored(d) => Due(c, d)' = IF d = e THEN n ELSE Due(c, d)
      PROVE  \A d \in Deps : Heard(d)'
  <2>1. SUFFICES ASSUME NEW d \in Deps  PROVE Heard(d)'
    OBVIOUS
  <2>2. Heard(d)  BY DEF Story
  <2>3. CASE d = e
    <3>1. told[e].last = p  BY <1>3, <2>2, <2>3, HeardOf
    <3>2. told'[e] = [last |-> n, broken |-> told[e].broken \/ told[e].last # p]
      BY <1>2, <1>3 DEF Tells
    <3>3. told'[e].last = n /\ told'[e].broken = (told[e].broken \/ told[e].last # p)
      BY <3>2
    <3>4. ~(told[e].broken \/ told[e].last # p)  BY <2>2, <2>3, <3>1 DEF Heard
    <3>5. ~told'[e].broken  BY <3>3, <3>4
    <3>6. Due(c, e)' = n  BY <1>3
    <3>7. Stored(e)' /\ dep'[e].status # "absent"  BY <1>2, <1>3 DEF Stored, Status
    <3>q. QED  BY <2>3, <3>3, <3>5, <3>6, <3>7, HeardNext
  <2>4. CASE d # e
    <3>1. told'[d] = told[d]  BY <1>2, <1>3, <2>4 DEF Tells
    <3>2. ASSUME Stored(d)'  PROVE told'[d].last = Due(c, d)'
      <4>1. Stored(d)  BY <1>2, <3>2 DEF Stored
      <4>2. told[d].last = Due(c, d)  BY <2>2, <4>1, HeardOf
      <4>q. QED  BY <1>3, <2>4, <3>1, <4>1, <4>2
    <3>3. ~told'[d].broken /\ (dep'[d].status = "absent" => told'[d].last = None)
      BY <1>2, <2>2, <3>1 DEF Heard
    <3>q. QED  BY <3>2, <3>3, HeardNext
  <2>q. QED  BY <2>3, <2>4
<1>4. CASE TellSuperseded(c)
  <2>1. /\ call[c].pc = "tell superseded" /\ Goes(c, "tell")
        /\ Tells(call[c].sup, "CURRENT", call[c].supnow)
    BY <1>4 DEF TellSuperseded
  <2>2. PICK e \in Deps : e = call[c].sup  BY <2>1, Facts DEF Knows
  <2>3. /\ e # call[c].dep /\ Stored(e) /\ call[c].supnow = dep[e].status
        /\ Stored(call[c].dep) /\ call[c].now = dep[call[c].dep].status
    BY <1>1, <2>1, <2>2, NoneAssumption DEF Remembers, Behind, Passed
  <2>4. /\ call'[c].pc = "tell" /\ call'[c].dep = call[c].dep /\ call'[c].prev = call[c].prev
        /\ call'[c].now = call[c].now
    BY <2>1, NewCall
  <2>5. Due(c, e) = "CURRENT"  BY <2>1, <2>2, <2>3 DEF Due, Behind, Passed
  <2>6. \A d \in Deps : Due(c, d)' = IF d = e THEN dep[e].status ELSE Due(c, d)
    BY <1>2, <2>1, <2>2, <2>3, <2>4 DEF Due, Behind, Passed
  <2>7. Tells(e, "CURRENT", dep[e].status)  BY <2>1, <2>2, <2>3
  <2>8. \A d \in Deps : Heard(d)'  BY <1>3, <2>3, <2>5, <2>6, <2>7
  <2>9. Remembers(c)'
    BY <1>2, <2>3, <2>4 DEF Remembers, Behind, Passed, Stored
  <2>q. QED  BY <2>8, <2>9, AllRemember DEF Story
<1>5. CASE Tell(c)
  <2>1. /\ call[c].pc = "tell" /\ Ends(c) /\ Tells(call[c].dep, call[c].prev, call[c].now)
    BY <1>5 DEF Tell
  <2>2. PICK e \in Deps : e = call[c].dep  BY <2>1, Facts DEF Knows
  <2>3. Stored(e) /\ call[c].now = dep[e].status
    BY <1>1, <2>1, <2>2 DEF Remembers, Behind
  <2>4. call'[c].pc = "idle"  BY <2>1, NewCall DEF Idle
  <2>5. Due(c, e) = call[c].prev  BY <2>1, <2>2 DEF Due, Behind
  <2>6. \A d \in Deps : Due(c, d)' = IF d = e THEN dep[e].status ELSE Due(c, d)
    BY <1>2, <2>1, <2>2, <2>4 DEF Due, Behind, Passed
  <2>7. Tells(e, call[c].prev, dep[e].status)  BY <2>1, <2>2, <2>3
  <2>8. \A d \in Deps : Heard(d)'  BY <1>3, <2>3, <2>5, <2>6, <2>7
  <2>9. Remembers(c)'  BY <2>4 DEF Remembers, Behind, Passed
  <2>q. QED  BY <2>8, <2>9, AllRemember DEF Story
<1>q. QED  BY <1>4, <1>5

LEMMA StoryStep ==
  ASSUME OneAtATime, OneAtATime', Inv, Single, Fresh, Story, [Next]_vars
  PROVE  Story'
<1>1. CASE faults' # 0  BY <1>1 DEF Story
<1>2. CASE faults' = 0
  <2>1. CASE UNCHANGED vars \/ \E t \in Targets : CreateDeployTarget(t)
    <3>1. UNCHANGED <<dep, told, call, faults>>  BY <2>1 DEF vars, CreateDeployTarget
    <3>2. (\A d \in Deps : Heard(d)) /\ \A c \in Callers : Remembers(c)
      BY <1>2, <3>1 DEF Story
    <3>3. \A c \in Callers, d \in Deps : Due(c, d)' = Due(c, d)  BY <3>1 DEF Due
    <3>4. \A d \in Deps : Heard(d)'  BY <3>1, <3>2, <3>3 DEF Heard, Stored
    <3>5. \A c \in Callers : Remembers(c)'
      BY <3>1, <3>2 DEF Remembers, Stored, Currents
    <3>q. QED  BY <3>4, <3>5 DEF Story
  <2>2. CASE ~(UNCHANGED vars \/ \E t \in Targets : CreateDeployTarget(t))
    <3>1. PICK c \in Callers : Steps(c)  BY <2>2, NextSteps
    <3>4. Alone(c)  BY <3>1, StepIsAlone
    <3>2. ~(Stops(c) \/ Unsent(c))
      <4>1. faults \in Nat  BY Facts
      <4>2. Stops(c) \/ Unsent(c) => faults' = faults + 1  BY DEF Stops, Unsent
      <4>q. QED  BY <1>2, <4>1, <4>2
    <3>3. faults = 0
      BY <1>2, <3>1, <3>2
      DEF Steps, DeleteDeployTarget, ScheduleDeployment, TransitionDeployment, Drop, Peek, Check, Write,
          Supersede, Promote, Reread, RereadSuperseded, TellSuperseded, Tell
    <3>q. QED
      BY <3>1, <3>2, <3>3, <3>4, DeleteStory, ScheduleStory, QuietStory, WriteStory, SupersedeStory,
         RereadStory, TellStory
      DEF Steps
  <2>q. QED  BY <2>1, <2>2
<1>q. QED  BY <1>1, <1>2

StorySoFar == ~overlapped => Story

(* Served one request at a time, every change of a deployment's status is   *)
(* announced in order, the superseded row's too, unless a call was cut      *)
(* short (the two events of transition_deployment).                         *)
THEOREM OneAtATimeAnnounced == Spec => []AloneAnnounced
<1>1. Init => StorySoFar
  <2>1. SUFFICES ASSUME Init  PROVE Story
    BY DEF StorySoFar
  <2>2. \A d \in Deps : Heard(d)  BY <2>1 DEF Init, Heard, Stored, Status
  <2>3. \A c \in Callers : Remembers(c)  BY <2>1 DEF Init, Idle, Remembers, Behind, Passed
  <2>q. QED  BY <2>2, <2>3 DEF Story
<1>2. Inv /\ SoFar /\ StorySoFar /\ [Next /\ Watch]_allvars => StorySoFar'
  <2>1. SUFFICES ASSUME Inv, SoFar, StorySoFar, [Next /\ Watch]_allvars, ~overlapped'
                 PROVE  Story'
    BY DEF StorySoFar
  <2>2. ~overlapped /\ OneAtATime /\ OneAtATime' /\ [Next]_vars  BY <2>1, SoFarStep
  <2>q. QED  BY <2>1, <2>2, StoryStep DEF SoFar, StorySoFar
<1>3. StorySoFar => AloneAnnounced
  <2>1. SUFFICES ASSUME Story, faults = 0, NEW d \in Deps, Stored(d)
                 PROVE  /\ ~told[d].broken
                        /\ (\A c \in Callers : call[c].pc = "idle") => told[d].last = dep[d].status
    BY DEF StorySoFar, AloneAnnounced, Announced
  <2>2. Heard(d)  BY <2>1 DEF Story
  <2>3. ASSUME \A c \in Callers : call[c].pc = "idle"  PROVE told[d].last = dep[d].status
    <3>1. PICK c \in Callers : told[d].last = Due(c, d)  BY <2>1, <2>2 DEF Heard
    <3>q. QED  BY <2>3, <3>1 DEF Due, Behind, Passed
  <2>q. QED  BY <2>2, <2>3 DEF Heard
<1>q. QED  BY <1>1, <1>2, <1>3, SoFarInvariant, DeploymentsInvariant, PTL DEF Spec
=============================================================================
