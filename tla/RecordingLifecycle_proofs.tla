---------------------- MODULE RecordingLifecycle_proofs ----------------------
(***************************************************************************)
(* Proofs about RecordingLifecycle, for any sets of meetings, recordings   *)
(* and callers.                                                            *)
(***************************************************************************)
EXTENDS RecordingLifecycle, TLAPS

-----------------------------------------------------------------------------
(* The history variable overlapped only watches the program's steps.        *)
LEMMA ProgramSteps == Spec => Init /\ [][Next]_vars
<1>1. [Next /\ Watch]_allvars => [Next]_vars
  BY DEF allvars
<1>q. QED  BY <1>1, PTL DEF Spec

-----------------------------------------------------------------------------
(* Type correctness, by the parts of StateOK.                               *)

HasRec == StartPCs \cup StopPCs \cup {"stop release", "stop begin"}

RowsType == row \in [Recs -> Row]

(* What StateOK says of the executions of the commands. *)
CallsType ==
    /\ pc \in [Callers -> PCs]
    /\ mtg \in [Callers -> Meetings \cup {None}]
    /\ rec \in [Callers -> Recs \cup {None}]
    /\ req \in [Callers -> {"none", "pending", "done", "refused"}]
    /\ \A c \in Callers : pc[c] \in HasRec => rec[c] \in Recs
    /\ \A c \in Callers : pc[c] \in {"start reserve", "stop read"} => mtg[c] \in Meetings

OtherType ==
    /\ mstate \in [Meetings -> {"open", "archived", "deleted"}]
    /\ stray \subseteq Request
    /\ remote \in [Recs -> {"none", "live", "ended"}]
    /\ armed \subseteq Recs /\ unmarked \subseteq Recs

LEMMA TypeSplit ==
  /\ StateOK <=> RowsType /\ CallsType /\ OtherType
  /\ StateOK' <=> RowsType' /\ CallsType' /\ OtherType'
<1>1. StateOK <=> RowsType /\ CallsType /\ OtherType
  BY DEF StateOK, RowsType, CallsType, OtherType, HasRec
<1>2. StateOK' <=> RowsType' /\ CallsType' /\ OtherType'
  BY DEF StateOK, RowsType, CallsType, OtherType, HasRec
<1> QED BY <1>1, <1>2

LEMMA InitType == Init => StateOK
<1>1. AbsentRow \in Row
  BY DEF AbsentRow, Row, Status, LastError
<1>2. "idle" \in PCs /\ "idle" \notin HasRec
  BY DEF PCs, HasRec, StartPCs, CompPCs, StopPCs
<1> SUFFICES ASSUME Init PROVE RowsType /\ CallsType /\ OtherType
  BY TypeSplit
<1>3. RowsType  BY <1>1 DEF Init, RowsType
<1>4. CallsType
  <2>1. \A c \in Callers : pc[c] = "idle" /\ pc[c] \notin HasRec
    BY <1>2 DEF Init
  <2> QED BY <1>2, <2>1 DEF Init, CallsType
<1>5. OtherType  BY DEF Init, OtherType
<1> QED BY <1>3, <1>4, <1>5

(* What the SET clauses of the statements do to one row. *)
LEMMA RowUpdates ==
  ASSUME NEW t \in Row
  PROVE  /\ \A s \in Status : [t EXCEPT !.status = s] \in Row
         /\ \A e \in LastError : [t EXCEPT !.error = e] \in Row
         /\ [t EXCEPT !.stale = TRUE] \in Row
         /\ \A s \in Status, e \in LastError : [t EXCEPT !.status = s, !.error = e] \in Row
         /\ \A s \in Status : [t EXCEPT !.status = s, !.egress = TRUE] \in Row
         /\ \A s \in Status, m \in Meetings : [t EXCEPT !.meeting = m, !.status = s] \in Row
         /\ \A s \in Status, e \in LastError :
              [t EXCEPT !.status = s, !.error = e, !.attempts = t.attempts + 1] \in Row
<1>1. t.attempts + 1 \in Nat  BY DEF Row
<1> QED BY <1>1 DEF Row

(* An UPDATE of at most one row. *)
LEMMA UpdateOne ==
  ASSUME RowsType, NEW r \in Recs, NEW t \in Row,
         row' = row \/ row' = [row EXCEPT ![r] = t]
  PROVE  RowsType'
  BY DEF RowsType

LEMMA Literals ==
  /\ Active \subseteq Status
  /\ {"starting", "recording", "stopping", "stopped", "failed", "deleted"} \subseteq Status
  /\ {"start in flight", "stop in flight", "unconfirmed", "null", "abandoned"} \subseteq LastError
  BY DEF Active, Status, LastError, Unconfirmed

LEMMA ExpireRows ==
  ASSUME RowsType, ExpireStale  PROVE RowsType'
<1>1. \A r \in Recs : [row[r] EXCEPT !.status = "failed", !.error = "abandoned"] \in Row
  BY RowUpdates, Literals DEF RowsType
<1> QED BY <1>1 DEF RowsType, ExpireStale

LEMMA FailRows ==
  ASSUME RowsType, NEW r \in Recs, MarkFailed(r)  PROVE RowsType'
<1>1. [row[r] EXCEPT !.status = "failed"] \in Row
  BY RowUpdates, Literals DEF RowsType
<1> QED BY <1>1, UpdateOne DEF MarkFailed

LEMMA ErrorRows ==
  ASSUME RowsType, NEW r \in Recs, MarkUnconfirmed(r) \/ MarkStopFailed(r)  PROVE RowsType'
<1>1. [row[r] EXCEPT !.error = "unconfirmed"] \in Row
  BY RowUpdates, Literals DEF RowsType
<1> QED BY <1>1, UpdateOne DEF MarkUnconfirmed, MarkStopFailed

(* A command returns, moves on with the recording it has, or starts. *)
LEMMA ReturnCalls ==
  ASSUME CallsType, NEW c \in Callers, Return(c)  PROVE CallsType'
  BY DEF CallsType, Return, HasRec, PCs, StartPCs, CompPCs, StopPCs

LEMMA MoveCalls ==
  ASSUME CallsType, NEW c \in Callers, pc[c] \in HasRec,
         NEW l \in HasRec, Goto(c, l), mtg' = mtg, rec' = rec,
         NEW v \in {"none", "pending", "done", "refused"},
         req' = req \/ req' = [req EXCEPT ![c] = v]
  PROVE  CallsType'
<1>1. HasRec \subseteq PCs
  BY DEF HasRec, PCs
<1>2. \A d \in Callers : pc'[d] \in HasRec => rec[d] \in Recs
  BY DEF CallsType, Goto
<1>3. l \notin {"start reserve", "stop read"}
  BY DEF HasRec, StartPCs, CompPCs, StopPCs
<1>4. \A d \in Callers : pc'[d] \in {"start reserve", "stop read"} => mtg[d] \in Meetings
  BY <1>3 DEF CallsType, Goto
<1> QED BY <1>1, <1>2, <1>4 DEF CallsType, Goto

LEMMA BeginCalls ==
  ASSUME CallsType, NEW c \in Callers, NEW m \in Meetings,
         NEW l \in {"start reserve", "stop read"}, Goto(c, l),
         mtg' = [mtg EXCEPT ![c] = m], rec' = rec, req' = req
  PROVE  CallsType'
<1>1. l \in PCs /\ l \notin HasRec
  BY DEF HasRec, PCs, StartPCs, CompPCs, StopPCs
<1>2. \A d \in Callers : pc'[d] \in HasRec => rec[d] \in Recs
  BY <1>1 DEF CallsType, Goto
<1>3. \A d \in Callers : pc'[d] \in {"start reserve", "stop read"} => mtg'[d] \in Meetings
  BY DEF CallsType, Goto
<1> QED BY <1>1, <1>2, <1>3 DEF CallsType, Goto

LEMMA TakeCalls ==
  ASSUME CallsType, NEW c \in Callers, NEW r \in Recs, NEW l \in HasRec, Goto(c, l),
         rec' = [rec EXCEPT ![c] = r], mtg' = mtg, req' = req
  PROVE  CallsType'
<1>1. HasRec \subseteq PCs
  BY DEF HasRec, PCs
<1>2. \A d \in Callers : pc'[d] \in HasRec => rec'[d] \in Recs
  BY DEF CallsType, Goto
<1>3. l \notin {"start reserve", "stop read"}
  BY DEF HasRec, StartPCs, CompPCs, StopPCs
<1>4. \A d \in Callers : pc'[d] \in {"start reserve", "stop read"} => mtg[d] \in Meetings
  BY <1>3 DEF CallsType, Goto
<1> QED BY <1>1, <1>2, <1>4 DEF CallsType, Goto

LEMMA Waiting == /\ WaitPCs \subseteq HasRec
                 /\ {"start wait", "start mark", "start release", "start hold", "start send",
                      "start arm", "comp send", "comp wait", "comp release", "comp hold",
                      "stop begin", "stop send", "stop wait", "stop mark", "stop fail",
                      "stop release"} \subseteq HasRec
  BY DEF WaitPCs, HasRec, StartPCs, CompPCs, StopPCs

LEMMA SendType ==
  ASSUME StateOK, NEW c \in Callers, NEW from \in HasRec, NEW to \in HasRec,
         Send(c, from, to)
  PROVE  StateOK'
<1>1. CallsType'
  BY TypeSplit, MoveCalls DEF Send
<1> QED BY <1>1, TypeSplit DEF Send, RowsType, OtherType

LEMMA LostType ==
  ASSUME StateOK, NEW c \in Callers  PROVE Lost(c) \subseteq Request
<1>1. CASE pc[c] \in WaitPCs
  <2>1. rec[c] \in Recs
    BY <1>1, TypeSplit, Waiting DEF CallsType
  <2>2. [op |-> Op(c), rec |-> rec[c]] \in Request
    BY <2>1 DEF Request, Op
  <2> QED BY <2>2 DEF Lost
<1> QED BY <1>1 DEF Lost

LEMMA ReceiveType ==
  ASSUME StateOK, NEW c \in Callers, NEW from \in HasRec, NEW to \in HasRec,
         NEW outcome, Receive(c, from, outcome, to)
  PROVE  StateOK'
<1>1. CallsType'
  BY TypeSplit, MoveCalls DEF Receive
<1>2. stray' \subseteq Request
  BY LostType, TypeSplit DEF Receive, OtherType
<1> QED BY <1>1, <1>2, TypeSplit DEF Receive, RowsType, OtherType

LEMMA StartType ==
  ASSUME StateOK, NEW c \in Callers, StartStep(c)
  PROVE  StateOK'
<1> USE TypeSplit, Waiting DEF OtherType
<1>1. ASSUME NEW m \in Meetings, StartExpire(c, m) PROVE StateOK'
  <2>1. CallsType'  BY <1>1, BeginCalls DEF StartExpire
  <2>2. RowsType'  BY <1>1, ExpireRows DEF StartExpire
  <2> QED BY <1>1, <2>1, <2>2 DEF StartExpire
<1>2. CASE StartReserve(c)
  <2>1. CASE Return(c) /\ UNCHANGED row
    BY <1>2, <2>1, ReturnCalls DEF RowsType, StartReserve
  <2>2. CASE ~(Return(c) /\ UNCHANGED row)
    <3>1. PICK r \in Recs :
            /\ row' = [row EXCEPT ![r] = [@ EXCEPT !.meeting = mtg[c], !.status = "starting"]]
            /\ rec' = [rec EXCEPT ![c] = r]
            /\ Goto(c, "start arm") /\ UNCHANGED <<mtg, req>>
      BY <1>2, <2>2 DEF StartReserve
    <3>2. mtg[c] \in Meetings
      BY <1>2 DEF StartReserve, CallsType
    <3>3. [row[r] EXCEPT !.meeting = mtg[c], !.status = "starting"] \in Row
      BY <3>2, RowUpdates, Literals DEF RowsType
    <3>4. RowsType'  BY <3>1, <3>3, UpdateOne
    <3>5. CallsType'  BY <3>1, TakeCalls
    <3> QED BY <1>2, <3>4, <3>5 DEF StartReserve
  <2> QED BY <2>1, <2>2
<1>3. CASE StartArm(c)
  <2>1. rec[c] \in Recs
    BY <1>3 DEF StartArm, CallsType
  <2>2. [row[rec[c]] EXCEPT !.error = "start in flight"] \in Row
    BY <2>1, RowUpdates, Literals DEF RowsType
  <2>3. RowsType'  BY <1>3, <2>1, <2>2, UpdateOne DEF StartArm
  <2>4. CallsType'  BY <1>3, MoveCalls DEF StartArm
  <2>5. armed' \subseteq Recs  BY <1>3, <2>1 DEF StartArm
  <2> QED BY <1>3, <2>3, <2>4, <2>5 DEF StartArm
<1>4. CASE StartSend(c) \/ CompSend(c)
  BY <1>4, SendType DEF StartSend, CompSend
<1>5. CASE StartOk(c) \/ StartRefused(c) \/ StartAmbiguous(c) \/ CompOk(c) \/ CompFailed(c)
  BY <1>5, ReceiveType DEF StartOk, StartRefused, StartAmbiguous, CompOk, CompFailed
<1>6. CASE StartRelease(c) \/ CompRelease(c)
  <2>1. rec[c] \in Recs  BY <1>6 DEF StartRelease, CompRelease, CallsType
  <2>2. CallsType'  BY <1>6, ReturnCalls DEF StartRelease, CompRelease
  <2>3. RowsType'  BY <1>6, <2>1, FailRows DEF StartRelease, CompRelease
  <2> QED BY <1>6, <2>2, <2>3 DEF StartRelease, CompRelease
<1>7. CASE StartHold(c) \/ CompHold(c)
  <2>1. rec[c] \in Recs  BY <1>7 DEF StartHold, CompHold, CallsType
  <2>2. CallsType'  BY <1>7, ReturnCalls DEF StartHold, CompHold
  <2>3. RowsType'  BY <1>7, <2>1, ErrorRows DEF StartHold, CompHold
  <2>4. unmarked' \subseteq Recs  BY <1>7, <2>1 DEF StartHold, CompHold
  <2> QED BY <1>7, <2>2, <2>3, <2>4 DEF StartHold, CompHold
<1>8. CASE StartMark(c)
  <2>1. rec[c] \in Recs  BY <1>8 DEF StartMark, CallsType
  <2>2. CallsType'
    <3>1. "comp send" \in HasRec  BY DEF HasRec, StartPCs, CompPCs
    <3>2. pc[c] \in HasRec  BY <1>8 DEF StartMark, HasRec, StartPCs
    <3>3. CASE Return(c)  BY <3>3, ReturnCalls
    <3>4. CASE Goto(c, "comp send") /\ UNCHANGED <<mtg, rec, req>>
      BY <3>1, <3>2, <3>4, MoveCalls
    <3> QED BY <1>8, <3>3, <3>4 DEF StartMark
  <2>3. [row[rec[c]] EXCEPT !.status = "recording", !.egress = TRUE] \in Row
    BY <2>1, RowUpdates, Literals DEF RowsType
  <2>4. RowsType'  BY <1>8, <2>1, <2>3, UpdateOne DEF StartMark
  <2> QED BY <1>8, <2>2, <2>4 DEF StartMark
<1>9. CASE StartMarkFails(c)
  <2>1. CallsType'  BY <1>9, MoveCalls DEF StartMarkFails
  <2> QED BY <1>9, <2>1 DEF StartMarkFails, RowsType
<1> QED BY <1>1, <1>2, <1>3, <1>4, <1>5, <1>6, <1>7, <1>8, <1>9 DEF StartStep

LEMMA StopType ==
  ASSUME StateOK, NEW c \in Callers, StopStep(c)
  PROVE  StateOK'
<1> USE TypeSplit, Waiting DEF OtherType
<1>1. ASSUME NEW m \in Meetings, StopExpire(c, m) PROVE StateOK'
  <2>1. CallsType'  BY <1>1, BeginCalls DEF StopExpire
  <2>2. RowsType'  BY <1>1, ExpireRows DEF StopExpire
  <2> QED BY <1>1, <2>1, <2>2 DEF StopExpire
<1>2. CASE StopRead(c)
  <2>1. CASE Return(c)
    BY <1>2, <2>1, ReturnCalls DEF StopRead, RowsType
  <2>2. CASE ~Return(c)
    <3>1. PICK r \in Recs :
            /\ rec' = [rec EXCEPT ![c] = r]
            /\ Goto(c, "stop begin") \/ Goto(c, "stop release")
            /\ UNCHANGED <<mtg, req>>
      BY <1>2, <2>2 DEF StopRead, ActiveRecs
    <3>2. CallsType'  BY <3>1, TakeCalls
    <3> QED BY <1>2, <3>2 DEF StopRead, RowsType
  <2> QED BY <2>1, <2>2
<1>3. CASE StopRelease(c)
  <2>1. rec[c] \in Recs  BY <1>3 DEF StopRelease, CallsType
  <2>2. CallsType'  BY <1>3, ReturnCalls DEF StopRelease
  <2>3. RowsType'  BY <1>3, <2>1, FailRows DEF StopRelease
  <2> QED BY <1>3, <2>2, <2>3 DEF StopRelease
<1>4. CASE StopBegin(c)
  <2>1. rec[c] \in Recs  BY <1>4 DEF StopBegin, CallsType
  <2>2. [row[rec[c]] EXCEPT !.status = "stopping", !.error = "stop in flight",
                            !.attempts = row[rec[c]].attempts + 1] \in Row
    BY <2>1, RowUpdates, Literals DEF RowsType
  <2>3. \/ row' = row
        \/ row' = [row EXCEPT ![rec[c]] = [row[rec[c]] EXCEPT !.status = "stopping",
                                  !.error = "stop in flight",
                                  !.attempts = row[rec[c]].attempts + 1]]
    BY <1>4, <2>1 DEF StopBegin
  <2>5. RowsType'  BY <2>1, <2>2, <2>3, UpdateOne
  <2>4. CallsType'
    <3>1. CASE Return(c)  BY <3>1, ReturnCalls
    <3>2. CASE ~Return(c)
      <4>1. Goto(c, "stop send") /\ UNCHANGED <<mtg, rec, req>> /\ pc[c] \in HasRec
        BY <1>4, <3>2 DEF StopBegin
      <4> QED BY <4>1, MoveCalls
    <3> QED BY <3>1, <3>2
  <2> QED BY <1>4, <2>5, <2>4 DEF StopBegin
<1>5. CASE StopSend(c)
  BY <1>5, SendType DEF StopSend
<1>6. CASE StopOk(c) \/ StopFailed(c)
  BY <1>6, ReceiveType DEF StopOk, StopFailed
<1>7. CASE StopFail(c)
  <2>1. rec[c] \in Recs  BY <1>7 DEF StopFail, CallsType
  <2>2. CallsType'  BY <1>7, ReturnCalls DEF StopFail
  <2>3. RowsType'  BY <1>7, <2>1, ErrorRows DEF StopFail
  <2> QED BY <1>7, <2>2, <2>3 DEF StopFail
<1>8. CASE StopMark(c)
  <2>1. rec[c] \in Recs  BY <1>8 DEF StopMark, CallsType
  <2>2. CallsType'  BY <1>8, ReturnCalls DEF StopMark
  <2>3. [row[rec[c]] EXCEPT !.status = "stopped", !.error = "null"] \in Row
    BY <2>1, RowUpdates, Literals DEF RowsType
  <2>4. RowsType'  BY <1>8, <2>1, <2>3, UpdateOne DEF StopMark
  <2> QED BY <1>8, <2>2, <2>4 DEF StopMark
<1> QED BY <1>1, <1>2, <1>3, <1>4, <1>5, <1>6, <1>7, <1>8 DEF StopStep

LEMMA AbandonType ==
  ASSUME StateOK, NEW c \in Callers, Abandon(c)
  PROVE  StateOK'
<1>1. CallsType'
  BY TypeSplit, ReturnCalls DEF Abandon
<1>2. stray' \subseteq Request
  BY LostType, TypeSplit DEF Abandon, OtherType
<1> QED BY <1>1, <1>2, TypeSplit DEF Abandon, RowsType, OtherType

LEMMA EnvironmentType ==
  ASSUME StateOK,
         \/ \E c \in Callers : Serve(c) \/ Refuse(c)
         \/ ServeStray
         \/ \E r \in Recs : TtlElapses(r) \/ JobEnds(r)
         \/ \E m \in Meetings : ArchiveMeeting(m) \/ DeleteMeeting(m)
  PROVE  StateOK'
<1>1. ASSUME NEW op, NEW r \in Recs, Execute(op, r)
      PROVE  remote' \in [Recs -> {"none", "live", "ended"}]
  BY <1>1, TypeSplit DEF Execute, OtherType
<1>2. ASSUME NEW c \in Callers, Serve(c) \/ Refuse(c)  PROVE StateOK'
  <2>1. CallsType'
    BY <1>2, TypeSplit DEF Serve, Refuse, CallsType, HasRec
  <2>2. rec[c] \in Recs
    BY <1>2, TypeSplit, Waiting DEF CallsType, Serve, Refuse
  <2>3. OtherType'
    BY <1>1, <1>2, <2>2, TypeSplit DEF Serve, Refuse, OtherType
  <2> QED BY <1>2, <2>1, <2>3, TypeSplit DEF Serve, Refuse, RowsType
<1>3. CASE ServeStray
  <2>1. PICK q \in stray : /\ Execute(q.op, q.rec) /\ stray' = stray \ {q}
                           /\ UNCHANGED <<row, mstate, caller, armed, unmarked>>
    BY <1>3 DEF ServeStray
  <2>2. q.rec \in Recs
    BY <2>1, TypeSplit DEF OtherType, Request
  <2>3. OtherType'
    BY <1>1, <2>1, <2>2, TypeSplit DEF OtherType
  <2> QED BY <2>1, <2>3, TypeSplit DEF caller, CallsType, RowsType, HasRec
<1>4. ASSUME NEW r \in Recs, TtlElapses(r) \/ JobEnds(r)  PROVE StateOK'
  <2>1. [row[r] EXCEPT !.stale = TRUE] \in Row
    BY TypeSplit, RowUpdates DEF RowsType
  <2>2. RowsType'
    BY <1>4, <2>1, TypeSplit, UpdateOne DEF TtlElapses, JobEnds
  <2> QED BY <1>4, <2>2, TypeSplit DEF TtlElapses, JobEnds, caller, CallsType, OtherType, HasRec
<1>5. ASSUME NEW m \in Meetings, ArchiveMeeting(m) \/ DeleteMeeting(m)  PROVE StateOK'
  <2>1. \A r \in Recs : [row[r] EXCEPT !.status = "deleted"] \in Row
    BY TypeSplit, RowUpdates, Literals DEF RowsType
  <2>2. RowsType'
    BY <1>5, <2>1, TypeSplit DEF ArchiveMeeting, DeleteMeeting, RowsType
  <2>3. OtherType'
    BY <1>5, TypeSplit DEF ArchiveMeeting, DeleteMeeting, OtherType
  <2> QED BY <1>5, <2>2, <2>3, TypeSplit
             DEF ArchiveMeeting, DeleteMeeting, caller, CallsType, HasRec
<1> QED BY <1>2, <1>3, <1>4, <1>5

LEMMA StateCorrect == Spec => []StateOK
<1>1. StateOK /\ UNCHANGED vars => StateOK'
  BY DEF StateOK, vars
<1>2. StateOK /\ Next => StateOK'
  BY StartType, StopType, AbandonType, EnvironmentType DEF Next
<1> QED BY <1>1, <1>2, InitType, ProgramSteps, PTL

Watched == overlapped \in BOOLEAN

(* Every variable keeps its type: each state a command can leave behind is  *)
(* one the schema and the code of calls.rs can represent.                   *)
THEOREM TypeCorrect == Spec => []TypeOK
<1>1. Init => Watched
  BY DEF Init, Watched
<1>2. Watched /\ [Next /\ Watch]_allvars => Watched'
  BY DEF Watched, Watch, allvars
<1>3. TypeOK <=> StateOK /\ Watched
  BY DEF TypeOK, Watched
<1> QED BY <1>1, <1>2, <1>3, StateCorrect, PTL DEF Spec

-----------------------------------------------------------------------------
(* The life cycle of a row and of its job.                                  *)

(* The other executions keep their place while c moves. *)
OthersStay(c) == \A d \in Callers \ {c} : /\ pc'[d] = pc[d] /\ rec'[d] = rec[d]
                                          /\ req'[d] = req[d]

(* c enters neither command half that must be exclusive. *)
NoEntry(c) == /\ pc'[c] \in StartPCs => pc[c] \in StartPCs /\ rec'[c] = rec[c]
              /\ pc'[c] \in StopPCs => pc[c] \in StopPCs /\ rec'[c] = rec[c]

LEMMA KeepsExclusive ==
  ASSUME OneStarter, StopsExclude, NEW c \in Callers, OthersStay(c), NoEntry(c),
         unmarked \subseteq unmarked'
  PROVE  OneStarter' /\ StopsExclude'
<1>1. OneStarter'
  BY DEF OneStarter, OthersStay, NoEntry
<1>2. StopsExclude'
  BY DEF StopsExclude, OthersStay, NoEntry
<1> QED BY <1>1, <1>2

LEMMA OthersByExcept ==
  ASSUME StateOK, NEW c \in Callers, NEW l, NEW r, NEW v,
         pc' = pc \/ pc' = [pc EXCEPT ![c] = l],
         rec' = rec \/ rec' = [rec EXCEPT ![c] = r],
         req' = req \/ req' = [req EXCEPT ![c] = v]
  PROVE  OthersStay(c)
  BY TypeSplit DEF OthersStay, CallsType

LEMMA AfterReturn ==
  ASSUME StateOK, NEW c \in Callers, Return(c)
  PROVE  OthersStay(c) /\ NoEntry(c) /\ CallShape(c)'
<1>1. OthersStay(c)
  BY OthersByExcept DEF Return
<1>2. pc'[c] = "idle"
  BY TypeSplit DEF Return, CallsType
<1>3. NoEntry(c)
  BY <1>2 DEF NoEntry, StartPCs, CompPCs, StopPCs
<1>4. CallShape(c)'
  BY <1>2 DEF CallShape, StartPCs, CompPCs, StopPCs
<1> QED BY <1>1, <1>3, <1>4

(* A step of c that leaves the table and the service alone. *)
LEMMA CallerMove ==
  ASSUME Lifecycle, StateOK', NEW c \in Callers, OthersStay(c), NoEntry(c), CallShape(c)',
         UNCHANGED <<row, remote, armed, unmarked>>
  PROVE  Lifecycle'
<1>1. \A r \in Recs : RowShape(r)'
  BY DEF Lifecycle, RowShape
<1>2. ASSUME NEW d \in Callers, d # c PROVE CallShape(d)'
  BY <1>2 DEF Lifecycle, CallShape, StopInFlight, OthersStay
<1>3. OneStarter' /\ StopsExclude'
  BY KeepsExclusive DEF Lifecycle
<1> QED BY <1>1, <1>2, <1>3 DEF Lifecycle

(* A statement of c that changes row r only, and ends the command or not. *)
LEMMA RowStatement ==
  ASSUME Lifecycle, StateOK', NEW c \in Callers, OthersStay(c), NoEntry(c), CallShape(c)',
         NEW r \in Recs, \A q \in Recs \ {r} : row'[q] = row[q],
         RowShape(r)', remote' = remote, armed' \ {r} = armed \ {r},
         row'[r].egress = row[r].egress,
         row[r].status # "absent" => row'[r].status # "absent",
         unmarked \subseteq unmarked',
         \A d \in Callers \ {c} : pc[d] \in StopPCs /\ rec[d] = r
             => row'[r].status = "deleted" \/ StopInFlight(r)' \/ r \in unmarked'
  PROVE  Lifecycle'
<1>1. ASSUME NEW q \in Recs PROVE RowShape(q)'
  <2>1. CASE q = r  BY <2>1
  <2>2. CASE q # r
    <3>1. row'[q] = row[q] /\ (q \in armed' <=> q \in armed) /\ remote'[q] = remote[q]
      BY <2>2
    <3>2. RowShape(q)  BY DEF Lifecycle
    <3> QED BY <3>1, <3>2 DEF RowShape
  <2> QED BY <2>1, <2>2
<1>2. ASSUME NEW d \in Callers, d # c PROVE CallShape(d)'
  <2>1. pc'[d] = pc[d] /\ rec'[d] = rec[d] /\ req'[d] = req[d] /\ CallShape(d)
    BY <1>2 DEF OthersStay, Lifecycle
  <2>2. CASE rec[d] = r
    BY <1>2, <2>1, <2>2 DEF CallShape
  <2>3. CASE rec[d] # r /\ rec[d] \in Recs
    BY <2>1, <2>3 DEF CallShape, StopInFlight
  <2>4. CASE rec[d] \notin Recs
    <3>1. pc[d] \notin HasRec
      BY <2>4, TypeSplit DEF CallsType, Lifecycle
    <3> QED BY <2>1, <3>1 DEF CallShape, HasRec, StartPCs, CompPCs, StopPCs
  <2> QED BY <2>2, <2>3, <2>4
<1>3. OneStarter' /\ StopsExclude'
  BY KeepsExclusive DEF Lifecycle
<1> QED BY <1>1, <1>2, <1>3 DEF Lifecycle

(* An UPDATE over the table that fails or deletes rows. *)
LEMMA SweepStatement ==
  ASSUME Lifecycle, StateOK', NEW c, c \in Callers \/ UNCHANGED caller,
         \A d \in Callers \ {c} : /\ pc'[d] = pc[d] /\ rec'[d] = rec[d] /\ req'[d] = req[d],
         c \in Callers => NoEntry(c) /\ CallShape(c)',
         UNCHANGED <<remote, armed, unmarked>>,
         \A r \in Recs :
            \/ row'[r] = row[r]
            \/ row'[r] = [row[r] EXCEPT !.status = "deleted"]
            \/ Expired(r) /\ row'[r] = [row[r] EXCEPT !.status = "failed", !.error = "abandoned"],
         \A r \in Recs : row[r].status = "absent" => row'[r] = row[r]
  PROVE  Lifecycle'
<1>1. ASSUME NEW r \in Recs PROVE RowShape(r)'
  <2>1. RowShape(r) /\ row[r] \in Row
    BY TypeSplit DEF Lifecycle, RowsType
  <2>2. CASE row'[r] = row[r]
    BY <2>1, <2>2 DEF RowShape
  <2>3. CASE row'[r] = [row[r] EXCEPT !.status = "deleted"]
    BY <2>1, <2>3 DEF RowShape, Row
  <2>4. CASE Expired(r) /\ row'[r] = [row[r] EXCEPT !.status = "failed", !.error = "abandoned"]
    BY <2>1, <2>4 DEF RowShape, Row, Expired, IsStarting, Unconfirmed
  <2> QED BY <2>2, <2>3, <2>4
<1>2. ASSUME NEW d \in Callers, d # c \/ c \notin Callers PROVE CallShape(d)'
  <2>1. pc'[d] = pc[d] /\ rec'[d] = rec[d] /\ req'[d] = req[d] /\ CallShape(d)
    BY <1>2 DEF Lifecycle
  <2>2. CASE rec[d] \in Recs
    <3>1. row[rec[d]] \in Row
      BY <2>2, TypeSplit DEF RowsType, Lifecycle
    <3>2. /\ row'[rec[d]].egress = row[rec[d]].egress
          /\ row[rec[d]].status # "absent" => row'[rec[d]].status # "absent"
          /\ row[rec[d]].status = "deleted" => row'[rec[d]].status = "deleted"
          /\ row[rec[d]].status = "stopping" =>
                \/ row'[rec[d]].status = "deleted"
                \/ /\ row'[rec[d]].status = "stopping"
                   /\ row'[rec[d]].error = row[rec[d]].error
      BY <2>2, <3>1 DEF Row, Expired, IsStarting
    <3>3. remote' = remote
      OBVIOUS
    <3> QED BY <2>1, <3>2, <3>3 DEF CallShape, StopInFlight
  <2>3. CASE rec[d] \notin Recs
    <3>1. pc[d] \notin HasRec
      BY <2>3, TypeSplit DEF CallsType, Lifecycle
    <3> QED BY <2>1, <3>1 DEF CallShape, HasRec, StartPCs, CompPCs, StopPCs
  <2> QED BY <2>2, <2>3
<1>3. OneStarter' /\ StopsExclude'
  <2>1. CASE c \in Callers
    BY <2>1, KeepsExclusive DEF Lifecycle, OthersStay
  <2>2. CASE UNCHANGED caller
    BY <2>2 DEF Lifecycle, caller, OneStarter, StopsExclude
  <2> QED BY <2>1, <2>2
<1> QED BY <1>1, <1>2, <1>3 DEF Lifecycle

(* expire_stale_lifecycle at the head of either command *)
LEMMA ExpireStep ==
  ASSUME Lifecycle, StateOK', NEW c \in Callers, NEW m \in Meetings,
         StartExpire(c, m) \/ StopExpire(c, m)
  PROVE  Lifecycle'
<1>1. OthersStay(c)
  BY OthersByExcept DEF StartExpire, StopExpire, Goto, Lifecycle
<1>2. pc'[c] \in {"start reserve", "stop read"}
  BY TypeSplit DEF StartExpire, StopExpire, Goto, CallsType, Lifecycle
<1>3. NoEntry(c) /\ CallShape(c)'
  BY <1>2 DEF NoEntry, CallShape, StartPCs, CompPCs, StopPCs
<1>4. ASSUME NEW r \in Recs
      PROVE  \/ row'[r] = row[r]
             \/ /\ Expired(r)
                /\ row'[r] = [row[r] EXCEPT !.status = "failed", !.error = "abandoned"]
  <2>1. ExpireStale
    BY DEF StartExpire, StopExpire
  <2>2. CASE Expired(r)  BY <2>1, <2>2 DEF ExpireStale
  <2>3. CASE ~Expired(r)  BY <2>1, <2>3 DEF ExpireStale
  <2> QED BY <2>2, <2>3
<1>5. \A r \in Recs : row[r].status = "absent" => row'[r] = row[r]
  BY <1>4 DEF Expired, IsStarting
<1> QED BY <1>1, <1>3, <1>4, <1>5, SweepStatement DEF StartExpire, StopExpire, OthersStay

(* The moves of a command that write nothing. *)
LEMMA QuietStep ==
  ASSUME Lifecycle, StateOK', NEW c \in Callers,
         \/ StartSend(c) \/ CompSend(c) \/ StopSend(c)
         \/ StartOk(c) \/ StartRefused(c) \/ StartAmbiguous(c)
         \/ CompOk(c) \/ CompFailed(c) \/ StopOk(c) \/ StopFailed(c)
         \/ StartMarkFails(c)
  PROVE  Lifecycle'
<1> USE DEF StartSend, CompSend, StopSend, StartOk, StartRefused, StartAmbiguous, CompOk,
            CompFailed, StopOk, StopFailed, StartMarkFails
<1>1. OthersStay(c)
  BY OthersByExcept DEF Send, Receive, Goto, Lifecycle
<1>2. UNCHANGED <<row, remote, armed, rec>>
  BY DEF Send, Receive
<1>3. CallShape(c)
  BY DEF Lifecycle
<1>4. NoEntry(c)
  BY <1>2, TypeSplit DEF Send, Receive, Goto, NoEntry, CallsType, Lifecycle, StartPCs, CompPCs, StopPCs
<1>6. unmarked' = unmarked
  BY DEF Send, Receive
<1>5. CallShape(c)'
  <2>1. CASE StartSend(c) \/ CompSend(c) \/ StopSend(c)
    <3>1. req'[c] = "pending" /\ pc'[c] \in {"start wait", "comp wait", "stop wait"}
      BY <2>1, TypeSplit DEF Send, Goto, CallsType, Lifecycle
    <3>2. /\ pc[c] \in StartPCs <=> pc'[c] \in StartPCs
          /\ pc'[c] \in StartPCs \ CompPCs => pc[c] \in StartPCs \ CompPCs
          /\ pc[c] \in StopPCs <=> pc'[c] \in StopPCs
      BY <2>1, TypeSplit DEF Send, Goto, CallsType, Lifecycle, StartPCs, CompPCs, StopPCs
    <3> QED BY <1>2, <1>3, <1>6, <3>1, <3>2 DEF CallShape, StopInFlight
  <2>2. CASE ~(StartSend(c) \/ CompSend(c) \/ StopSend(c))
    <3>1. /\ pc[c] \in StartPCs <=> pc'[c] \in StartPCs
          /\ pc'[c] \in StartPCs \ CompPCs => pc[c] \in StartPCs \ CompPCs
          /\ pc[c] \in StopPCs <=> pc'[c] \in StopPCs
          /\ pc'[c] \notin {"start wait", "stop wait", "stop begin"}
          /\ pc'[c] = "start mark" => pc[c] = "start wait" /\ req[c] = "done"
          /\ pc'[c] = "stop mark" => pc[c] = "stop wait" /\ req[c] = "done"
      BY <2>2, TypeSplit DEF Receive, Goto, CallsType, Lifecycle, StartPCs, CompPCs, StopPCs
    <3> QED BY <1>2, <1>3, <1>6, <3>1 DEF CallShape, StopInFlight
  <2> QED BY <2>1, <2>2
<1> QED BY <1>1, <1>2, <1>4, <1>5, <1>6, CallerMove

LEMMA RecOf ==
  ASSUME Lifecycle, NEW c \in Callers, pc[c] \in HasRec
  PROVE  rec[c] \in Recs /\ row[rec[c]] \in Row
  BY TypeSplit DEF Lifecycle, CallsType, RowsType

(* A statement that stores an error or fails a reservation, then returns. *)
LEMMA MarkStep ==
  ASSUME Lifecycle, StateOK', NEW c \in Callers, Return(c), pc[c] \in HasRec,
         UNCHANGED <<remote, armed>>, unmarked \subseteq unmarked',
         \/ /\ pc[c] \in StartPCs /\ MarkUnconfirmed(rec[c])
            /\ \/ pc[c] \notin CompPCs
               \/ unmarked' = IF StopInFlight(rec[c]) THEN unmarked \cup {rec[c]} ELSE unmarked
         \/ MarkFailed(rec[c])
         \/ pc[c] \in StopPCs /\ MarkStopFailed(rec[c])
         \/ /\ pc[c] = "stop mark"
            /\ row' = IF row[rec[c]].status \in {"recording", "stopping"}
                      THEN [row EXCEPT ![rec[c]] = [@ EXCEPT !.status = "stopped",
                                                             !.error = "null"]] ELSE row
  PROVE  Lifecycle'
<1>0. PICK r \in Recs : r = rec[c]
  BY RecOf
<1>1. r \in Recs /\ row[r] \in Row
  BY <1>0, RecOf
<1>2. OthersStay(c) /\ NoEntry(c) /\ CallShape(c)'
  BY AfterReturn DEF Lifecycle
<1>3. CallShape(c) /\ RowShape(r) /\ row \in [Recs -> Row]
  BY <1>0, <1>1, TypeSplit DEF Lifecycle, RowsType
<1>4. \A q \in Recs \ {r} : row'[q] = row[q]
  BY <1>0, <1>3 DEF MarkUnconfirmed, MarkFailed, MarkStopFailed
<1>5. CASE row' = row
  <2>1. ASSUME NEW d \in Callers \ {c}, pc[d] \in StopPCs, rec[d] = r
        PROVE  row'[r].status = "deleted" \/ StopInFlight(r)' \/ r \in unmarked'
    BY <1>5, <2>1 DEF Lifecycle, CallShape, StopInFlight
  <2>2. RowShape(r)'
    BY <1>3, <1>5 DEF RowShape
  <2> QED BY <1>2, <1>4, <1>5, <2>1, <2>2, RowStatement
<1>6. CASE /\ pc[c] \in StartPCs /\ row' = [row EXCEPT ![r].error = "unconfirmed"]
           /\ \/ pc[c] \notin CompPCs
              \/ unmarked' = IF StopInFlight(r) THEN unmarked \cup {r} ELSE unmarked
  <2>1. row'[r] = [row[r] EXCEPT !.error = "unconfirmed"]
    BY <1>1, <1>3, <1>6
  <2>2. /\ row'[r].status = row[r].status /\ row'[r].egress = row[r].egress
        /\ row'[r].error = "unconfirmed" /\ row'[r].meeting = row[r].meeting
    BY <1>1, <2>1 DEF Row
  <2>3. RowShape(r)'
    BY <1>3, <2>2 DEF RowShape, Unconfirmed
  <2>4. ASSUME NEW d \in Callers \ {c}, pc[d] \in StopPCs, rec[d] = r
        PROVE  row'[r].status = "deleted" \/ r \in unmarked'
    <3>1. CallShape(d)
      BY DEF Lifecycle
    <3> QED BY <1>0, <1>3, <1>6, <2>2, <2>4, <3>1 DEF CallShape
  <2> QED BY <1>1, <1>2, <1>4, <2>2, <2>3, <2>4, RowStatement
<1>7. CASE IsStarting(r) /\ row' = [row EXCEPT ![r].status = "failed"]
  <2>1. row'[r] = [row[r] EXCEPT !.status = "failed"]
    BY <1>1, <1>3, <1>7
  <2>2. /\ row'[r].status = "failed" /\ row'[r].egress = row[r].egress
        /\ row'[r].error = row[r].error
    BY <1>1, <2>1 DEF Row
  <2>3. RowShape(r)'
    BY <1>3, <1>7, <2>2 DEF RowShape, IsStarting
  <2>4. \A d \in Callers \ {c} : pc[d] \in StopPCs => rec[d] # r
    BY <1>3, <1>7 DEF CallShape, RowShape, Lifecycle, IsStarting
  <2> QED BY <1>1, <1>2, <1>4, <2>2, <2>3, <2>4, RowStatement
<1>8. CASE pc[c] \in StopPCs /\ row' = [row EXCEPT ![r].error = "unconfirmed"]
  <2>1. row'[r] = [row[r] EXCEPT !.error = "unconfirmed"]
    BY <1>1, <1>3, <1>8
  <2>2. /\ row'[r].status = row[r].status /\ row'[r].egress = row[r].egress
        /\ row'[r].error = "unconfirmed" /\ row'[r].meeting = row[r].meeting
    BY <1>1, <2>1 DEF Row
  <2>3. RowShape(r)'
    BY <1>3, <2>2 DEF RowShape, Unconfirmed
  <2>4. \A d \in Callers \ {c} : pc[d] \in StopPCs /\ rec[d] = r => r \in unmarked'
    BY <1>0, <1>8 DEF Lifecycle, StopsExclude
  <2> QED BY <1>1, <1>2, <1>4, <2>2, <2>3, <2>4, RowStatement
<1>9. CASE /\ pc[c] = "stop mark"
           /\ row' = [row EXCEPT ![r] = [@ EXCEPT !.status = "stopped", !.error = "null"]]
           /\ row[r].status \in {"recording", "stopping"}
  <2>1. row'[r] = [row[r] EXCEPT !.status = "stopped", !.error = "null"]
    BY <1>1, <1>3, <1>9
  <2>2. /\ row'[r].status = "stopped" /\ row'[r].egress = row[r].egress
        /\ row'[r].error = "null"
    BY <1>1, <2>1 DEF Row
  <2>3. RowShape(r)'
    BY <1>0, <1>3, <1>9, <2>2 DEF RowShape, CallShape
  <2>4. \A d \in Callers \ {c} : pc[d] \in StopPCs /\ rec[d] = r => r \in unmarked'
    BY <1>0, <1>9 DEF Lifecycle, StopsExclude, StopPCs
  <2> QED BY <1>1, <1>2, <1>4, <2>2, <2>3, <2>4, RowStatement
<1> QED BY <1>0, <1>5, <1>6, <1>7, <1>8, <1>9 DEF MarkUnconfirmed, MarkFailed, MarkStopFailed

(* reserve_recording takes an id nobody has. *)
LEMMA ReserveStep ==
  ASSUME Lifecycle, StateOK', NEW c \in Callers, StartReserve(c)
  PROVE  Lifecycle'
<1>1. CASE Return(c) /\ UNCHANGED row
  BY <1>1, AfterReturn, CallerMove DEF StartReserve, Lifecycle
<1>2. CASE ~(Return(c) /\ UNCHANGED row)
  <2>1. PICK r \in Recs :
          /\ row[r].status = "absent"
          /\ row' = [row EXCEPT ![r] = [@ EXCEPT !.meeting = mtg[c], !.status = "starting"]]
          /\ rec' = [rec EXCEPT ![c] = r]
          /\ Goto(c, "start arm") /\ UNCHANGED <<mtg, req, remote, armed, unmarked>>
    BY <1>2 DEF StartReserve
  <2>2. row \in [Recs -> Row] /\ row[r] \in Row /\ RowShape(r)
    BY TypeSplit DEF Lifecycle, RowsType
  <2>3. OthersStay(c) /\ pc'[c] = "start arm" /\ rec'[c] = r
    BY <2>1, OthersByExcept, TypeSplit DEF Goto, Lifecycle, CallsType
  <2>4. \A q \in Recs \ {r} : row'[q] = row[q]
    BY <2>1, <2>2
  <2>5. row'[r] = [row[r] EXCEPT !.meeting = mtg[c], !.status = "starting"]
    BY <2>1, <2>2
  <2>6. /\ row'[r].status = "starting" /\ row'[r].egress = row[r].egress
        /\ row'[r].error = row[r].error
    BY <2>2, <2>5 DEF Row
  <2>7. \A q \in Recs : RowShape(q)'
    BY <2>1, <2>2, <2>4, <2>6 DEF RowShape, Lifecycle
  <2>8. ~row[r].egress
    BY <2>1, <2>2 DEF RowShape
  <2>9. CallShape(c)'
    BY <2>3, <2>6, <2>8 DEF CallShape, StopPCs
  <2>10. ASSUME NEW d \in Callers, d # c, pc[d] \in StartPCs \cup StopPCs \cup {"stop begin"}
         PROVE  rec[d] # r /\ rec[d] \in Recs
    <3>1. CallShape(d) /\ rec[d] \in Recs
      BY <2>10, TypeSplit DEF Lifecycle, CallsType, HasRec
    <3> QED BY <2>1, <2>8, <2>10, <3>1 DEF CallShape
  <2>11. ASSUME NEW d \in Callers, d # c PROVE CallShape(d)'
    <3>1. CallShape(d) /\ pc'[d] = pc[d] /\ rec'[d] = rec[d] /\ req'[d] = req[d]
      BY <2>3, <2>11 DEF Lifecycle, OthersStay
    <3>2. CASE pc[d] \in StartPCs \cup StopPCs \cup {"stop begin"}
      <4>1. row'[rec[d]] = row[rec[d]]
        BY <2>4, <2>10, <2>11, <3>2
      <4>2. remote' = remote /\ unmarked' = unmarked
        BY <2>1
      <4>3. StopInFlight(rec[d])' <=> StopInFlight(rec[d])
        BY <3>1, <4>1 DEF StopInFlight
      <4> QED BY <3>1, <4>1, <4>2, <4>3 DEF CallShape
    <3>3. CASE pc[d] \notin StartPCs \cup StopPCs \cup {"stop begin"}
      BY <3>1, <3>3 DEF CallShape, StartPCs, CompPCs, StopPCs
    <3> QED BY <3>2, <3>3
  <2>12. OneStarter'
    BY <2>3, <2>10 DEF OneStarter, OthersStay, Lifecycle
  <2>13. StopsExclude'
    <3>1. unmarked' = unmarked /\ pc'[c] \notin StopPCs
      BY <2>1, <2>3 DEF StopPCs
    <3> QED BY <2>3, <3>1 DEF StopsExclude, OthersStay, Lifecycle
  <2> QED BY <2>7, <2>9, <2>11, <2>12, <2>13 DEF Lifecycle
<1> QED BY <1>1, <1>2

LEMMA ArmStep ==
  ASSUME Lifecycle, StateOK', NEW c \in Callers, StartArm(c)
  PROVE  Lifecycle'
<1>0. PICK r \in Recs : r = rec[c]
  BY RecOf, Waiting DEF StartArm
<1>1. row \in [Recs -> Row] /\ row[r] \in Row /\ RowShape(r) /\ CallShape(c)
  BY TypeSplit DEF Lifecycle, RowsType
<1>2. OthersStay(c) /\ pc'[c] = "start send" /\ rec' = rec /\ pc[c] = "start arm"
  BY OthersByExcept, TypeSplit DEF StartArm, Goto, Lifecycle, CallsType
<1>3. NoEntry(c)
  BY <1>2 DEF NoEntry, StartPCs, CompPCs, StopPCs
<1>4. \A q \in Recs \ {r} : row'[q] = row[q]
  BY <1>0, <1>1 DEF StartArm
<1>5. /\ row'[r].status = row[r].status /\ row'[r].egress = row[r].egress
      /\ row'[r].meeting = row[r].meeting
      /\ IsStarting(r) => row'[r].error = "start in flight"
      /\ ~IsStarting(r) => row'[r].error = row[r].error /\ armed' = armed
  <2>1. CASE IsStarting(r)
    <3>1. row'[r] = [row[r] EXCEPT !.error = "start in flight"]
      BY <1>0, <1>1, <2>1 DEF StartArm
    <3> QED BY <1>1, <2>1, <3>1 DEF Row
  <2>2. CASE ~IsStarting(r)
    BY <1>0, <2>2 DEF StartArm
  <2> QED BY <2>1, <2>2
<1>6. /\ remote' = remote /\ armed' \ {r} = armed \ {r}
      /\ r \in armed' => IsStarting(r) \/ r \in armed
      /\ unmarked' = unmarked
  BY <1>0 DEF StartArm
<1>7. RowShape(r)'
  BY <1>1, <1>5, <1>6 DEF RowShape, IsStarting, Unconfirmed
<1>8. ~row[r].egress /\ row[r].status # "absent"
  BY <1>0, <1>1, <1>2 DEF CallShape, StartPCs, CompPCs
<1>9. CallShape(c)'
  BY <1>0, <1>2, <1>5, <1>8 DEF CallShape, StopPCs
<1>10. \A d \in Callers \ {c} : pc[d] \in StopPCs => rec[d] # r
  BY <1>8 DEF CallShape, Lifecycle
<1> QED BY <1>2, <1>3, <1>4, <1>5, <1>6, <1>7, <1>9, <1>10, RowStatement

(* mark_recording_started stores the id of a job only its own start knows. *)
LEMMA StartedStep ==
  ASSUME Lifecycle, StateOK', NEW c \in Callers, StartMark(c)
  PROVE  Lifecycle'
<1>0. PICK r \in Recs : r = rec[c]
  BY RecOf, Waiting DEF StartMark
<1>1. row \in [Recs -> Row] /\ row[r] \in Row /\ RowShape(r) /\ CallShape(c)
  BY TypeSplit DEF Lifecycle, RowsType
<1>2. OthersStay(c) /\ NoEntry(c) /\ CallShape(c)'
  <2>1. CASE Return(c)
    BY <2>1, AfterReturn DEF Lifecycle
  <2>2. CASE Goto(c, "comp send") /\ UNCHANGED <<mtg, rec, req>>
    <3>1. OthersStay(c) /\ pc'[c] = "comp send" /\ rec'[c] = rec[c]
      BY <2>2, OthersByExcept, TypeSplit DEF Goto, Lifecycle, CallsType
    <3>2. NoEntry(c)
      BY <3>1 DEF NoEntry, StartMark, StartPCs, CompPCs, StopPCs
    <3>3. row'[rec[c]].status # "absent"
      BY <1>0, <1>1 DEF StartMark, Row
    <3>4. CallShape(c)'
      BY <3>1, <3>3 DEF CallShape, CompPCs, StopPCs
    <3> QED BY <3>1, <3>2, <3>4
  <2> QED BY <2>1, <2>2 DEF StartMark
<1>3. \A q \in Recs \ {r} : row'[q] = row[q]
  BY <1>0, <1>1 DEF StartMark
<1>4. /\ row'[r].status = "recording" /\ row'[r].egress
      /\ row'[r].error = row[r].error /\ row[r].status = "starting"
  <2>1. row'[r] = [row[r] EXCEPT !.status = "recording", !.egress = TRUE]
    BY <1>0, <1>1 DEF StartMark
  <2> QED BY <1>0, <1>1, <2>1 DEF Row, StartMark, IsStarting
<1>5. remote' = remote /\ UNCHANGED <<armed, unmarked>> /\ remote[r] # "none" /\ pc[c] \in StartPCs
  BY <1>0, <1>1 DEF StartMark, CallShape, StartPCs, CompPCs
<1>6. \A q \in Recs : RowShape(q)'
  BY <1>1, <1>3, <1>4, <1>5 DEF RowShape, Lifecycle
<1>7. ASSUME NEW d \in Callers, d # c PROVE CallShape(d)'
  <2>1. CallShape(d) /\ pc'[d] = pc[d] /\ rec'[d] = rec[d] /\ req'[d] = req[d]
    BY <1>2, <1>7 DEF Lifecycle, OthersStay
  <2>2. CASE rec[d] = r
    <3>1. pc[d] \notin StartPCs
      BY <1>0, <1>5, <1>7, <2>2 DEF Lifecycle, OneStarter
    <3>2. pc[d] \notin StopPCs
      BY <1>1, <1>4, <2>1, <2>2 DEF CallShape, RowShape
    <3> QED BY <1>4, <1>5, <2>1, <2>2, <3>1, <3>2 DEF CallShape
  <2>3. CASE rec[d] # r /\ pc[d] \in HasRec
    <3>1. row'[rec[d]] = row[rec[d]]
      BY <1>3, <2>3, RecOf
    <3> QED BY <1>5, <2>1, <3>1 DEF CallShape, StopInFlight
  <2>4. CASE pc[d] \notin HasRec
    BY <2>1, <2>4 DEF CallShape, HasRec, StartPCs, CompPCs, StopPCs
  <2> QED BY <2>2, <2>3, <2>4
<1>8. OneStarter' /\ StopsExclude'
  BY <1>2, <1>5, KeepsExclusive DEF Lifecycle
<1> QED BY <1>2, <1>6, <1>7, <1>8 DEF Lifecycle

(* active_recording, then the branch on what was read *)
LEMMA ReadStep ==
  ASSUME Lifecycle, StateOK', NEW c \in Callers, StopRead(c)
  PROVE  Lifecycle'
<1>1. CASE Return(c)
  BY <1>1, AfterReturn, CallerMove DEF StopRead, Lifecycle
<1>2. CASE ~Return(c)
  <2>1. PICK r \in Recs :
          /\ rec' = [rec EXCEPT ![c] = r]
          /\ Goto(c, IF row[r].egress THEN "stop begin" ELSE "stop release")
          /\ UNCHANGED <<req, row, remote, armed, unmarked>>
    BY <1>2 DEF StopRead, ActiveRecs
  <2>2. /\ OthersStay(c) /\ rec'[c] = r
        /\ pc'[c] \in {"stop begin", "stop release"}
        /\ pc'[c] = "stop begin" => row[r].egress
    BY <2>1, OthersByExcept, TypeSplit DEF Goto, Lifecycle, CallsType
  <2>3. NoEntry(c) /\ CallShape(c)'
    BY <2>1, <2>2 DEF NoEntry, CallShape, StartPCs, CompPCs, StopPCs
  <2> QED BY <2>1, <2>2, <2>3, CallerMove
<1> QED BY <1>1, <1>2

(* begin_recording_stop: the compare-and-swap admits one caller. *)
LEMMA BeginStep ==
  ASSUME Lifecycle, StateOK', NEW c \in Callers, StopBegin(c)
  PROVE  Lifecycle'
<1>0. PICK r \in Recs : r = rec[c]
  BY RecOf, Waiting DEF StopBegin
<1>1. CASE Return(c) /\ UNCHANGED row
  BY <1>1, AfterReturn, CallerMove DEF StopBegin, Lifecycle
<1>2. CASE ~(Return(c) /\ UNCHANGED row)
  <2>1. /\ MayBeginStop(r) /\ pc[c] = "stop begin"
        /\ row' = [row EXCEPT ![r] = [row[r] EXCEPT !.status = "stopping",
                      !.error = "stop in flight", !.attempts = row[r].attempts + 1]]
        /\ Goto(c, "stop send") /\ UNCHANGED <<rec, req, remote, armed, unmarked>>
    BY <1>0, <1>2 DEF StopBegin
  <2>2. row \in [Recs -> Row] /\ row[r] \in Row /\ RowShape(r) /\ CallShape(c)
    BY TypeSplit DEF Lifecycle, RowsType
  <2>3. OthersStay(c) /\ pc'[c] = "stop send" /\ rec'[c] = r
    BY <1>0, <2>1, OthersByExcept, TypeSplit DEF Goto, Lifecycle, CallsType
  <2>4. \A q \in Recs \ {r} : row'[q] = row[q]
    BY <2>1, <2>2
  <2>5. row'[r] = [row[r] EXCEPT !.status = "stopping", !.error = "stop in flight",
                                 !.attempts = row[r].attempts + 1]
    BY <2>1, <2>2
  <2>6. /\ row'[r].status = "stopping" /\ row'[r].egress = row[r].egress
        /\ row'[r].error = "stop in flight"
    BY <2>2, <2>5 DEF Row
  <2>7. row[r].egress
    BY <1>0, <2>1, <2>2 DEF CallShape
  <2>8. \A q \in Recs : RowShape(q)'
    BY <2>1, <2>2, <2>4, <2>6, <2>7 DEF RowShape, Lifecycle
  <2>9. CallShape(c)'
    BY <2>3, <2>6, <2>7 DEF CallShape, StopInFlight, StartPCs, CompPCs, StopPCs
  <2>10. \A d \in Callers : pc[d] \in StopPCs /\ rec[d] = r => r \in unmarked
    BY <2>1 DEF MayBeginStop, CallShape, StopInFlight, Lifecycle
  <2>11. ASSUME NEW d \in Callers, d # c PROVE CallShape(d)'
    <3>1. CallShape(d) /\ pc'[d] = pc[d] /\ rec'[d] = rec[d] /\ req'[d] = req[d]
      BY <2>3, <2>11 DEF Lifecycle, OthersStay
    <3>2. CASE rec[d] = r
      BY <2>1, <2>6, <2>7, <2>10, <3>1, <3>2 DEF CallShape
    <3>3. CASE rec[d] # r /\ pc[d] \in HasRec
      <4>1. row'[rec[d]] = row[rec[d]]
        BY <2>4, <3>3, RecOf
      <4> QED BY <2>1, <3>1, <4>1 DEF CallShape, StopInFlight
    <3>4. CASE pc[d] \notin HasRec
      BY <3>1, <3>4 DEF CallShape, HasRec, StartPCs, CompPCs, StopPCs
    <3> QED BY <3>2, <3>3, <3>4
  <2>12. OneStarter'
    BY <2>3 DEF OneStarter, OthersStay, Lifecycle, StartPCs, CompPCs
  <2>13. StopsExclude'
    BY <2>1, <2>3, <2>10 DEF StopsExclude, OthersStay, Lifecycle
  <2> QED BY <2>8, <2>9, <2>11, <2>12, <2>13 DEF Lifecycle
<1> QED BY <1>1, <1>2

LEMMA CallerStep ==
  ASSUME Lifecycle, StateOK', NEW c \in Callers, StartStep(c) \/ StopStep(c) \/ Abandon(c)
  PROVE  Lifecycle'
<1>1. CASE Abandon(c)
  BY <1>1, AfterReturn, CallerMove DEF Abandon, Lifecycle
<1>2. CASE \/ StartRelease(c) \/ StartHold(c) \/ CompRelease(c) \/ CompHold(c)
          \/ StopRelease(c) \/ StopFail(c) \/ StopMark(c)
  <2>1. pc[c] \in HasRec
    BY <1>2, Waiting DEF StartRelease, StartHold, CompRelease, CompHold, StopRelease,
                         StopFail, StopMark
  <2>2. StartHold(c) \/ CompHold(c) => pc[c] \in StartPCs
    BY DEF StartHold, CompHold, StartPCs, CompPCs
  <2>3. StopFail(c) => pc[c] \in StopPCs
    BY DEF StopFail, StopPCs
  <2>4. StartHold(c) => pc[c] \notin CompPCs
    BY DEF StartHold, CompPCs
  <2>5. Return(c) /\ UNCHANGED <<remote, armed>> /\ unmarked \subseteq unmarked'
    BY <1>2 DEF StartRelease, StartHold, CompRelease, CompHold, StopRelease, StopFail, StopMark
  <2>6. CASE StartHold(c) \/ CompHold(c)
    BY <2>1, <2>2, <2>4, <2>5, <2>6, MarkStep DEF StartHold, CompHold
  <2>7. CASE ~(StartHold(c) \/ CompHold(c))
    BY <1>2, <2>1, <2>3, <2>5, <2>7, MarkStep
       DEF StartRelease, CompRelease, StopRelease, StopFail, StopMark
  <2> QED BY <2>6, <2>7
<1> QED BY <1>1, <1>2, ExpireStep, QuietStep, ReserveStep, ArmStep, StartedStep, ReadStep,
           BeginStep DEF StartStep, StopStep

(* The service executes or refuses the request of c. *)
LEMMA ServeStep ==
  ASSUME Lifecycle, StateOK', NEW c \in Callers, Serve(c) \/ Refuse(c)
  PROVE  Lifecycle'
<1>0. PICK r \in Recs : r = rec[c]
  BY RecOf, Waiting DEF Serve, Refuse
<1>1. /\ OthersStay(c) /\ UNCHANGED <<row, armed, unmarked, pc, rec>>
      /\ req'[c] \in {"done", "refused"}
      /\ pc[c] \in WaitPCs
  BY OthersByExcept, TypeSplit DEF Serve, Refuse, Lifecycle, CallsType
<1>2. /\ \A q \in Recs : remote[q] # "none" => remote'[q] # "none"
      /\ \A q \in Recs : remote[q] = "ended" => remote'[q] = "ended"
      /\ req'[c] = "done" /\ pc[c] = "start wait" => remote'[r] # "none"
      /\ req'[c] = "done" /\ pc[c] # "start wait" /\ remote[r] # "none"
            => remote'[r] = "ended"
  <2>1. CASE Serve(c)
    BY <1>0, <2>1, TypeSplit DEF Serve, Execute, Op, Lifecycle, OtherType
  <2>2. CASE Refuse(c)
    BY <2>2, TypeSplit DEF Refuse, Lifecycle, CallsType
  <2> QED BY <2>1, <2>2
<1>3. \A q \in Recs : RowShape(q)'
  BY <1>1, <1>2 DEF RowShape, Lifecycle
<1>4. ASSUME NEW d \in Callers, d # c PROVE CallShape(d)'
  <2>1. CallShape(d) /\ req'[d] = req[d]
    BY <1>1, <1>4 DEF Lifecycle, OthersStay
  <2>2. CASE pc[d] \in HasRec
    BY <1>1, <1>2, <2>1, <2>2, RecOf DEF CallShape, StopInFlight
  <2>3. CASE pc[d] \notin HasRec
    BY <1>1, <2>1, <2>3 DEF CallShape, HasRec, StartPCs, CompPCs, StopPCs
  <2> QED BY <2>2, <2>3
<1>5. CallShape(c)'
  <2>1. CallShape(c) /\ RowShape(r)
    BY DEF Lifecycle
  <2> QED BY <1>0, <1>1, <1>2, <2>1 DEF CallShape, StopInFlight, RowShape, WaitPCs, StopPCs
<1>6. OneStarter' /\ StopsExclude'
  BY <1>1 DEF OneStarter, StopsExclude, Lifecycle
<1> QED BY <1>3, <1>4, <1>5, <1>6 DEF Lifecycle

(* A job changes on its own or by a request nobody waits for. *)
LEMMA RemoteStep ==
  ASSUME Lifecycle, StateOK', ServeStray \/ \E r \in Recs : JobEnds(r)
  PROVE  Lifecycle'
<1>1. UNCHANGED <<row, armed, unmarked>> /\ UNCHANGED caller
  BY DEF ServeStray, JobEnds
<1>2. /\ \A q \in Recs : remote[q] # "none" => remote'[q] # "none"
      /\ \A q \in Recs : remote[q] = "ended" => remote'[q] = "ended"
  BY TypeSplit DEF ServeStray, JobEnds, Execute, Lifecycle, OtherType
<1>3. \A q \in Recs : RowShape(q)'
  BY <1>1, <1>2 DEF RowShape, Lifecycle
<1>4. ASSUME NEW d \in Callers PROVE CallShape(d)'
  <2>1. CallShape(d)
    BY DEF Lifecycle
  <2>2. CASE pc[d] \in HasRec
    BY <1>1, <1>2, <2>1, <2>2, RecOf DEF CallShape, StopInFlight, caller
  <2>3. CASE pc[d] \notin HasRec
    BY <1>1, <2>1, <2>3 DEF CallShape, HasRec, StartPCs, CompPCs, StopPCs, caller
  <2> QED BY <2>2, <2>3
<1>5. OneStarter' /\ StopsExclude'
  BY <1>1 DEF OneStarter, StopsExclude, Lifecycle, caller
<1> QED BY <1>3, <1>4, <1>5 DEF Lifecycle

LEMMA TtlStep ==
  ASSUME Lifecycle, StateOK', NEW r \in Recs, TtlElapses(r)
  PROVE  Lifecycle'
<1>1. row \in [Recs -> Row] /\ UNCHANGED caller /\ UNCHANGED <<remote, armed, unmarked>>
  BY TypeSplit DEF Lifecycle, RowsType, TtlElapses
<1>2. ASSUME NEW q \in Recs
      PROVE  /\ row'[q].status = row[q].status /\ row'[q].egress = row[q].egress
             /\ row'[q].error = row[q].error /\ row'[q].meeting = row[q].meeting
  <2>1. CASE q = r
    <3>1. row'[q] = [row[r] EXCEPT !.stale = TRUE] /\ row[r] \in Row
      BY <1>1, <2>1 DEF TtlElapses
    <3> QED BY <2>1, <3>1 DEF Row
  <2>2. CASE q # r
    BY <1>1, <2>2 DEF TtlElapses
  <2> QED BY <2>1, <2>2
<1>3. \A q \in Recs : RowShape(q)'
  BY <1>1, <1>2 DEF RowShape, Lifecycle
<1>4. ASSUME NEW d \in Callers PROVE CallShape(d)'
  <2>1. CallShape(d)
    BY DEF Lifecycle
  <2>2. CASE pc[d] \in HasRec
    BY <1>1, <1>2, <2>1, <2>2, RecOf DEF CallShape, StopInFlight, caller
  <2>3. CASE pc[d] \notin HasRec
    BY <1>1, <2>1, <2>3 DEF CallShape, HasRec, StartPCs, CompPCs, StopPCs, caller
  <2> QED BY <2>2, <2>3
<1>5. OneStarter' /\ StopsExclude'
  BY <1>1 DEF OneStarter, StopsExclude, Lifecycle, caller
<1> QED BY <1>3, <1>4, <1>5 DEF Lifecycle

LEMMA MeetingStep ==
  ASSUME Lifecycle, StateOK', NEW m \in Meetings, ArchiveMeeting(m) \/ DeleteMeeting(m)
  PROVE  Lifecycle'
<1>1. CASE ArchiveMeeting(m)
  BY <1>1 DEF ArchiveMeeting, Lifecycle, RowShape, CallShape, StopInFlight, OneStarter, StopsExclude,
              caller
<1>2. CASE DeleteMeeting(m)
  <2>1. \A r \in Recs : \/ row'[r] = row[r]
                        \/ /\ row[r].meeting = m
                           /\ row'[r] = [row[r] EXCEPT !.status = "deleted"]
    <3> SUFFICES ASSUME NEW r \in Recs
                 PROVE  \/ row'[r] = row[r]
                        \/ /\ row[r].meeting = m
                           /\ row'[r] = [row[r] EXCEPT !.status = "deleted"]
      OBVIOUS
    <3>1. CASE row[r].meeting = m  BY <1>2, <3>1 DEF DeleteMeeting
    <3>2. CASE row[r].meeting # m  BY <1>2, <3>2 DEF DeleteMeeting
    <3> QED BY <3>1, <3>2
  <2>2. \A r \in Recs : row[r].status = "absent" => row'[r] = row[r]
    BY <2>1, NoneAssumption DEF Lifecycle, RowShape
  <2>3. UNCHANGED caller /\ UNCHANGED <<remote, armed, unmarked>>
    BY <1>2 DEF DeleteMeeting
  <2>4. PICK x : x \notin Callers
    BY NoSetContainsEverything
  <2>5. \A d \in Callers \ {x} : pc'[d] = pc[d] /\ rec'[d] = rec[d] /\ req'[d] = req[d]
    BY <2>3 DEF caller
  <2> QED BY <2>1, <2>2, <2>3, <2>4, <2>5, SweepStatement
<1> QED BY <1>1, <1>2

LEMMA InitLifecycle == Init => Lifecycle
<1> SUFFICES ASSUME Init PROVE Lifecycle
  OBVIOUS
<1>1. \A r \in Recs : RowShape(r)
  BY DEF Init, AbsentRow, RowShape
<1>2. \A c \in Callers : CallShape(c)
  BY DEF Init, CallShape, StartPCs, CompPCs, StopPCs
<1>3. OneStarter /\ StopsExclude
  BY DEF Init, OneStarter, StopsExclude, StartPCs, CompPCs, StopPCs
<1> QED BY <1>1, <1>2, <1>3, InitType DEF Lifecycle

(* The inductive invariant, for any sets of meetings, recordings, callers. *)
THEOREM LifecycleInvariant == Spec => []Lifecycle
<1>1. Lifecycle /\ UNCHANGED vars => Lifecycle'
  <2> SUFFICES ASSUME Lifecycle, UNCHANGED vars PROVE Lifecycle'
    OBVIOUS
  <2>1. StateOK'
    BY DEF vars, Lifecycle, StateOK
  <2>2. \A r \in Recs : RowShape(r)'
    BY DEF vars, Lifecycle, RowShape
  <2>3. \A c \in Callers : CallShape(c)'
    BY DEF vars, Lifecycle, CallShape, StopInFlight
  <2>4. OneStarter' /\ StopsExclude'
    BY DEF vars, Lifecycle, OneStarter, StopsExclude
  <2> QED BY <2>1, <2>2, <2>3, <2>4 DEF Lifecycle
<1>2. Lifecycle /\ Next => Lifecycle'
  <2> SUFFICES ASSUME Lifecycle, Next PROVE Lifecycle'
    OBVIOUS
  <2>1. StateOK'
    BY StartType, StopType, AbandonType, EnvironmentType DEF Next, Lifecycle
  <2> QED BY <2>1, CallerStep, ServeStep, RemoteStep, TtlStep, MeetingStep DEF Next
<1> QED BY <1>1, <1>2, InitLifecycle, ProgramSteps, PTL

(* A job whose id is stored keeps its meeting reserved until it is over.    *)
THEOREM ConfirmedJobIsHeld == Spec => []ConfirmedJobHeld
<1>1. Lifecycle => ConfirmedJobHeld
  BY DEF Lifecycle, ConfirmedJobHeld, RowShape
<1> QED BY <1>1, LifecycleInvariant, PTL

(* Two Stop commands never both reach StopEgress for one recording, unless  *)
(* the failed start of that recording wrote over the first one's marker.    *)
THEOREM StopsAreExclusive == Spec => []StopsExclude
<1>1. Lifecycle => StopsExclude
  BY DEF Lifecycle
<1> QED BY <1>1, LifecycleInvariant, PTL

(* The TTL reclaims no row whose start request was armed.                   *)
THEOREM TtlSparesArmedRows == Spec => []ReclaimedNeverArmed
<1>1. Lifecycle => ReclaimedNeverArmed
  BY DEF Lifecycle, ReclaimedNeverArmed, RowShape
<1> QED BY <1>1, LifecycleInvariant, PTL

-----------------------------------------------------------------------------
(* What one statement may do to a row whose recording is over.              *)

Final == {"stopped", "failed", "deleted"}
StaysOver(r) == row[r].status \in Final => row'[r].status \notin Active

LEMMA StatementsRespectFinal ==
  ASSUME RowsType, NEW q \in Recs,
         MarkFailed(q) \/ MarkUnconfirmed(q) \/ MarkStopFailed(q) \/ ExpireStale \/ UNCHANGED row
  PROVE  \A r \in Recs : StaysOver(r)
<1>1. \A r \in Recs : row[r] \in Row  BY DEF RowsType
<1>2. Active \cap Final = {}  BY DEF Active, Final
<1>3. CASE MarkFailed(q)
  BY <1>1, <1>2, <1>3 DEF MarkFailed, IsStarting, StaysOver, Final, RowsType, Row
<1>4. CASE MarkUnconfirmed(q) \/ MarkStopFailed(q)
  BY <1>1, <1>2, <1>4 DEF MarkUnconfirmed, MarkStopFailed, StaysOver, RowsType, Row
<1>5. CASE ExpireStale
  BY <1>1, <1>2, <1>5 DEF ExpireStale, Expired, IsStarting, StaysOver, Final, RowsType, Row
<1>6. CASE UNCHANGED row  BY <1>2, <1>6 DEF StaysOver
<1>q. QED  BY <1>3, <1>4, <1>5, <1>6

(* An UPDATE of one row that is not over. *)
LEMMA OneRowRespectsFinal ==
  ASSUME RowsType, NEW q \in Recs, NEW t, row' = [row EXCEPT ![q] = t],
         row[q].status \notin Final
  PROVE  \A r \in Recs : StaysOver(r)
<1>1. \A r \in Recs : r # q => row'[r] = row[r]  BY DEF RowsType
<1>2. Active \cap Final = {}  BY DEF Active, Final
<1>q. QED  BY <1>1, <1>2 DEF StaysOver

LEMMA CommandsRespectFinal ==
  ASSUME StateOK, NEW c \in Callers, StartStep(c) \/ StopStep(c)
  PROVE  \A r \in Recs : StaysOver(r)
<1>1. RowsType /\ CallsType  BY TypeSplit
<1>2. \A s \in {"absent", "starting", "recording", "stopping"} : s \notin Final  BY DEF Final
<1>3. pc[c] \in HasRec => rec[c] \in Recs  BY <1>1 DEF CallsType
<1>4. ASSUME UNCHANGED row  PROVE \A r \in Recs : StaysOver(r)
  BY <1>4 DEF StaysOver, Active, Final
<1>5. ASSUME ExpireStale  PROVE \A r \in Recs : StaysOver(r)
  BY <1>1, <1>5, StatementsRespectFinal
<1>6. CASE StartReserve(c)
  <2>1. UNCHANGED row \/ \E q \in Recs : /\ row[q].status = "absent"
                                         /\ \E t : row' = [row EXCEPT ![q] = t]
    BY <1>6 DEF StartReserve
  <2>q. QED  BY <1>1, <1>2, <1>4, <2>1, OneRowRespectsFinal
<1>7. CASE StartArm(c) \/ StartMark(c) \/ StopMark(c) \/ StopBegin(c)
  <2>1. rec[c] \in Recs
    BY <1>3, <1>7 DEF StartArm, StartMark, StopMark, StopBegin, HasRec, StartPCs, CompPCs, StopPCs
  <2>2. UNCHANGED row \/ /\ row[rec[c]].status \in {"starting", "recording", "stopping"}
                         /\ \E t : row' = [row EXCEPT ![rec[c]] = t]
    BY <1>7 DEF StartArm, StartMark, StopMark, StopBegin, IsStarting, MayBeginStop
  <2>q. QED  BY <1>1, <1>2, <1>4, <2>1, <2>2, OneRowRespectsFinal
<1>8. CASE \/ StartRelease(c) \/ StartHold(c) \/ CompRelease(c) \/ CompHold(c)
           \/ StopRelease(c) \/ StopFail(c)
  <2>1. rec[c] \in Recs
    BY <1>3, <1>8 DEF StartRelease, StartHold, CompRelease, CompHold, StopRelease, StopFail,
                      HasRec, StartPCs, CompPCs, StopPCs
  <2>2. MarkFailed(rec[c]) \/ MarkUnconfirmed(rec[c]) \/ MarkStopFailed(rec[c])
    BY <1>8 DEF StartRelease, StartHold, CompRelease, CompHold, StopRelease, StopFail
  <2>q. QED  BY <1>1, <2>1, <2>2, StatementsRespectFinal
<1>9. CASE \/ StartSend(c) \/ StartOk(c) \/ StartRefused(c) \/ StartAmbiguous(c)
           \/ StartMarkFails(c) \/ CompSend(c) \/ CompOk(c) \/ CompFailed(c)
           \/ StopRead(c) \/ StopSend(c) \/ StopOk(c) \/ StopFailed(c)
  BY <1>4, <1>9 DEF StartSend, StartOk, StartRefused, StartAmbiguous, StartMarkFails, CompSend,
                    CompOk, CompFailed, StopRead, StopSend, StopOk, StopFailed, Send, Receive
<1>10. CASE \E m \in Meetings : StartExpire(c, m) \/ StopExpire(c, m)
  BY <1>5, <1>10 DEF StartExpire, StopExpire
<1>q. QED  BY <1>6, <1>7, <1>8, <1>9, <1>10 DEF StartStep, StopStep

(* A recording that was stopped, failed or deleted never becomes active     *)
(* again: no late reply to an old request, no sweep and no second command   *)
(* brings it back next to the recording that replaced it. *)
THEOREM OverIsOver == Spec => TerminalIsFinal
<1>1. StateOK /\ [Next]_vars =>
        [\A r \in Recs : row[r].status \in {"stopped", "failed", "deleted"}
                           => row'[r].status \notin Active]_vars
  <2> SUFFICES ASSUME StateOK, Next  PROVE \A r \in Recs : StaysOver(r)
    BY DEF StaysOver, Final
  <2>1. ASSUME UNCHANGED row  PROVE \A r \in Recs : StaysOver(r)
    BY <2>1 DEF StaysOver, Active, Final
  <2>2. RowsType  BY TypeSplit
  <2>3. ASSUME NEW c \in Callers, Abandon(c) \/ Serve(c) \/ Refuse(c)
        PROVE  \A r \in Recs : StaysOver(r)
    BY <2>1, <2>3 DEF Abandon, Serve, Refuse
  <2>4. CASE ServeStray  BY <2>1, <2>4 DEF ServeStray
  <2>5. ASSUME NEW q \in Recs, TtlElapses(q)  PROVE \A r \in Recs : StaysOver(r)
    <3>1. row[q].status \notin Final  BY <2>5 DEF TtlElapses, IsStarting, Final
    <3>q. QED  BY <2>2, <2>5, <3>1, OneRowRespectsFinal DEF TtlElapses
  <2>6. ASSUME NEW q \in Recs, JobEnds(q)  PROVE \A r \in Recs : StaysOver(r)
    BY <2>1, <2>6 DEF JobEnds
  <2>7. ASSUME NEW m \in Meetings, ArchiveMeeting(m)  PROVE \A r \in Recs : StaysOver(r)
    BY <2>1, <2>7 DEF ArchiveMeeting
  <2>8. ASSUME NEW m \in Meetings, DeleteMeeting(m)  PROVE \A r \in Recs : StaysOver(r)
    <3>1. \A r \in Recs : row[r] \in Row  BY <2>2 DEF RowsType
    <3>2. \A r \in Recs : row'[r].status \in {"deleted", row[r].status}
      BY <2>8, <3>1 DEF DeleteMeeting, Row
    <3>q. QED  BY <3>2 DEF StaysOver, Active, Final
  <2>q. QED
    BY <2>3, <2>4, <2>5, <2>6, <2>7, <2>8, CommandsRespectFinal DEF Next
<1>q. QED  BY <1>1, StateCorrect, ProgramSteps, PTL DEF TerminalIsFinal
-----------------------------------------------------------------------------
(* One command after another.  A recording whose request to start may still *)
(* be executed, or whose job is live, keeps a row that no sweep and no      *)
(* release can take: the request leaves only after the row was armed.       *)

Ask(r)       == [op |-> "start", rec |-> r]
Waits(c, r)  == pc[c] = "start wait" /\ req[c] = "pending" /\ rec[c] = r
Wanted(r)    == Ask(r) \in stray \/ \E c \in Callers : Waits(c, r)
Claimed(r)   == remote[r] = "live" \/ Wanted(r)
Reserving(r) == \E c \in Callers : pc[c] \in {"start arm", "start send"} /\ rec[c] = r
Stake(r)     == Claimed(r) \/ Reserving(r)

Held(r) == \/ row[r].status \in {"recording", "stopping", "deleted"}
           \/ row[r].status = "starting" /\ row[r].error \in Unconfirmed

AskedOnce(r) == /\ remote[r] # "none" => ~Wanted(r)
                /\ \A c \in Callers : Waits(c, r) => Ask(r) \notin stray

Past(r) == /\ row[r].status = "deleted" => /\ row[r].meeting \in Meetings
                                           /\ mstate[row[r].meeting] = "deleted"
           /\ row[r].status = "absent" => remote[r] = "none"

(* What the one command knows. *)
Knows(c) ==
    LET r == rec[c] IN
    /\ pc[c] = "start arm" => row[r].status \in {"starting", "deleted"}
    /\ pc[c] = "start send" => Held(r)
    /\ pc[c] \in {"start arm", "start send"} => remote[r] = "none" /\ ~Wanted(r)
    /\ pc[c] = "start wait" /\ req[c] = "refused" => ~Claimed(r)
    /\ pc[c] \in {"start release", "comp release", "stop release"} => ~Claimed(r)
    /\ pc[c] \in {"comp send", "comp wait"} => remote[r] # "none"
    /\ pc[c] = "comp wait" /\ req[c] = "done" => remote[r] = "ended"

OneStake == \A q, r \in Recs : Stake(q) /\ Stake(r) /\ row[q].meeting = row[r].meeting => q = r

Solo == /\ \A r \in Recs : (Claimed(r) => Held(r)) /\ AskedOnce(r) /\ Past(r)
        /\ \A c \in Callers : Knows(c)
        /\ OneStake

(* A statement that gives the row to no other meeting, deletes and revives nothing. *)
RowKept(r) == /\ row'[r].meeting = row[r].meeting
              /\ \A s \in {"deleted", "absent"} : row'[r].status = s => row[r].status = s

(* The other executions stand idle before and after the step. *)
Alone(c) == \A d \in Callers \ {c} : pc[d] = "idle" /\ pc'[d] = "idle"

LEMMA AloneFacts ==
  ASSUME NEW c \in Callers, Alone(c)
  PROVE  /\ \A r \in Recs : Wanted(r) <=> Ask(r) \in stray \/ Waits(c, r)
         /\ \A r \in Recs : Wanted(r)' <=> Ask(r) \in stray' \/ Waits(c, r)'
         /\ \A r \in Recs : Reserving(r) <=> pc[c] \in {"start arm", "start send"} /\ rec[c] = r
         /\ \A r \in Recs : Reserving(r)' <=> pc'[c] \in {"start arm", "start send"} /\ rec'[c] = r
         /\ \A d \in Callers, r \in Recs : (Waits(d, r) => d = c) /\ (Waits(d, r)' => d = c)
         /\ Knows(c)' => \A d \in Callers : Knows(d)'
<1>1. \A d \in Callers, r \in Recs : (Waits(d, r) => d = c) /\ (Waits(d, r)' => d = c)
  BY DEF Alone, Waits
<1>2. \A r \in Recs : Wanted(r) <=> Ask(r) \in stray \/ Waits(c, r)
  BY <1>1 DEF Wanted
<1>3. \A r \in Recs : Wanted(r)' <=> Ask(r) \in stray' \/ Waits(c, r)'
  BY <1>1 DEF Wanted, Ask
<1>4. \A r \in Recs :
        /\ Reserving(r) <=> pc[c] \in {"start arm", "start send"} /\ rec[c] = r
        /\ Reserving(r)' <=> pc'[c] \in {"start arm", "start send"} /\ rec'[c] = r
  BY DEF Alone, Reserving
<1>5. \A d \in Callers \ {c} : Knows(d)'
  BY DEF Alone, Knows
<1>q. QED  BY <1>1, <1>2, <1>3, <1>4, <1>5

(* Steps that claim nothing new. *)
LEMMA SoloFrame ==
  ASSUME Solo, UNCHANGED mstate,
         \A r \in Recs : /\ Stake(r)' => Stake(r)
                         /\ AskedOnce(r)'
                         /\ Claimed(r)' => Held(r)'
                         /\ RowKept(r)
                         /\ remote'[r] = remote[r] \/ Claimed(r),
         \A c \in Callers : Knows(c)'
  PROVE  Solo'
<1>1. ASSUME NEW r \in Recs  PROVE Past(r)'
  <2>1. row'[r].status = "deleted" => /\ row'[r].meeting \in Meetings
                                      /\ mstate'[row'[r].meeting] = "deleted"
    BY DEF Solo, Past, RowKept
  <2>2. row'[r].status = "absent" => remote'[r] = "none"
    <3>1. ASSUME row'[r].status = "absent"  PROVE remote'[r] = "none"
      <4>1. row[r].status = "absent"  BY <3>1 DEF RowKept
      <4>2. ~Claimed(r)  BY <4>1 DEF Solo, Held
      <4>q. QED  BY <4>1, <4>2 DEF Solo, Past
    <3>q. QED  BY <3>1
  <2>q. QED  BY <2>1, <2>2 DEF Past
<1>2. OneStake'  BY DEF Solo, OneStake, RowKept
<1>q. QED  BY <1>1, <1>2 DEF Solo

(* The places of a command that knows nothing of its request. *)
Easy == PCs \ {"start arm", "start send", "start wait", "start release", "comp send",
               "comp wait", "comp release", "stop release"}

LEMMA EasyPlaces ==
  /\ {"idle", "start reserve", "stop read", "start mark", "start hold", "comp hold", "stop begin",
      "stop send", "stop wait", "stop mark", "stop fail"} \subseteq Easy
  BY DEF Easy, PCs, StartPCs, CompPCs, StopPCs

(* The command moves, or ends; its request may be left behind. *)
LEMMA LeaveSolo ==
  ASSUME StateOK, Solo, NEW c \in Callers, Alone(c),
         UNCHANGED <<mstate, remote>>, stray' = stray \/ stray' = stray \cup Lost(c),
         pc'[c] \notin {"start arm", "start send", "start wait"},
         \A r \in Recs : (Claimed(r) => Held(r)') /\ RowKept(r),
         pc'[c] \in Easy \/ Knows(c)'
  PROVE  Solo'
<1>0. /\ \A r \in Recs : Wanted(r) <=> Ask(r) \in stray \/ Waits(c, r)
      /\ \A r \in Recs : Wanted(r)' <=> Ask(r) \in stray' \/ Waits(c, r)'
      /\ \A r \in Recs : Reserving(r) <=> pc[c] \in {"start arm", "start send"} /\ rec[c] = r
      /\ \A r \in Recs : Reserving(r)' <=> pc'[c] \in {"start arm", "start send"} /\ rec'[c] = r
      /\ \A d \in Callers, r \in Recs : (Waits(d, r) => d = c) /\ (Waits(d, r)' => d = c)
      /\ Knows(c)' => \A d \in Callers : Knows(d)'
  BY AloneFacts
<1>1. \A r \in Recs : ~Waits(c, r)' /\ ~Reserving(r)'  BY <1>0 DEF Waits, Reserving
<1>2. ASSUME NEW r \in Recs, Ask(r) \in Lost(c)  PROVE Wanted(r)
  <2>1. pc[c] = "start wait" /\ req[c] = "pending" /\ rec[c] = r
    BY <1>2 DEF Lost, Op, Ask, WaitPCs
  <2>q. QED  BY <2>1 DEF Wanted, Waits
<1>3. ASSUME NEW r \in Recs  PROVE Wanted(r)' => Wanted(r)
  BY <1>0, <1>1, <1>2 DEF Wanted, Ask
<1>4. \A r \in Recs : Claimed(r)' => Claimed(r)  BY <1>3 DEF Claimed
<1>5. \A r \in Recs : Stake(r)' => Stake(r)  BY <1>1, <1>4 DEF Stake
<1>6. \A r \in Recs : AskedOnce(r)'  BY <1>0, <1>1, <1>3 DEF Solo, AskedOnce
<1>7. Knows(c)'
  <2>1. pc'[c] \in Easy => Knows(c)'  BY DEF Easy, Knows
  <2>q. QED  BY <2>1
<1>q. QED  BY <1>0, <1>4, <1>5, <1>6, <1>7, SoloFrame

(* The statements, on rows that are claimed. *)
Plain == \/ ExpireStale \/ UNCHANGED row
         \/ \E q \in Recs : \/ MarkFailed(q) /\ ~Claimed(q)
                            \/ MarkUnconfirmed(q) \/ MarkStopFailed(q)

LEMMA ClaimedRows ==
  ASSUME RowsType, Plain
  PROVE  \A r \in Recs : (Claimed(r) /\ Held(r) => Held(r)') /\ RowKept(r)
<1> SUFFICES ASSUME NEW r \in Recs
             PROVE  (Claimed(r) /\ Held(r) => Held(r)') /\ RowKept(r)
  OBVIOUS
<1>1. row[r] \in Row  BY DEF RowsType
<1>2. ASSUME NEW q \in Recs, MarkFailed(q), ~Claimed(q)
      PROVE  (Claimed(r) /\ Held(r) => Held(r)') /\ RowKept(r)
  <2>1. row'[r] = IF r = q /\ row[q].status = "starting"
                  THEN [row[r] EXCEPT !.status = "failed"] ELSE row[r]
    BY <1>2 DEF MarkFailed, IsStarting, RowsType
  <2>q. QED  BY <1>1, <1>2, <2>1 DEF Held, RowKept, Row
<1>3. ASSUME NEW q \in Recs, MarkUnconfirmed(q) \/ MarkStopFailed(q)
      PROVE  (Claimed(r) /\ Held(r) => Held(r)') /\ RowKept(r)
  <2>1. row'[r] = row[r] \/ row'[r] = [row[r] EXCEPT !.error = "unconfirmed"]
    BY <1>3 DEF MarkUnconfirmed, MarkStopFailed, RowsType
  <2>q. QED  BY <1>1, <2>1 DEF Held, RowKept, Row, Unconfirmed
<1>4. CASE ExpireStale
  <2>1. row'[r] = IF Expired(r) THEN [row[r] EXCEPT !.status = "failed", !.error = "abandoned"]
                  ELSE row[r]
    BY <1>4 DEF ExpireStale
  <2>2. Expired(r) => row[r].status = "starting" /\ row[r].error = "null"
    BY DEF Expired, IsStarting
  <2>3. ~Held(r) \/ ~Expired(r)  BY <2>2 DEF Held, Unconfirmed
  <2>4. CASE Expired(r)
    <3>1. row'[r].status = "failed" /\ row'[r].meeting = row[r].meeting
      BY <1>1, <2>1, <2>4 DEF Row
    <3>q. QED  BY <2>3, <2>4, <3>1 DEF RowKept
  <2>5. CASE ~Expired(r)
    <3>1. row'[r] = row[r]  BY <2>1, <2>5
    <3>q. QED  BY <3>1 DEF RowKept, Held
  <2>q. QED  BY <2>4, <2>5
<1>5. CASE UNCHANGED row  BY <1>5 DEF Held, RowKept
<1>q. QED  BY <1>2, <1>3, <1>4, <1>5 DEF Plain

LEMMA PlainSolo ==
  ASSUME StateOK, Solo, NEW c \in Callers, Alone(c), Plain,
         UNCHANGED <<mstate, remote>>, stray' = stray \/ stray' = stray \cup Lost(c),
         pc'[c] \in Easy \/ Knows(c)',
         pc'[c] \notin {"start arm", "start send", "start wait"}
  PROVE  Solo'
<1>1. \A r \in Recs : (Claimed(r) => Held(r)') /\ RowKept(r)
  BY TypeSplit, ClaimedRows DEF Solo
<1>q. QED  BY <1>1, LeaveSolo

(* The steps of the command that leave no request of their own behind. *)
LEMMA StatementSolo ==
  ASSUME StateOK, Solo, NEW c \in Callers, Alone(c),
         \/ \E m \in Meetings : StartExpire(c, m) \/ StopExpire(c, m)
         \/ StartOk(c) \/ StartAmbiguous(c) \/ StartRelease(c) \/ StartHold(c)
         \/ CompFailed(c) \/ CompRelease(c) \/ CompHold(c)
         \/ StopRelease(c) \/ StopSend(c) \/ StopOk(c) \/ StopFailed(c) \/ StopFail(c)
         \/ Abandon(c)
  PROVE  Solo'
<1>1. pc \in [Callers -> PCs]  BY TypeSplit DEF CallsType
<1>2. pc[c] \in HasRec => rec[c] \in Recs  BY TypeSplit DEF CallsType
<1>3. pc'[c] \in Easy => pc'[c] \notin {"start arm", "start send", "start wait"}  BY DEF Easy
<1>4. ASSUME Return(c)  PROVE pc'[c] = "idle" /\ pc'[c] \in Easy
  BY <1>1, <1>4, EasyPlaces DEF Return
<1>5. CASE \E m \in Meetings : StartExpire(c, m) \/ StopExpire(c, m)
  <2>1. pc'[c] \in Easy  BY <1>1, <1>5, EasyPlaces DEF StartExpire, StopExpire, Goto
  <2>q. QED  BY <1>3, <1>5, <2>1, PlainSolo DEF StartExpire, StopExpire, Plain
<1>6. CASE \/ StartOk(c) \/ StartAmbiguous(c) \/ CompFailed(c)
           \/ StopSend(c) \/ StopOk(c) \/ StopFailed(c)
  <2>1. pc'[c] \in Easy
    BY <1>1, <1>6, EasyPlaces
    DEF StartOk, StartAmbiguous, CompFailed, StopSend, StopOk, StopFailed, Receive, Send, Goto
  <2>2. /\ UNCHANGED <<row, mstate, remote>> /\ (stray' = stray \/ stray' = stray \cup Lost(c))
    BY <1>6
    DEF StartOk, StartAmbiguous, CompFailed, StopSend, StopOk, StopFailed, Receive, Send
  <2>q. QED  BY <1>3, <2>1, <2>2, PlainSolo DEF Plain
<1>7. CASE StartRelease(c) \/ CompRelease(c) \/ StopRelease(c)
  <2>1. /\ pc[c] \in {"start release", "comp release", "stop release"} /\ MarkFailed(rec[c])
        /\ Return(c) /\ UNCHANGED <<mstate, stray, remote>>
    BY <1>7 DEF StartRelease, CompRelease, StopRelease
  <2>2. rec[c] \in Recs /\ ~Claimed(rec[c])
    BY <1>2, <2>1 DEF HasRec, StartPCs, CompPCs, Solo, Knows
  <2>3. Plain  BY <2>1, <2>2 DEF Plain
  <2>q. QED  BY <1>3, <1>4, <2>1, <2>3, PlainSolo
<1>8. CASE StartHold(c) \/ CompHold(c) \/ StopFail(c)
  <2>1. /\ pc[c] \in {"start hold", "comp hold", "stop fail"}
        /\ MarkUnconfirmed(rec[c]) \/ MarkStopFailed(rec[c])
        /\ Return(c) /\ UNCHANGED <<mstate, stray, remote>>
    BY <1>8 DEF StartHold, CompHold, StopFail
  <2>2. rec[c] \in Recs  BY <1>2, <2>1 DEF HasRec, StartPCs, CompPCs, StopPCs
  <2>3. Plain  BY <2>1, <2>2 DEF Plain
  <2>q. QED  BY <1>3, <1>4, <2>1, <2>3, PlainSolo
<1>9. CASE Abandon(c)
  BY <1>3, <1>4, <1>9, PlainSolo DEF Abandon, Plain
<1>q. QED  BY <1>5, <1>6, <1>7, <1>8, <1>9

(* A reservation: the row is new, so nothing was asked for it, and no other *)
(* row of the meeting is claimed.                                           *)
LEMMA ReserveSolo ==
  ASSUME StateOK, Solo, NEW c \in Callers, Alone(c), StartReserve(c)
  PROVE  Solo'
<1>0. /\ \A r \in Recs : Wanted(r) <=> Ask(r) \in stray \/ Waits(c, r)
      /\ \A r \in Recs : Wanted(r)' <=> Ask(r) \in stray' \/ Waits(c, r)'
      /\ \A r \in Recs : Reserving(r) <=> pc[c] \in {"start arm", "start send"} /\ rec[c] = r
      /\ \A r \in Recs : Reserving(r)' <=> pc'[c] \in {"start arm", "start send"} /\ rec'[c] = r
      /\ \A d \in Callers, r \in Recs : (Waits(d, r) => d = c) /\ (Waits(d, r)' => d = c)
      /\ Knows(c)' => \A d \in Callers : Knows(d)'
  BY AloneFacts
<1>1. pc \in [Callers -> PCs] /\ row \in [Recs -> Row] /\ mtg[c] \in Meetings
      /\ rec \in [Callers -> Recs \cup {None}] /\ pc[c] = "start reserve"
  BY TypeSplit DEF CallsType, RowsType, StartReserve
<1>2. CASE Return(c) /\ UNCHANGED <<row, mstate, remote, stray>>
  <2>1. pc'[c] = "idle"  BY <1>1, <1>2 DEF Return
  <2>2. pc'[c] \in Easy  BY <2>1, EasyPlaces
  <2>q. QED  BY <1>2, <2>1, <2>2, PlainSolo DEF Plain
<1>3. ASSUME NEW r \in Recs, row[r].status = "absent",
             ActiveRecs(mtg[c]) = {}, mstate[mtg[c]] # "deleted",
             row' = [row EXCEPT ![r] = [@ EXCEPT !.meeting = mtg[c], !.status = "starting"]],
             rec' = [rec EXCEPT ![c] = r], Goto(c, "start arm"),
             UNCHANGED <<mstate, stray, remote>>
      PROVE  Solo'
  <2>1. /\ row[r] \in Row /\ row'[r].meeting = mtg[c] /\ row'[r].status = "starting"
        /\ \A q \in Recs \ {r} : row'[q] = row[q]
    BY <1>1, <1>3 DEF Row
  <2>2. pc'[c] = "start arm" /\ rec'[c] = r  BY <1>1, <1>3 DEF Goto
  <2>3. \A q \in Recs : ~Waits(c, q) /\ ~Waits(c, q)' /\ ~Reserving(q)
    BY <1>0, <1>1, <2>2 DEF Waits, Reserving
  <2>4. \A q \in Recs : (Wanted(q)' <=> Wanted(q)) /\ (Claimed(q)' <=> Claimed(q))
    BY <1>0, <1>3, <2>3 DEF Wanted, Claimed, Ask
  <2>5. ~Claimed(r) /\ remote[r] = "none"
    BY <1>3 DEF Solo, Held, Past
  <2>6. \A q \in Recs : Stake(q)' => Claimed(q) \/ q = r
    BY <1>0, <2>2, <2>4 DEF Stake, Reserving
  <2>7. ASSUME NEW q \in Recs  PROVE (Claimed(q)' => Held(q)') /\ AskedOnce(q)' /\ Past(q)'
    <3>1. Claimed(q)' => Held(q)'
      BY <2>1, <2>4, <2>5 DEF Solo, Held
    <3>2. AskedOnce(q)'
      BY <1>0, <1>3, <2>3, <2>4 DEF Solo, AskedOnce
    <3>3. Past(q)'
      BY <1>3, <2>1 DEF Solo, Past
    <3>q. QED  BY <3>1, <3>2, <3>3
  <2>8. Knows(c)'
    <3>1. remote'[r] = "none" /\ ~Wanted(r)'  BY <1>3, <2>4, <2>5 DEF Claimed
    <3>q. QED  BY <2>1, <2>2, <3>1 DEF Knows
  <2>9. ASSUME NEW q \in Recs, q # r, Claimed(q)  PROVE row[q].meeting # mtg[c]
    <3>1. Held(q) /\ Past(q)  BY <2>9 DEF Solo
    <3>2. SUFFICES ASSUME row[q].meeting = mtg[c]  PROVE FALSE
      OBVIOUS
    <3>3. row[q].status \notin Active  BY <1>3, <3>2 DEF ActiveRecs
    <3>4. row[q].status = "deleted"  BY <3>1, <3>3 DEF Held, Active
    <3>q. QED  BY <1>3, <3>1, <3>2, <3>4 DEF Past
  <2>10. OneStake'
    <3>1. SUFFICES ASSUME NEW p \in Recs, NEW q \in Recs, Stake(p)', Stake(q)',
                          row'[p].meeting = row'[q].meeting
                   PROVE  p = q
      BY DEF OneStake
    <3>2. CASE p = r \/ q = r
      BY <2>1, <2>6, <2>9, <3>1, <3>2
    <3>3. CASE p # r /\ q # r
      BY <2>1, <2>6, <3>1, <3>3 DEF Solo, OneStake, Stake
    <3>q. QED  BY <3>2, <3>3
  <2>q. QED  BY <1>0, <2>7, <2>8, <2>10 DEF Solo
<1>q. QED  BY <1>2, <1>3 DEF StartReserve

(* The row is armed, then the request leaves. *)
LEMMA ArmSolo ==
  ASSUME StateOK, Solo, NEW c \in Callers, Alone(c), StartArm(c)
  PROVE  Solo'
<1>0. /\ \A r \in Recs : Wanted(r) <=> Ask(r) \in stray \/ Waits(c, r)
      /\ \A r \in Recs : Wanted(r)' <=> Ask(r) \in stray' \/ Waits(c, r)'
      /\ \A r \in Recs : Reserving(r) <=> pc[c] \in {"start arm", "start send"} /\ rec[c] = r
      /\ \A r \in Recs : Reserving(r)' <=> pc'[c] \in {"start arm", "start send"} /\ rec'[c] = r
      /\ \A d \in Callers, r \in Recs : (Waits(d, r) => d = c) /\ (Waits(d, r)' => d = c)
      /\ Knows(c)' => \A d \in Callers : Knows(d)'
  BY AloneFacts
<1>1. /\ pc \in [Callers -> PCs] /\ row \in [Recs -> Row] /\ pc[c] = "start arm"
      /\ rec[c] \in Recs
  BY TypeSplit DEF CallsType, RowsType, HasRec, StartPCs, CompPCs, StartArm
<1> DEFINE k == rec[c]
<1>2. /\ row' = IF IsStarting(k) THEN [row EXCEPT ![k].error = "start in flight"] ELSE row
      /\ pc'[c] = "start send" /\ UNCHANGED <<mstate, rec, req, stray, remote>>
  BY <1>1 DEF StartArm, Goto
<1>3. \A r \in Recs : ~Waits(c, r) /\ ~Waits(c, r)'  BY <1>1, <1>2 DEF Waits
<1>4. \A r \in Recs : /\ Wanted(r)' <=> Wanted(r)
                      /\ Claimed(r)' <=> Claimed(r)
                      /\ Stake(r)' => Stake(r)
  <2>1. \A r \in Recs : (Wanted(r)' <=> Wanted(r)) /\ (Claimed(r)' <=> Claimed(r))
    BY <1>0, <1>2, <1>3 DEF Wanted, Claimed, Ask
  <2>2. \A r \in Recs : Reserving(r)' => Reserving(r)  BY <1>0, <1>1, <1>2 DEF Reserving
  <2>q. QED  BY <2>1, <2>2 DEF Stake
<1>5. ASSUME NEW r \in Recs  PROVE (Held(r) => Held(r)') /\ RowKept(r)
  <2>1. \/ row'[r] = row[r]
        \/ row'[r] = [row[r] EXCEPT !.error = "start in flight"]
    BY <1>1, <1>2
  <2>2. row[r] \in Row  BY <1>1
  <2>q. QED  BY <2>1, <2>2 DEF Held, RowKept, Row, Unconfirmed
<1>6. Held(k)'
  <2>1. row[k].status \in {"starting", "deleted"}  BY <1>1 DEF Solo, Knows
  <2>2. row[k] \in Row  BY <1>1
  <2>3. CASE IsStarting(k)
    <3>1. row'[k] = [row[k] EXCEPT !.error = "start in flight"]  BY <1>1, <1>2, <2>3
    <3>2. row[k].status = "starting"  BY <2>3 DEF IsStarting
    <3>3. row'[k].status = "starting" /\ row'[k].error = "start in flight"
      BY <2>2, <3>1, <3>2 DEF Row
    <3>q. QED  BY <1>2, <3>3 DEF Held, Unconfirmed
  <2>4. CASE ~IsStarting(k)
    BY <1>2, <2>1, <2>4 DEF Held, IsStarting
  <2>q. QED  BY <2>3, <2>4
<1>7. Knows(c)'
  <2>1. remote[k] = "none" /\ ~Wanted(k)  BY <1>1 DEF Solo, Knows
  <2>2. remote'[k] = "none" /\ ~Wanted(k)'  BY <1>1, <1>2, <1>4, <2>1
  <2>q. QED  BY <1>2, <1>6, <2>2 DEF Knows
<1>8. \A r \in Recs : AskedOnce(r)'
  BY <1>0, <1>2, <1>3, <1>4 DEF Solo, AskedOnce
<1>9. \A r \in Recs : Claimed(r)' => Held(r)'  BY <1>4, <1>5 DEF Solo
<1>q. QED  BY <1>0, <1>2, <1>4, <1>5, <1>7, <1>8, <1>9, SoloFrame

LEMMA SendSolo ==
  ASSUME StateOK, Solo, NEW c \in Callers, Alone(c), StartSend(c)
  PROVE  Solo'
<1>0. /\ \A r \in Recs : Wanted(r) <=> Ask(r) \in stray \/ Waits(c, r)
      /\ \A r \in Recs : Wanted(r)' <=> Ask(r) \in stray' \/ Waits(c, r)'
      /\ \A r \in Recs : Reserving(r) <=> pc[c] \in {"start arm", "start send"} /\ rec[c] = r
      /\ \A r \in Recs : Reserving(r)' <=> pc'[c] \in {"start arm", "start send"} /\ rec'[c] = r
      /\ \A d \in Callers, r \in Recs : (Waits(d, r) => d = c) /\ (Waits(d, r)' => d = c)
      /\ Knows(c)' => \A d \in Callers : Knows(d)'
  BY AloneFacts
<1>1. /\ pc \in [Callers -> PCs] /\ pc[c] = "start send" /\ rec[c] \in Recs
      /\ req \in [Callers -> {"none", "pending", "done", "refused"}]
  BY TypeSplit DEF CallsType, HasRec, StartPCs, CompPCs, StartSend, Send
<1> DEFINE k == rec[c]
<1>2. /\ pc'[c] = "start wait" /\ req'[c] = "pending"
      /\ UNCHANGED <<row, mstate, rec, stray, remote>>
  BY <1>1 DEF StartSend, Send, Goto
<1>3. Held(k) /\ remote[k] = "none" /\ ~Wanted(k)  BY <1>1 DEF Solo, Knows
<1>4. \A r \in Recs : Waits(c, r)' <=> r = k  BY <1>2 DEF Waits
<1>5. \A r \in Recs : ~Waits(c, r)  BY <1>1 DEF Waits
<1>6. \A r \in Recs : Wanted(r)' <=> (Wanted(r) \/ r = k)
  BY <1>0, <1>2, <1>4, <1>5 DEF Wanted, Ask
<1>7. Stake(k)  BY <1>1 DEF Stake, Reserving
<1>8. \A r \in Recs : Stake(r)' => Stake(r)
  BY <1>0, <1>2, <1>6, <1>7 DEF Stake, Claimed, Reserving
<1>9. ASSUME NEW r \in Recs  PROVE AskedOnce(r)'
  <2>1. remote'[r] # "none" => ~Wanted(r)'
    BY <1>2, <1>3, <1>6 DEF Solo, AskedOnce
  <2>2. Waits(c, r)' => Ask(r)' \notin stray'
    BY <1>2, <1>3, <1>4 DEF Wanted, Ask
  <2>q. QED  BY <1>0, <2>1, <2>2 DEF AskedOnce
<1>10. \A r \in Recs : Claimed(r)' => Held(r)'
  BY <1>2, <1>3, <1>6 DEF Solo, Claimed, Held
<1>11. Knows(c)'  BY <1>2 DEF Knows
<1>12. \A r \in Recs : RowKept(r)  BY <1>2 DEF RowKept
<1>q. QED  BY <1>0, <1>2, <1>8, <1>9, <1>10, <1>11, <1>12, SoloFrame

(* The other statements of the commands. *)
LEMMA OutcomeSolo ==
  ASSUME StateOK, Lifecycle, Solo, NEW c \in Callers, Alone(c),
         \/ StartRefused(c) \/ StartMark(c) \/ StartMarkFails(c) \/ CompSend(c) \/ CompOk(c)
         \/ StopRead(c) \/ StopBegin(c) \/ StopMark(c)
  PROVE  Solo'
<1>0. /\ \A r \in Recs : Wanted(r) <=> Ask(r) \in stray \/ Waits(c, r)
      /\ \A r \in Recs : Wanted(r)' <=> Ask(r) \in stray' \/ Waits(c, r)'
      /\ \A r \in Recs : Reserving(r) <=> pc[c] \in {"start arm", "start send"} /\ rec[c] = r
      /\ \A r \in Recs : Reserving(r)' <=> pc'[c] \in {"start arm", "start send"} /\ rec'[c] = r
      /\ \A d \in Callers, r \in Recs : (Waits(d, r) => d = c) /\ (Waits(d, r)' => d = c)
      /\ Knows(c)' => \A d \in Callers : Knows(d)'
  BY AloneFacts
<1>1. /\ pc \in [Callers -> PCs] /\ row \in [Recs -> Row]
      /\ req \in [Callers -> {"none", "pending", "done", "refused"}]
      /\ rec \in [Callers -> Recs \cup {None}]
      /\ pc[c] \in HasRec => rec[c] \in Recs
  BY TypeSplit DEF CallsType, RowsType
<1>2. pc'[c] \in Easy => pc'[c] \notin {"start arm", "start send", "start wait"}  BY DEF Easy
<1>3. ASSUME Return(c)  PROVE pc'[c] = "idle" /\ pc'[c] \in Easy
  BY <1>1, <1>3, EasyPlaces DEF Return
<1>4. CASE StartRefused(c)
  <2>1. /\ pc[c] = "start wait" /\ req[c] = "refused" /\ pc'[c] = "start release"
        /\ stray' = stray \cup Lost(c) /\ UNCHANGED <<row, mstate, rec, remote>>
    BY <1>1, <1>4 DEF StartRefused, Receive, Goto
  <2>2. Lost(c) = {} /\ stray' = stray  BY <2>1 DEF Lost
  <2>3. ~Claimed(rec[c])  BY <2>1 DEF Solo, Knows
  <2>4. \A r \in Recs : ~Waits(c, r)'  BY <2>1 DEF Waits
  <2>5. rec[c] \in Recs  BY <1>1, <2>1 DEF HasRec, StartPCs, CompPCs
  <2>6. ~Claimed(rec[c])'
    BY <1>0, <2>1, <2>2, <2>3, <2>4, <2>5 DEF Claimed, Wanted, Ask
  <2>7. Knows(c)'  BY <2>1, <2>6 DEF Knows
  <2>q. QED  BY <2>1, <2>7, PlainSolo DEF Plain
<1>5. CASE StartMarkFails(c)
  <2>1. /\ pc[c] = "start mark" /\ pc'[c] = "comp send"
        /\ UNCHANGED <<row, mstate, rec, stray, remote>>
    BY <1>1, <1>5 DEF StartMarkFails, Goto
  <2>2. remote[rec[c]] # "none"  BY <2>1 DEF Lifecycle, CallShape
  <2>3. Knows(c)'  BY <2>1, <2>2 DEF Knows
  <2>q. QED  BY <2>1, <2>3, PlainSolo DEF Plain
<1>6. CASE CompSend(c)
  <2>1. /\ pc[c] = "comp send" /\ pc'[c] = "comp wait" /\ req'[c] = "pending"
        /\ UNCHANGED <<row, mstate, rec, stray, remote>>
    BY <1>1, <1>6 DEF CompSend, Send, Goto
  <2>2. remote[rec[c]] # "none"  BY <2>1 DEF Solo, Knows
  <2>3. Knows(c)'  BY <2>1, <2>2 DEF Knows
  <2>q. QED  BY <2>1, <2>3, PlainSolo DEF Plain
<1>7. CASE CompOk(c)
  <2>1. /\ pc[c] = "comp wait" /\ req[c] = "done" /\ pc'[c] = "comp release"
        /\ stray' = stray \cup Lost(c) /\ UNCHANGED <<row, mstate, rec, remote>>
    BY <1>1, <1>7 DEF CompOk, Receive, Goto
  <2>2. Lost(c) = {} /\ stray' = stray  BY <2>1 DEF Lost
  <2>3. rec[c] \in Recs  BY <1>1, <2>1 DEF HasRec, StartPCs, CompPCs
  <2>4. remote[rec[c]] = "ended"  BY <2>1 DEF Solo, Knows
  <2>5. ~Wanted(rec[c])  BY <2>3, <2>4 DEF Solo, AskedOnce
  <2>6. \A r \in Recs : ~Waits(c, r)'  BY <2>1 DEF Waits
  <2>7. ~Claimed(rec[c])'
    BY <1>0, <2>1, <2>2, <2>3, <2>4, <2>5, <2>6 DEF Claimed, Wanted, Ask
  <2>8. Knows(c)'  BY <2>1, <2>7 DEF Knows
  <2>q. QED  BY <2>1, <2>8, PlainSolo DEF Plain
<1>8. CASE StopRead(c)
  <2>1. pc[c] = "stop read" /\ UNCHANGED <<row, mstate, stray, remote>>
    BY <1>8 DEF StopRead
  <2>2. CASE Return(c)
    BY <1>2, <1>3, <2>1, <2>2, PlainSolo DEF Plain
  <2>3. ASSUME NEW r \in ActiveRecs(mtg[c]), row[r].egress \/ MayRelease(r),
               Goto(c, IF row[r].egress THEN "stop begin" ELSE "stop release"),
               rec' = [rec EXCEPT ![c] = r]
        PROVE  Solo'
    <3>1. r \in Recs /\ rec'[c] = r  BY <1>1, <2>3 DEF ActiveRecs
    <3>2. CASE row[r].egress
      <4>1. pc'[c] = "stop begin"  BY <1>1, <2>3, <3>2 DEF Goto
      <4>2. pc'[c] \in Easy  BY <4>1, EasyPlaces
      <4>q. QED  BY <1>2, <2>1, <4>2, PlainSolo DEF Plain
    <3>3. CASE ~row[r].egress
      <4>1. pc'[c] = "stop release" /\ MayRelease(r)  BY <1>1, <2>3, <3>3 DEF Goto
      <4>2. ~Held(r)  BY <4>1 DEF MayRelease, IsStarting, Held
      <4>3. ~Claimed(r)  BY <3>1, <4>2 DEF Solo
      <4>4. ~Waits(c, r)'  BY <4>1 DEF Waits
      <4>5. ~Claimed(r)'  BY <1>0, <2>1, <3>1, <4>3, <4>4 DEF Claimed, Wanted, Ask
      <4>6. Knows(c)'  BY <3>1, <4>1, <4>5 DEF Knows
      <4>q. QED  BY <2>1, <4>1, <4>6, PlainSolo DEF Plain
    <3>q. QED  BY <3>2, <3>3
  <2>q. QED  BY <1>8, <2>2, <2>3 DEF StopRead
<1>9. CASE StartMark(c) \/ StopBegin(c) \/ StopMark(c)
  <2> DEFINE k == rec[c]
  <2>1. /\ pc[c] \in {"start mark", "stop begin", "stop mark"}
        /\ UNCHANGED <<mstate, stray, remote>>
    BY <1>9 DEF StartMark, StopBegin, StopMark
  <2>2. k \in Recs  BY <1>1, <2>1 DEF HasRec, StartPCs, CompPCs, StopPCs
  <2>3. \/ pc'[c] \in Easy
        \/ pc'[c] = "comp send" /\ Knows(c)'
    <3>1. CASE Goto(c, "comp send") /\ rec' = rec /\ pc[c] = "start mark"
      <4>1. remote[k] # "none"  BY <3>1 DEF Lifecycle, CallShape
      <4>2. pc'[c] = "comp send" /\ remote'[rec'[c]] # "none"  BY <1>1, <2>1, <3>1, <4>1 DEF Goto
      <4>q. QED  BY <4>2 DEF Knows
    <3>2. \/ Return(c) \/ Goto(c, "stop send")
          \/ Goto(c, "comp send") /\ rec' = rec /\ pc[c] = "start mark"
      BY <1>9 DEF StartMark, StopBegin, StopMark
    <3>q. QED  BY <1>1, <1>3, <3>1, <3>2, EasyPlaces DEF Goto
  <2>4. ASSUME StopMark(c)  PROVE ~Claimed(k)
    <3>1. remote[k] = "ended"  BY <2>4 DEF StopMark, Lifecycle, CallShape
    <3>q. QED  BY <2>2, <3>1 DEF Claimed, Solo, AskedOnce
  <2>5. ASSUME NEW r \in Recs  PROVE (Claimed(r) => Held(r)') /\ RowKept(r)
    <3>1. /\ row'[r] # row[r] => /\ r = k /\ row[r].status \notin {"absent", "deleted"}
                                 /\ row'[r].meeting = row[r].meeting
                                 /\ \/ row'[r].status \in {"recording", "stopping"}
                                    \/ row'[r].status = "stopped" /\ ~Claimed(r)
      <4>1. row[k] \in Row  BY <1>1, <2>2
      <4>2. CASE StartMark(c)
        <5>1. /\ row' = [row EXCEPT ![k] = [@ EXCEPT !.status = "recording", !.egress = TRUE]]
              /\ row[k].status = "starting"
          BY <4>2 DEF StartMark, IsStarting
        <5>q. QED  BY <1>1, <2>2, <4>1, <5>1 DEF Row
      <4>3. CASE StopBegin(c)
        <5>1. \/ UNCHANGED row
              \/ /\ row' = [row EXCEPT ![k] = [@ EXCEPT !.status = "stopping",
                                !.error = "stop in flight", !.attempts = row[k].attempts + 1]]
                 /\ row[k].status \in {"recording", "stopping"}
          BY <4>3 DEF StopBegin, MayBeginStop
        <5>2. CASE UNCHANGED row  BY <5>2
        <5>3. CASE ~UNCHANGED row
          <6>1. row[k].status \in {"recording", "stopping"}  BY <5>1, <5>3
          <6>2. row'[k].status = "stopping" /\ row'[k].meeting = row[k].meeting
            <7>1. row'[k] = [row[k] EXCEPT !.status = "stopping", !.error = "stop in flight",
                                           !.attempts = row[k].attempts + 1]
              BY <1>1, <2>2, <5>1, <5>3
            <7>q. QED  BY <4>1, <7>1 DEF Row
          <6>3. r # k => row'[r] = row[r]  BY <1>1, <5>1, <5>3
          <6>q. QED  BY <6>1, <6>2, <6>3
        <5>q. QED  BY <5>2, <5>3
      <4>4. CASE StopMark(c)
        <5>1. row' = IF row[k].status \in {"recording", "stopping"}
                     THEN [row EXCEPT ![k] = [@ EXCEPT !.status = "stopped", !.error = "null"]]
                     ELSE row
          BY <4>4 DEF StopMark
        <5>2. ~Claimed(k)  BY <2>4, <4>4
        <5>q. QED  BY <1>1, <2>2, <4>1, <5>1, <5>2 DEF Row
      <4>q. QED  BY <1>9, <4>2, <4>3, <4>4
    <3>2. CASE row'[r] = row[r]  BY <3>2 DEF Solo, Held, RowKept
    <3>3. CASE row'[r] # row[r]  BY <3>1, <3>3 DEF Held, RowKept
    <3>q. QED  BY <3>2, <3>3
  <2>q. QED  BY <1>2, <2>1, <2>3, <2>5, LeaveSolo
<1>q. QED  BY <1>4, <1>5, <1>6, <1>7, <1>8, <1>9

(* The service, the clock and the meeting. *)
LEMMA ServeSolo ==
  ASSUME StateOK, Solo, NEW c \in Callers, Alone(c), Serve(c) \/ Refuse(c)
  PROVE  Solo'
<1>0. /\ \A r \in Recs : Wanted(r) <=> Ask(r) \in stray \/ Waits(c, r)
      /\ \A r \in Recs : Wanted(r)' <=> Ask(r) \in stray' \/ Waits(c, r)'
      /\ \A r \in Recs : Reserving(r) <=> pc[c] \in {"start arm", "start send"} /\ rec[c] = r
      /\ \A r \in Recs : Reserving(r)' <=> pc'[c] \in {"start arm", "start send"} /\ rec'[c] = r
      /\ \A d \in Callers, r \in Recs : (Waits(d, r) => d = c) /\ (Waits(d, r)' => d = c)
      /\ Knows(c)' => \A d \in Callers : Knows(d)'
  BY AloneFacts
<1>1. /\ pc[c] \in WaitPCs /\ req[c] = "pending" /\ rec[c] \in Recs
      /\ req \in [Callers -> {"none", "pending", "done", "refused"}]
      /\ remote \in [Recs -> {"none", "live", "ended"}]
      /\ UNCHANGED <<row, mstate, pc, rec, stray>>
      /\ req'[c] \in {"done", "refused"}
  BY TypeSplit DEF CallsType, OtherType, HasRec, StartPCs, CompPCs, StopPCs, WaitPCs, Serve, Refuse
<1> DEFINE k == rec[c]
<1>2. \A r \in Recs : ~Waits(c, r)'  BY <1>1 DEF Waits
<1>3. \A r \in Recs : Wanted(r)' => Wanted(r)  BY <1>0, <1>1, <1>2 DEF Wanted, Ask
<1>4. \A r \in Recs : Reserving(r)' => Reserving(r)  BY <1>1 DEF Reserving
<1>5. \A r \in Recs : (Held(r)' <=> Held(r)) /\ RowKept(r)  BY <1>1 DEF Held, RowKept
<1>6. CASE pc[c] = "start wait"
  <2>1. Waits(c, k) /\ Wanted(k) /\ Claimed(k) /\ Ask(k) \notin stray /\ remote[k] = "none"
    BY <1>1, <1>6 DEF Solo, Waits, Wanted, Claimed, AskedOnce
  <2>2. ~Wanted(k)'  BY <1>0, <1>1, <1>2, <2>1 DEF Wanted, Ask
  <2>3. \A r \in Recs : r # k => remote'[r] = remote[r]
    BY <1>1 DEF Serve, Refuse, Execute
  <2>4. \A r \in Recs : Claimed(r)' => Claimed(r)
    BY <1>3, <2>1, <2>3 DEF Claimed
  <2>5. \A r \in Recs : AskedOnce(r)'
    <3>1. SUFFICES ASSUME NEW r \in Recs  PROVE AskedOnce(r)'
      OBVIOUS
    <3>2. remote'[r] # "none" => ~Wanted(r)'
      <4>1. CASE r = k  BY <1>1, <2>2, <4>1
      <4>2. CASE r # k  BY <1>3, <2>3, <4>2 DEF Solo, AskedOnce
      <4>q. QED  BY <4>1, <4>2
    <3>3. \A d \in Callers : ~Waits(d, r)'  BY <1>0, <1>2
    <3>q. QED  BY <3>2, <3>3 DEF AskedOnce
  <2>6. Knows(c)'
    <3>1. CASE Serve(c)
      <4>1. req'[c] = "done"  BY <1>1, <3>1 DEF Serve
      <4>q. QED  BY <1>1, <1>6, <4>1 DEF Knows
    <3>2. CASE Refuse(c)
      <4>1. remote' = remote  BY <3>2 DEF Refuse
      <4>2. ~Claimed(k)'  BY <1>1, <2>1, <2>2, <4>1 DEF Claimed
      <4>q. QED  BY <1>1, <1>6, <4>2 DEF Knows
    <3>q. QED  BY <3>1, <3>2
  <2>q. QED  BY <1>0, <1>1, <1>4, <1>5, <2>1, <2>3, <2>4, <2>5, <2>6, SoloFrame DEF Solo, Stake
<1>7. CASE pc[c] # "start wait"
  <2>1. \A r \in Recs : \/ remote'[r] = remote[r]
                        \/ r = k /\ remote[r] = "live" /\ remote'[r] = "ended"
    <3>1. CASE Serve(c)
      <4>1. Execute("stop", k)  BY <1>7, <3>1 DEF Serve, Op
      <4>2. CASE remote[k] = "live"
        <5>1. remote' = [remote EXCEPT ![k] = "ended"]  BY <4>1, <4>2 DEF Execute
        <5>q. QED  BY <1>1, <4>2, <5>1
      <4>3. CASE remote[k] # "live"
        <5>1. remote' = remote  BY <4>1, <4>3 DEF Execute
        <5>q. QED  BY <5>1
      <4>q. QED  BY <4>2, <4>3
    <3>2. CASE Refuse(c)  BY <3>2 DEF Refuse
    <3>q. QED  BY <3>1, <3>2
  <2>2. \A r \in Recs : Claimed(r)' => Claimed(r)
    BY <1>3, <2>1 DEF Claimed
  <2>3. \A r \in Recs : AskedOnce(r)'
    BY <1>0, <1>2, <1>3, <2>1 DEF Solo, AskedOnce
  <2>4. Knows(c)'
    <3>1. pc[c] \in {"comp wait", "stop wait"}  BY <1>1, <1>7 DEF WaitPCs
    <3>2. pc[c] = "comp wait" => remote[k] # "none" /\ remote'[k] # "none"
      BY <1>1, <2>1 DEF Solo, Knows
    <3>3. ASSUME pc[c] = "comp wait", req'[c] = "done"  PROVE remote'[k] = "ended"
      <4>1. Serve(c)  BY <1>1, <3>3 DEF Refuse
      <4>2. remote[k] = "live" => remote'[k] = "ended"
        BY <1>1, <1>7, <4>1 DEF Serve, Execute, Op
      <4>3. remote[k] \in {"live", "ended"}  BY <1>1, <3>2, <3>3
      <4>q. QED  BY <1>1, <2>1, <4>2, <4>3
    <3>q. QED  BY <1>1, <3>1, <3>2, <3>3 DEF Knows
  <2>5. \A r \in Recs : remote'[r] = remote[r] \/ Claimed(r)  BY <2>1 DEF Claimed
  <2>q. QED  BY <1>0, <1>1, <1>4, <1>5, <2>2, <2>3, <2>4, <2>5, SoloFrame DEF Solo, Stake
<1>q. QED  BY <1>6, <1>7

(* A job ends, or a request nobody waits for is executed. *)
LEMMA EnvironmentSolo ==
  ASSUME StateOK, Solo, ServeStray \/ \E r \in Recs : JobEnds(r)
  PROVE  Solo'
<1>1. /\ UNCHANGED <<row, mstate, caller>> /\ remote \in [Recs -> {"none", "live", "ended"}]
      /\ stray' \subseteq stray
  BY TypeSplit DEF OtherType, ServeStray, JobEnds
<1>2. \A c \in Callers, r \in Recs : Waits(c, r)' <=> Waits(c, r)
  BY <1>1 DEF Waits, caller
<1>3. \A r \in Recs : Wanted(r)' => Wanted(r)  BY <1>1, <1>2 DEF Wanted, Ask
<1>4. ASSUME NEW r \in Recs
      PROVE  \/ remote'[r] = remote[r]
             \/ remote[r] = "live" /\ remote'[r] = "ended"
             \/ remote[r] = "none" /\ remote'[r] = "live" /\ Wanted(r) /\ ~Wanted(r)'
  <2>1. CASE \E q \in Recs : JobEnds(q)  BY <1>1, <2>1 DEF JobEnds
  <2>2. ASSUME NEW q \in stray, Execute(q.op, q.rec), stray' = stray \ {q}
        PROVE  \/ remote'[r] = remote[r]
               \/ remote[r] = "live" /\ remote'[r] = "ended"
               \/ remote[r] = "none" /\ remote'[r] = "live" /\ Wanted(r) /\ ~Wanted(r)'
    <3>1. q = [op |-> q.op, rec |-> q.rec] /\ q.rec \in Recs /\ q.op \in {"start", "stop"}
      BY TypeSplit DEF OtherType, Request
    <3>2. CASE q.rec = r /\ q.op = "start" /\ remote[r] = "none"
      <4>1. q = Ask(r)  BY <3>1, <3>2 DEF Ask
      <4>2. remote'[r] = "live"  BY <1>1, <2>2, <3>2 DEF Execute
      <4>3. \A c \in Callers : ~Waits(c, r)  BY <2>2, <4>1 DEF Solo, AskedOnce
      <4>4. Wanted(r) /\ ~Wanted(r)'  BY <1>2, <2>2, <4>1, <4>3 DEF Wanted, Ask
      <4>q. QED  BY <3>2, <4>2, <4>4
    <3>3. CASE ~(q.rec = r /\ q.op = "start" /\ remote[r] = "none")
      BY <1>1, <2>2, <3>1, <3>3 DEF Execute
    <3>q. QED  BY <3>2, <3>3
  <2>q. QED  BY <2>1, <2>2 DEF ServeStray
<1>5. \A r \in Recs : Claimed(r)' => Claimed(r)  BY <1>3, <1>4 DEF Claimed
<1>6. \A r \in Recs : Stake(r)' => Stake(r)  BY <1>1, <1>5 DEF Stake, Reserving, caller
<1>7. \A r \in Recs : (Held(r)' <=> Held(r)) /\ RowKept(r)  BY <1>1 DEF Held, RowKept
<1>8. ASSUME NEW r \in Recs  PROVE AskedOnce(r)'
  <2>1. remote'[r] # "none" => ~Wanted(r)'  BY <1>3, <1>4 DEF Solo, AskedOnce
  <2>2. \A c \in Callers : Waits(c, r)' => Ask(r)' \notin stray'
    BY <1>1, <1>2 DEF Solo, AskedOnce, Ask
  <2>q. QED  BY <2>1, <2>2 DEF AskedOnce
<1>9. ASSUME NEW c \in Callers  PROVE Knows(c)'
  <2>1. Knows(c) /\ pc'[c] = pc[c] /\ rec'[c] = rec[c] /\ req'[c] = req[c] /\ row' = row
    BY <1>1 DEF Solo, caller
  <2>2. pc[c] \in HasRec => rec[c] \in Recs  BY TypeSplit DEF CallsType
  <2>3. CASE pc[c] \in HasRec
    <3>1. PICK k \in Recs : k = rec[c] /\ k = rec'[c]  BY <2>1, <2>2, <2>3
    <3>2. /\ ~Claimed(k) => ~Claimed(k)'
          /\ remote[k] = "none" /\ ~Wanted(k) => remote'[k] = "none" /\ ~Wanted(k)'
          /\ remote[k] # "none" => remote'[k] # "none"
          /\ remote[k] = "ended" => remote'[k] = "ended"
          /\ Held(k)' <=> Held(k)
      BY <1>3, <1>4, <1>5, <1>7, <3>1
    <3>q. QED  BY <2>1, <3>1, <3>2 DEF Knows
  <2>4. CASE pc[c] \notin HasRec
    BY <2>1, <2>4 DEF Knows, HasRec, StartPCs, CompPCs, StopPCs
  <2>q. QED  BY <2>3, <2>4
<1>10. \A r \in Recs : remote'[r] = remote[r] \/ Claimed(r)  BY <1>4 DEF Claimed
<1>q. QED  BY <1>1, <1>5, <1>6, <1>7, <1>8, <1>9, <1>10, SoloFrame DEF Solo

LEMMA MeetingSolo ==
  ASSUME StateOK, Lifecycle, Solo,
         (\E r \in Recs : TtlElapses(r))
           \/ \E m \in Meetings : ArchiveMeeting(m) \/ DeleteMeeting(m)
  PROVE  Solo'
<1>1. row \in [Recs -> Row] /\ UNCHANGED <<pc, rec, req, stray, remote>>
  BY TypeSplit DEF RowsType, TtlElapses, ArchiveMeeting, DeleteMeeting, caller
<1>2. \A c \in Callers, r \in Recs : Waits(c, r)' <=> Waits(c, r)  BY <1>1 DEF Waits
<1>3. \A r \in Recs : Wanted(r)' <=> Wanted(r)  BY <1>1, <1>2 DEF Wanted, Ask
<1>4. \A r \in Recs : (Claimed(r)' <=> Claimed(r)) /\ (Stake(r)' <=> Stake(r))
  BY <1>1, <1>3 DEF Claimed, Stake, Reserving
<1>5. \A r \in Recs : AskedOnce(r)'
  BY <1>1, <1>2, <1>3 DEF Solo, AskedOnce, Ask
<1>6. ASSUME NEW r \in Recs
      PROVE  /\ row'[r].meeting = row[r].meeting /\ row'[r].error = row[r].error
             /\ row'[r].status \in {row[r].status, "deleted"}
             /\ Past(r)'
  <2>1. row[r] \in Row /\ Past(r)  BY <1>1 DEF Solo
  <2>2. CASE \E q \in Recs : TtlElapses(q)
    <3>1. UNCHANGED mstate /\ (row'[r] = row[r] \/ row'[r] = [row[r] EXCEPT !.stale = TRUE])
      BY <1>1, <2>2 DEF TtlElapses
    <3>q. QED  BY <1>1, <2>1, <3>1 DEF Row, Past
  <2>3. ASSUME NEW m \in Meetings, ArchiveMeeting(m)
        PROVE  /\ row'[r].meeting = row[r].meeting /\ row'[r].error = row[r].error
               /\ row'[r].status \in {row[r].status, "deleted"}
               /\ Past(r)'
    <3>1. \A n \in Meetings : mstate[n] = "deleted" => mstate'[n] = "deleted"
      BY <2>3, TypeSplit DEF ArchiveMeeting, OtherType
    <3>q. QED  BY <1>1, <2>1, <2>3, <3>1 DEF Past, ArchiveMeeting
  <2>4. ASSUME NEW m \in Meetings, DeleteMeeting(m)
        PROVE  /\ row'[r].meeting = row[r].meeting /\ row'[r].error = row[r].error
               /\ row'[r].status \in {row[r].status, "deleted"}
               /\ Past(r)'
    <3>1. row'[r] = IF row[r].meeting = m THEN [row[r] EXCEPT !.status = "deleted"] ELSE row[r]
      BY <2>4 DEF DeleteMeeting
    <3>2. mstate'[m] = "deleted" /\ \A n \in Meetings : n # m => mstate'[n] = mstate[n]
      BY <2>4, TypeSplit DEF DeleteMeeting, OtherType
    <3>3. CASE row[r].meeting = m
      <4>1. /\ row'[r].status = "deleted" /\ row'[r].meeting = m
            /\ row'[r].error = row[r].error
        BY <2>1, <3>1, <3>3 DEF Row
      <4>q. QED  BY <3>2, <3>3, <4>1 DEF Past
    <3>4. CASE row[r].meeting # m
      BY <1>1, <2>1, <3>1, <3>2, <3>4 DEF Past
    <3>q. QED  BY <3>3, <3>4
  <2>q. QED  BY <2>2, <2>3, <2>4
<1>7. \A r \in Recs : Held(r) => Held(r)'  BY <1>6 DEF Held
<1>8. ASSUME NEW c \in Callers  PROVE Knows(c)'
  <2>1. Knows(c) /\ pc'[c] = pc[c] /\ rec'[c] = rec[c] /\ req'[c] = req[c] /\ remote' = remote
    BY <1>1 DEF Solo
  <2>2. pc[c] \in HasRec => rec[c] \in Recs  BY TypeSplit DEF CallsType
  <2>3. CASE pc[c] \in HasRec
    <3>1. PICK k \in Recs : k = rec[c] /\ k = rec'[c]  BY <2>1, <2>2, <2>3
    <3>2. /\ Claimed(k)' <=> Claimed(k)
          /\ Wanted(k)' <=> Wanted(k)
          /\ Held(k) => Held(k)'
          /\ row'[k].status \in {row[k].status, "deleted"}
      BY <1>3, <1>4, <1>6, <1>7
    <3>q. QED  BY <2>1, <3>1, <3>2 DEF Knows
  <2>4. CASE pc[c] \notin HasRec
    BY <2>1, <2>4 DEF Knows, HasRec, StartPCs, CompPCs, StopPCs
  <2>q. QED  BY <2>3, <2>4
<1>9. OneStake'  BY <1>4, <1>6 DEF Solo, OneStake
<1>10. \A r \in Recs : Claimed(r)' => Held(r)'  BY <1>4, <1>7 DEF Solo
<1>q. QED  BY <1>5, <1>6, <1>8, <1>9, <1>10 DEF Solo

(* A caller's step that leaves at most one execution under way is made      *)
(* while every other execution stands idle.                                 *)
LEMMA StepIsAlone ==
  ASSUME StateOK, OneAtATime, OneAtATime', NEW c \in Callers,
         StartStep(c) \/ StopStep(c) \/ Abandon(c) \/ Serve(c) \/ Refuse(c)
  PROVE  Alone(c)
<1> DEFINE Moves == \E l : pc' = [pc EXCEPT ![c] = l] /\ (pc[c] # "idle" \/ l # "idle")
<1>1. pc \in [Callers -> PCs]  BY TypeSplit DEF CallsType
<1>0. SUFFICES Moves
  <2>1. ASSUME Moves
        PROVE  /\ \A d \in Callers \ {c} : pc'[d] = pc[d]
               /\ pc[c] # "idle" \/ pc'[c] # "idle"
    BY <1>1, <2>1
  <2>q. QED  BY <2>1 DEF OneAtATime, Alone
<1>2. ASSUME NEW l, Goto(c, l) \/ (Return(c) /\ l = "idle"), pc[c] # "idle" \/ l # "idle"
      PROVE  Moves
  BY <1>2 DEF Goto, Return
<1>3. ASSUME NEW m \in Meetings, StartExpire(c, m) \/ StopExpire(c, m)  PROVE Moves
  BY <1>2, <1>3 DEF StartExpire, StopExpire
<1>4. CASE StartReserve(c) \/ StartArm(c) \/ StartSend(c)
  BY <1>2, <1>4 DEF StartReserve, StartArm, StartSend, Send
<1>5. ASSUME Receive(c, "start wait", {"done"}, "start mark")
               \/ Receive(c, "start wait", {"refused"}, "start release")
               \/ Receive(c, "start wait", {"pending", "done", "refused"}, "start hold")
      PROVE  Moves
  BY <1>2, <1>5 DEF Receive
<1>6. CASE StartRelease(c) \/ StartHold(c) \/ StartMark(c) \/ StartMarkFails(c)
  BY <1>2, <1>6 DEF StartRelease, StartHold, StartMark, StartMarkFails
<1>7. CASE CompSend(c) \/ CompOk(c) \/ CompFailed(c) \/ CompRelease(c) \/ CompHold(c)
  BY <1>2, <1>7 DEF CompSend, CompOk, CompFailed, CompRelease, CompHold, Send, Receive
<1>8. CASE StopRead(c) \/ StopRelease(c) \/ StopBegin(c) \/ StopSend(c)
  BY <1>2, <1>8 DEF StopRead, StopRelease, StopBegin, StopSend, Send
<1>9. CASE StopOk(c) \/ StopFailed(c) \/ StopFail(c) \/ StopMark(c)
  BY <1>2, <1>9 DEF StopOk, StopFailed, StopFail, StopMark, Receive
<1>10. CASE Abandon(c)  BY <1>2, <1>10 DEF Abandon
<1>11. CASE Serve(c) \/ Refuse(c)
  <2>1. pc' = pc /\ pc[c] \in WaitPCs  BY <1>11 DEF Serve, Refuse
  <2>2. pc' = [pc EXCEPT ![c] = pc[c]] /\ pc[c] # "idle"  BY <1>1, <2>1 DEF WaitPCs
  <2>q. QED  BY <2>2
<1>q. QED
  BY <1>3, <1>4, <1>5, <1>6, <1>7, <1>8, <1>9, <1>10, <1>11
  DEF StartStep, StopStep, StartOk, StartRefused, StartAmbiguous

LEMMA SoloStep ==
  ASSUME OneAtATime, OneAtATime', Lifecycle, Solo, [Next]_vars
  PROVE  Solo'
<1>1. StateOK  BY DEF Lifecycle
<1>2. ASSUME NEW c \in Callers, StartStep(c) \/ StopStep(c) \/ Abandon(c)
      PROVE  Solo'
  <2>1. Alone(c)  BY <1>1, <1>2, StepIsAlone
  <2>q. QED
    BY <1>1, <1>2, <2>1, StatementSolo, OutcomeSolo, ReserveSolo, ArmSolo, SendSolo
    DEF StartStep, StopStep
<1>3. ASSUME NEW c \in Callers, Serve(c) \/ Refuse(c)  PROVE Solo'
  <2>1. Alone(c)  BY <1>1, <1>3, StepIsAlone
  <2>q. QED  BY <1>1, <1>3, <2>1, ServeSolo
<1>4. CASE ServeStray \/ \E r \in Recs : JobEnds(r)
  BY <1>1, <1>4, EnvironmentSolo
<1>5. CASE (\E r \in Recs : TtlElapses(r))
             \/ \E m \in Meetings : ArchiveMeeting(m) \/ DeleteMeeting(m)
  BY <1>1, <1>5, MeetingSolo
<1>6. CASE UNCHANGED vars
  <2>1. /\ UNCHANGED <<row, mstate, stray, remote>>
        /\ pc' = pc /\ rec' = rec /\ req' = req
    BY <1>6 DEF vars, caller
  <2>2. \A r \in Recs : (Wanted(r)' <=> Wanted(r)) /\ (Reserving(r)' <=> Reserving(r))
    BY <2>1 DEF Wanted, Waits, Ask, Reserving
  <2>3. \A r \in Recs : /\ Claimed(r)' <=> Claimed(r)
                        /\ Stake(r)' <=> Stake(r)
                        /\ Held(r)' <=> Held(r)
                        /\ RowKept(r)
    BY <2>1, <2>2 DEF Claimed, Stake, Held, RowKept
  <2>4. \A r \in Recs : AskedOnce(r)'
    BY <2>1, <2>2 DEF Solo, AskedOnce, Waits, Ask
  <2>5. ASSUME NEW c \in Callers  PROVE Knows(c)'
    BY <2>1 DEF Solo, Knows, Claimed, Wanted, Waits, Ask, Held
  <2>q. QED  BY <2>1, <2>3, <2>4, <2>5, SoloFrame DEF Solo
<1>q. QED  BY <1>2, <1>3, <1>4, <1>5, <1>6 DEF Next

(* Until two executions overlap, Solo holds: one execution ends where it    *)
(* may, and the next one, of whichever caller, finds the rows as Solo says. *)
SoloSoFar == ~overlapped => OneAtATime /\ Solo

LEMMA SoloInvariant == Spec => []SoloSoFar
<1>1. Init => SoloSoFar
  <2>1. SUFFICES ASSUME Init  PROVE OneAtATime /\ Solo
    BY DEF SoloSoFar
  <2>2. \A r \in Recs : /\ row[r].status = "absent" /\ remote[r] = "none"
                        /\ ~Wanted(r) /\ ~Reserving(r)
    BY <2>1 DEF Init, AbsentRow, Wanted, Waits, Reserving
  <2>3. \A r \in Recs : ~Claimed(r) /\ ~Stake(r) /\ Past(r)
    BY <2>2 DEF Claimed, Stake, Past
  <2>4. \A c \in Callers : Knows(c)  BY <2>1 DEF Init, Knows
  <2>5. \A r \in Recs : AskedOnce(r)  BY <2>1, <2>2 DEF Init, AskedOnce
  <2>6. OneAtATime  BY <2>1 DEF Init, OneAtATime
  <2>q. QED  BY <2>3, <2>4, <2>5, <2>6 DEF Solo, OneStake
<1>2. Lifecycle /\ SoloSoFar /\ [Next /\ Watch]_allvars => SoloSoFar'
  <2>1. SUFFICES ASSUME Lifecycle, SoloSoFar, [Next /\ Watch]_allvars, ~overlapped'
                 PROVE  OneAtATime' /\ Solo'
    BY DEF SoloSoFar
  <2>2. CASE Next /\ Watch
    <3>1. OneAtATime' /\ ~overlapped  BY <2>1, <2>2 DEF Watch
    <3>2. OneAtATime /\ Solo  BY <2>1, <3>1 DEF SoloSoFar
    <3>q. QED  BY <2>1, <2>2, <3>1, <3>2, SoloStep
  <2>3. CASE UNCHANGED allvars
    <3>1. UNCHANGED vars /\ ~overlapped  BY <2>1, <2>3 DEF allvars
    <3>2. OneAtATime /\ Solo  BY <2>1, <3>1 DEF SoloSoFar
    <3>3. OneAtATime'  BY <3>1, <3>2 DEF OneAtATime, vars
    <3>q. QED  BY <2>1, <3>1, <3>2, <3>3, SoloStep
  <2>q. QED  BY <2>1, <2>2, <2>3
<1>q. QED  BY <1>1, <1>2, LifecycleInvariant, PTL DEF Spec

(* One command after another never leaves a live job without the row that   *)
(* holds its meeting (the comment of UNCONFIRMED_PREFIX).                   *)
THEOREM OneCommandHoldsItsJob == Spec => []AloneLiveJobHeld
<1>1. SoloSoFar => AloneLiveJobHeld
  BY DEF SoloSoFar, AloneLiveJobHeld, Solo, Claimed, Held, LiveJobHeld, Active
<1>q. QED  BY <1>1, SoloInvariant, PTL

(* One command after another never leaves a meeting with two live jobs (the *)
(* comment of active_recording).                                            *)
THEOREM OneCommandOneJob == Spec => []AloneOneLiveJob
<1>1. SoloSoFar => AloneOneLiveJob
  BY DEF SoloSoFar, AloneOneLiveJob, Solo, OneStake, Stake, Claimed, OneLiveJob
<1>q. QED  BY <1>1, SoloInvariant, PTL
=============================================================================
