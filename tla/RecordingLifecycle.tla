------------------------- MODULE RecordingLifecycle -------------------------
(***************************************************************************)
(* Call recording: src-tauri/src/calls.rs, the table meeting_recordings    *)
(* and the two commands that write it, start_meeting_recording and         *)
(* stop_meeting_recording, against a LiveKit Egress service that may lose, *)
(* delay or refuse a request, or execute it and lose the reply.            *)
(*                                                                         *)
(* One atomic action is one SQL statement or one half of an RPC, because   *)
(* the commands use no transaction: any number of callers (instances of    *)
(* the desktop application that share one database file) interleave        *)
(* between them, and a caller may stop anywhere (a crash, or a statement   *)
(* whose error "?" returns to the webview).                                *)
(***************************************************************************)
EXTENDS Naturals, FiniteSets

CONSTANTS
    Meetings,     \* meetings that can be recorded
    Recs,         \* ids of meeting_recordings rows: one Egress job each
    Callers,      \* concurrent executions of the two commands
    None,         \* "no meeting", "no recording"
    MaxAttempts   \* bound on stop_attempts, for model checking only

ASSUME NoneAssumption == None \notin Meetings \cup Recs
ASSUME MaxAttemptsAssumption == MaxAttempts \in Nat

VARIABLES
    row,       \* the table meeting_recordings, by id
    mstate,    \* meetings: open, archived or deleted
    pc,        \* where each command execution stands
    mtg,       \* the meeting a command was called for
    rec,       \* the recording it works on
    req,       \* the state of the RPC it is waiting for
    stray,     \* requests whose caller no longer waits for the reply
    remote,    \* the Egress jobs, as the service sees them
    armed,     \* history: rows whose arming UPDATE changed the row
    unmarked,  \* history: rows whose marker of a stop in flight was written over
    overlapped \* history: two executions were under way at one time

caller == <<pc, mtg, rec, req>>
vars   == <<row, mstate, pc, mtg, rec, req, stray, remote, armed, unmarked>>

-----------------------------------------------------------------------------
(* The table.  "absent" is an id not yet inserted, "deleted" a row removed  *)
(* by ON DELETE CASCADE with its meeting.                                   *)

Active == {"starting", "recording", "stopping"}
Status == Active \cup {"absent", "stopped", "failed", "deleted"}

(* last_error, up to what the code compares it with *)
Unconfirmed == {"start in flight", "stop in flight", "unconfirmed"}
LastError   == Unconfirmed \cup {"null", "abandoned"}

Row == [meeting  : Meetings \cup {None},
        status   : Status,
        egress   : BOOLEAN,      \* egress_id IS NOT NULL
        error    : LastError,
        stale    : BOOLEAN,      \* started_at <= now - ttl
        attempts : Nat]          \* stop_attempts

AbsentRow == [meeting |-> None, status |-> "absent", egress |-> FALSE,
              error |-> "null", stale |-> FALSE, attempts |-> 0]

ActiveRecs(m) == {r \in Recs : row[r].meeting = m /\ row[r].status \in Active}

-----------------------------------------------------------------------------
(* The two commands, by the statement they are about to execute.            *)

WaitPCs == {"start wait", "comp wait", "stop wait"}
StopPCs == {"stop send", "stop wait", "stop fail", "stop mark"}
CompPCs == {"comp send", "comp wait", "comp release", "comp hold"}
StartPCs == {"start arm", "start send", "start wait", "start hold",
             "start release", "start mark"} \cup CompPCs
PCs == {"idle", "start reserve", "stop read", "stop release", "stop begin"}
         \cup StartPCs \cup StopPCs

Request == [op : {"start", "stop"}, rec : Recs]

StateOK ==
    /\ row \in [Recs -> Row]
    /\ mstate \in [Meetings -> {"open", "archived", "deleted"}]
    /\ pc \in [Callers -> PCs]
    /\ mtg \in [Callers -> Meetings \cup {None}]
    /\ rec \in [Callers -> Recs \cup {None}]
    /\ req \in [Callers -> {"none", "pending", "done", "refused"}]
    /\ stray \subseteq Request
    /\ remote \in [Recs -> {"none", "live", "ended"}]
    /\ armed \subseteq Recs /\ unmarked \subseteq Recs
    /\ \A c \in Callers : pc[c] \in StartPCs \cup StopPCs \cup {"stop release", "stop begin"}
                             => rec[c] \in Recs
    /\ \A c \in Callers : pc[c] \in {"start reserve", "stop read"} => mtg[c] \in Meetings

TypeOK == StateOK /\ overlapped \in BOOLEAN

Init ==
    /\ row      = [r \in Recs |-> AbsentRow]
    /\ mstate   = [m \in Meetings |-> "open"]
    /\ pc       = [c \in Callers |-> "idle"]
    /\ mtg      = [c \in Callers |-> None]
    /\ rec      = [c \in Callers |-> None]
    /\ req      = [c \in Callers |-> "none"]
    /\ stray    = {}
    /\ remote   = [r \in Recs |-> "none"]
    /\ armed    = {}
    /\ unmarked = {}
    /\ overlapped = FALSE

Goto(c, l) == pc' = [pc EXCEPT ![c] = l]

(* The command returns to its caller. *)
Return(c) ==
    /\ pc'  = [pc  EXCEPT ![c] = "idle"]
    /\ mtg' = [mtg EXCEPT ![c] = None]
    /\ rec' = [rec EXCEPT ![c] = None]
    /\ req' = [req EXCEPT ![c] = "none"]

-----------------------------------------------------------------------------
(* Faulty variants of the statements below; each breaks a property.         *)

Mut_AnyStatus(r)         == row[r].status # "absent"   \* no status guard
Mut_StopsTwice(r)        == row[r].status \in {"recording", "stopping"}
Mut_ExpiresArmed(r)      == row[r].status = "starting" /\ row[r].stale
Mut_RetireOnStopFail(r)  == row' = [row EXCEPT ![r].status = "failed"]
Mut_ReleaseOnTimeout(r)  == row' = [row EXCEPT ![r].status = "failed"]

-----------------------------------------------------------------------------
(* SQL statements, as functions of the row they update.  An UPDATE whose    *)
(* WHERE clause misses changes nothing and reports 0 rows.                  *)

(* WHERE status='starting': mark_start_rpc_in_flight, mark_recording_failed *)
(* and mark_recording_started                                               *)
IsStarting(r) == row[r].status = "starting"

(* the CAS of begin_recording_stop *)
MayBeginStop(r) ==
    \/ row[r].status = "recording"
    \/ /\ row[r].status = "stopping"
       /\ row[r].error \notin {"null", "stop in flight"}

StopInFlight(r) == row[r].status = "stopping" /\ row[r].error = "stop in flight"

(* may_release_unstarted_reservation, on the row as it was read *)
MayRelease(r) ==
    ~row[r].egress /\ IsStarting(r) /\ row[r].error \notin Unconfirmed

Expired(r) ==
    /\ IsStarting(r) /\ ~row[r].egress
    /\ row[r].error = "null" /\ row[r].stale

(* expire_stale_lifecycle: one UPDATE over the whole table *)
ExpireStale ==
    row' = [r \in Recs |->
              IF Expired(r)
              THEN [row[r] EXCEPT !.status = "failed", !.error = "abandoned"]
              ELSE row[r]]

(* mark_recording_stop_failed *)
MarkStopFailed(r) ==
    row' = IF row[r].status = "stopping" THEN [row EXCEPT ![r].error = "unconfirmed"] ELSE row

(* mark_recording_failed *)
MarkFailed(r) ==
    row' = IF IsStarting(r) THEN [row EXCEPT ![r].status = "failed"] ELSE row

(* mark_recording_unconfirmed: no condition on the status *)
MarkUnconfirmed(r) ==
    row' = IF row[r].status = "deleted" THEN row
           ELSE [row EXCEPT ![r].error = "unconfirmed"]

-----------------------------------------------------------------------------
(* start_meeting_recording_with_config                                      *)

StartExpire(c, m) ==
    /\ pc[c] = "idle"
    /\ mstate[m] = "open"
    /\ ExpireStale
    /\ Goto(c, "start reserve")
    /\ mtg' = [mtg EXCEPT ![c] = m]
    /\ UNCHANGED <<mstate, rec, req, stray, remote, armed, unmarked>>

(* reserve_recording: the partial unique index refuses a second active row, *)
(* the foreign key a meeting deleted since it was authorized.               *)
StartReserve(c) ==
    /\ pc[c] = "start reserve"
    /\ \/ /\ ActiveRecs(mtg[c]) = {} /\ mstate[mtg[c]] # "deleted"
          /\ \E r \in Recs :
               /\ row[r].status = "absent"
               /\ row' = [row EXCEPT ![r] = [@ EXCEPT !.meeting = mtg[c], !.status = "starting"]]
               /\ rec' = [rec EXCEPT ![c] = r]
          /\ Goto(c, "start arm")
          /\ UNCHANGED <<mtg, req>>
       \/ /\ ActiveRecs(mtg[c]) # {} \/ mstate[mtg[c]] = "deleted"
          /\ Return(c)
          /\ UNCHANGED row
    /\ UNCHANGED <<mstate, stray, remote, armed, unmarked>>

(* mark_start_rpc_in_flight: the number of rows changed is not looked at *)
StartArm(c) ==
    LET r == rec[c] IN
    /\ pc[c] = "start arm"
    /\ row' = IF IsStarting(r) THEN [row EXCEPT ![r].error = "start in flight"] ELSE row
    /\ armed' = IF IsStarting(r) THEN armed \cup {r} ELSE armed
    /\ Goto(c, "start send")
    /\ UNCHANGED <<mstate, mtg, rec, req, stray, remote, unmarked>>

Send(c, from, to) ==
    /\ pc[c] = from
    /\ req' = [req EXCEPT ![c] = "pending"]
    /\ Goto(c, to)
    /\ UNCHANGED <<row, mstate, mtg, rec, stray, remote, armed, unmarked>>

StartSend(c) == Send(c, "start send", "start wait")

(* The reply, or the lack of one.  A request not yet executed when its      *)
(* caller stops waiting may still be executed later.                        *)
Op(c)   == IF pc[c] = "start wait" THEN "start" ELSE "stop"
Lost(c) == IF pc[c] \in WaitPCs /\ req[c] = "pending"
           THEN {[op |-> Op(c), rec |-> rec[c]]} ELSE {}

Receive(c, from, outcome, to) ==
    /\ pc[c] = from
    /\ req[c] \in outcome
    /\ Goto(c, to)
    /\ req' = [req EXCEPT ![c] = "none"]
    /\ stray' = stray \cup Lost(c)
    /\ UNCHANGED <<row, mstate, mtg, rec, remote, armed, unmarked>>

StartOk(c)        == Receive(c, "start wait", {"done"}, "start mark")
StartRefused(c)   == Receive(c, "start wait", {"refused"}, "start release")
StartAmbiguous(c) == Receive(c, "start wait", {"pending", "done", "refused"},
                             "start hold")

(* release_or_hold *)
StartRelease(c) ==
    /\ pc[c] = "start release"
    /\ MarkFailed(rec[c])
    /\ Return(c)
    /\ UNCHANGED <<mstate, stray, remote, armed, unmarked>>

StartHold(c) ==
    /\ pc[c] = "start hold"
    /\ MarkUnconfirmed(rec[c])
    /\ Return(c)
    /\ UNCHANGED <<mstate, stray, remote, armed, unmarked>>

(* mark_recording_started: its UPDATE, and the SELECT that reads the row    *)
(* back.  It fails when the row is no longer starting or either statement   *)
(* fails; all lead to the compensating StopEgress, the last with the row    *)
(* already recording.                                                       *)
StartMark(c) ==
    /\ pc[c] = "start mark"
    /\ IsStarting(rec[c])
    /\ row' = [row EXCEPT ![rec[c]] = [@ EXCEPT !.status = "recording", !.egress = TRUE]]
    /\ \/ Return(c)
       \/ Goto(c, "comp send") /\ UNCHANGED <<mtg, rec, req>>
    /\ UNCHANGED <<mstate, stray, remote, armed, unmarked>>

StartMarkFails(c) ==
    /\ pc[c] = "start mark"
    /\ Goto(c, "comp send")
    /\ UNCHANGED <<row, mstate, mtg, rec, req, stray, remote, armed, unmarked>>

CompSend(c)   == Send(c, "comp send", "comp wait")
CompOk(c)     == Receive(c, "comp wait", {"done"}, "comp release")
CompFailed(c) == Receive(c, "comp wait", {"pending", "done", "refused"},
                         "comp hold")

CompRelease(c) ==
    /\ pc[c] = "comp release"
    /\ MarkFailed(rec[c])
    /\ Return(c)
    /\ UNCHANGED <<mstate, stray, remote, armed, unmarked>>

(* The row may be another command's by now: recording, or being stopped. *)
CompHold(c) ==
    /\ pc[c] = "comp hold"
    /\ MarkUnconfirmed(rec[c])
    /\ unmarked' = IF StopInFlight(rec[c]) THEN unmarked \cup {rec[c]} ELSE unmarked
    /\ Return(c)
    /\ UNCHANGED <<mstate, stray, remote, armed>>

-----------------------------------------------------------------------------
(* stop_meeting_recording_with_config                                       *)

StopExpire(c, m) ==
    /\ pc[c] = "idle"
    /\ mstate[m] = "open"
    /\ ExpireStale
    /\ Goto(c, "stop read")
    /\ mtg' = [mtg EXCEPT ![c] = m]
    /\ UNCHANGED <<mstate, rec, req, stray, remote, armed, unmarked>>

(* active_recording, and the branch on the row as it was read *)
StopRead(c) ==
    /\ pc[c] = "stop read"
    /\ \/ \E r \in ActiveRecs(mtg[c]) :
            /\ row[r].egress \/ MayRelease(r)
            /\ Goto(c, IF row[r].egress THEN "stop begin" ELSE "stop release")
            /\ rec' = [rec EXCEPT ![c] = r]
            /\ UNCHANGED <<mtg, req>>
       \/ /\ \A r \in ActiveRecs(mtg[c]) : ~row[r].egress /\ ~MayRelease(r)
          /\ Return(c)
    /\ UNCHANGED <<row, mstate, stray, remote, armed, unmarked>>

StopRelease(c) ==
    /\ pc[c] = "stop release"
    /\ MarkFailed(rec[c])
    /\ Return(c)
    /\ UNCHANGED <<mstate, stray, remote, armed, unmarked>>

(* begin_recording_stop *)
StopBegin(c) ==
    LET r == rec[c] IN
    /\ pc[c] = "stop begin"
    /\ \/ /\ MayBeginStop(r)
          /\ row[r].attempts < MaxAttempts
          /\ row' = [row EXCEPT ![r] = [@ EXCEPT !.status = "stopping",
                                !.error = "stop in flight", !.attempts = row[r].attempts + 1]]
          /\ Goto(c, "stop send")
          /\ UNCHANGED <<mtg, rec, req>>
       \/ /\ ~MayBeginStop(r)
          /\ Return(c)
          /\ UNCHANGED row
    /\ UNCHANGED <<mstate, stray, remote, armed, unmarked>>

StopSend(c)   == Send(c, "stop send", "stop wait")
StopOk(c)     == Receive(c, "stop wait", {"done"}, "stop mark")
StopFailed(c) == Receive(c, "stop wait", {"pending", "done", "refused"},
                         "stop fail")

StopFail(c) ==
    /\ pc[c] = "stop fail"
    /\ MarkStopFailed(rec[c])
    /\ Return(c)
    /\ UNCHANGED <<mstate, stray, remote, armed, unmarked>>

(* mark_recording_stopped *)
StopMark(c) ==
    LET r == rec[c] IN
    /\ pc[c] = "stop mark"
    /\ row' = IF row[r].status \in {"recording", "stopping"}
              THEN [row EXCEPT ![r] = [@ EXCEPT !.status = "stopped", !.error = "null"]] ELSE row
    /\ Return(c)
    /\ UNCHANGED <<mstate, stray, remote, armed, unmarked>>

-----------------------------------------------------------------------------
(* A command that ends where it stands: the process dies, or a statement    *)
(* fails and "?" returns its error.                                         *)
Abandon(c) ==
    /\ pc[c] # "idle"
    /\ stray' = stray \cup Lost(c)
    /\ Return(c)
    /\ UNCHANGED <<row, mstate, remote, armed, unmarked>>

(* now reaches started_at + ttl *)
TtlElapses(r) ==
    /\ IsStarting(r) /\ ~row[r].stale
    /\ row' = [row EXCEPT ![r].stale = TRUE]
    /\ UNCHANGED <<mstate, caller, stray, remote, armed, unmarked>>

(* meetings::archive_meeting, in both directions *)
ArchiveMeeting(m) ==
    /\ mstate[m] # "deleted"
    /\ mstate' = [mstate EXCEPT ![m] = IF @ = "open" THEN "archived" ELSE "open"]
    /\ UNCHANGED <<row, caller, stray, remote, armed, unmarked>>

(* meetings::delete_meeting: the foreign key deletes the rows with it. *)
DeleteMeeting(m) ==
    /\ mstate[m] # "deleted"
    /\ mstate' = [mstate EXCEPT ![m] = "deleted"]
    /\ row' = [r \in Recs |-> IF row[r].meeting = m
                              THEN [row[r] EXCEPT !.status = "deleted"] ELSE row[r]]
    /\ UNCHANGED <<caller, stray, remote, armed, unmarked>>

-----------------------------------------------------------------------------
(* The LiveKit Egress service.                                              *)

Execute(op, r) ==
    remote' = CASE op = "start" /\ remote[r] = "none" -> [remote EXCEPT ![r] = "live"]
                [] op = "stop"  /\ remote[r] = "live" -> [remote EXCEPT ![r] = "ended"]
                [] OTHER -> remote

Serve(c) ==
    /\ pc[c] \in WaitPCs /\ req[c] = "pending"
    /\ Execute(Op(c), rec[c])
    /\ req' = [req EXCEPT ![c] = "done"]
    /\ UNCHANGED <<row, mstate, pc, mtg, rec, stray, armed, unmarked>>

(* A failed connect or a 4xx: the request is not and will not be executed. *)
Refuse(c) ==
    /\ pc[c] \in WaitPCs /\ req[c] = "pending"
    /\ req' = [req EXCEPT ![c] = "refused"]
    /\ UNCHANGED <<row, mstate, pc, mtg, rec, stray, remote, armed, unmarked>>

ServeStray ==
    \E q \in stray :
        /\ Execute(q.op, q.rec)
        /\ stray' = stray \ {q}
        /\ UNCHANGED <<row, mstate, caller, armed, unmarked>>

(* The room empties or the worker gives up: the job ends on its own. *)
JobEnds(r) ==
    /\ remote[r] = "live"
    /\ remote' = [remote EXCEPT ![r] = "ended"]
    /\ UNCHANGED <<row, mstate, caller, stray, armed, unmarked>>

-----------------------------------------------------------------------------
StartStep(c) ==
    \/ \E m \in Meetings : StartExpire(c, m)
    \/ StartReserve(c) \/ StartArm(c) \/ StartSend(c)
    \/ StartOk(c) \/ StartRefused(c) \/ StartAmbiguous(c)
    \/ StartRelease(c) \/ StartHold(c) \/ StartMark(c) \/ StartMarkFails(c)
    \/ CompSend(c) \/ CompOk(c) \/ CompFailed(c) \/ CompRelease(c) \/ CompHold(c)

StopStep(c) ==
    \/ \E m \in Meetings : StopExpire(c, m)
    \/ StopRead(c) \/ StopRelease(c) \/ StopBegin(c) \/ StopSend(c)
    \/ StopOk(c) \/ StopFailed(c) \/ StopFail(c) \/ StopMark(c)

Next ==
    \/ \E c \in Callers : StartStep(c) \/ StopStep(c) \/ Abandon(c)
    \/ \E c \in Callers : Serve(c) \/ Refuse(c)
    \/ ServeStray
    \/ \E r \in Recs : TtlElapses(r) \/ JobEnds(r)
    \/ \E m \in Meetings : ArchiveMeeting(m) \/ DeleteMeeting(m)

(* No action reads or writes the history variable overlapped: every step of *)
(* the program moves it along.                                              *)
OneAtATime == \A c, d \in Callers : pc[c] # "idle" /\ pc[d] # "idle" => c = d

Watch == overlapped' = (overlapped \/ ~OneAtATime')

allvars == <<vars, overlapped>>

Spec == Init /\ [][Next /\ Watch]_allvars

-----------------------------------------------------------------------------
(* Properties that hold whatever number of callers there are.               *)

(* Once the id of a job is stored, the meeting stays reserved until the job *)
(* is over: no late, repeated or failed stop, no stale reader and no TTL    *)
(* releases a recording that is still being written (calls.rs, the comments *)
(* of mark_recording_stop_failed and expire_stale_lifecycle).               *)
ConfirmedJobHeld ==
    \A r \in Recs : row[r].egress /\ remote[r] = "live"
                      => row[r].status \in {"recording", "stopping", "deleted"}

(* "two concurrent Stop calls can never both reach StopEgress" (the comment *)
(* of begin_recording_stop): at most one command execution is past the CAS  *)
(* of a recording and before its outcome is stored, unless the start of     *)
(* that recording failed after it had stored the job's id and its           *)
(* compensating stop, refused or lost, wrote over the marker of the stop in *)
(* flight.                                                                  *)
StopsExclude ==
    \A c, d \in Callers :
        pc[c] \in StopPCs /\ pc[d] \in StopPCs /\ rec[c] = rec[d] /\ c # d
            => rec[c] \in unmarked

(* expire_stale_lifecycle reclaims "only rows that provably never reached   *)
(* the Egress service": none whose arming was stored.                       *)
ReclaimedNeverArmed ==
    \A r \in Recs : row[r].error = "abandoned" => r \notin armed

(* A recording that was stopped, failed or deleted never becomes active     *)
(* again, so a late reply to an old start cannot displace the recording     *)
(* that replaced it (the status guards of the mark_ functions).             *)
TerminalIsFinal ==
    [][\A r \in Recs : row[r].status \in {"stopped", "failed", "deleted"}
                          => row'[r].status \notin Active]_vars

(* Properties that need the commands not to overlap.                        *)

(* A live job has an active row: the reservation is held "on purpose", for  *)
(* releasing it "could start a second recording next to a job that may      *)
(* still be running remotely" (the comment of UNCONFIRMED_PREFIX).          *)
LiveJobHeld ==
    \A r \in Recs : remote[r] = "live" => row[r].status \in Active \cup {"deleted"}

(* 'two live jobs for one meeting' is 'unrepresentable' (active_recording)  *)
OneLiveJob ==
    \A q, r \in Recs :
        /\ remote[q] = "live" /\ remote[r] = "live"
        /\ row[q].meeting = row[r].meeting
        => q = r

(* One command after another never leaves a live job without the row that   *)
(* holds its meeting, whatever was lost, refused, late or cut short (the    *)
(* comment of UNCONFIRMED_PREFIX).                                          *)
AloneLiveJobHeld == ~overlapped => LiveJobHeld

(* One command after another never leaves a meeting with two live jobs (the *)
(* comment of active_recording).                                            *)
AloneOneLiveJob == ~overlapped => OneLiveJob

-----------------------------------------------------------------------------
(* The inductive invariant behind the properties of any number of callers.  *)

RowShape(r) ==
    /\ row[r].status = "absent" => row[r].meeting = None
    /\ row[r].egress => row[r].status \in {"recording", "stopping", "stopped", "deleted"}
    /\ row[r].status \in {"recording", "stopping", "stopped"} => row[r].egress
    /\ row[r].egress => remote[r] # "none"
    /\ row[r].status = "stopped" => remote[r] = "ended"
    /\ row[r].error = "abandoned" => row[r].status \in {"failed", "deleted"}
    /\ row[r].error = "abandoned" => r \notin armed
    /\ r \in armed => row[r].status # "absent"
    /\ r \in armed => (row[r].status = "starting" => row[r].error \in Unconfirmed)

CallShape(c) ==
    LET r == rec[c] IN
    /\ pc[c] \in StartPCs => row[r].status # "absent"
    /\ pc[c] \in StartPCs \ CompPCs => ~row[r].egress
    /\ pc[c] \in StopPCs \cup {"stop begin"} => row[r].egress
    /\ pc[c] \in StopPCs => \/ row[r].status = "deleted"
                             \/ StopInFlight(r)
                             \/ r \in unmarked
    /\ pc[c] = "start wait" /\ req[c] = "done" => remote[r] # "none"
    /\ pc[c] = "start mark" => remote[r] # "none"
    /\ pc[c] = "stop wait" /\ req[c] = "done" => remote[r] = "ended"
    /\ pc[c] = "stop mark" => remote[r] = "ended"

OneStarter ==
    \A c, d \in Callers :
        pc[c] \in StartPCs /\ pc[d] \in StartPCs /\ rec[c] = rec[d] => c = d

Lifecycle ==
    /\ StateOK
    /\ \A r \in Recs : RowShape(r)
    /\ \A c \in Callers : CallShape(c)
    /\ OneStarter
    /\ StopsExclude

=============================================================================
