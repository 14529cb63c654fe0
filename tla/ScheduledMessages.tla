-------------------------- MODULE ScheduledMessages --------------------------
(***************************************************************************)
(* Scheduled messages: src-tauri/src/chat.rs, the table scheduled_messages *)
(* and the four operations that write it.  An author schedules, edits and  *)
(* cancels an intent; a delivery run (the server's ticker, the boot of the *)
(* CGI build, an administrator's command) leases each due intent, posts it *)
(* as a message and gives the lease back when the post fails.              *)
(*                                                                         *)
(* Nothing here runs in a transaction but the deletion of a channel: one   *)
(* action is one SQL statement, or a run of reads that one write follows.  *)
(* Any statement may fail (the write lock is waited for 5 s, then "?"      *)
(* returns), and the process may die between two of them.                  *)
(***************************************************************************)
EXTENDS Naturals, FiniteSets

CONSTANTS
    Ids,        \* ids of intents, in the order of ORDER BY ... id
    Senders,    \* concurrent executions of deliver_due_scheduled_messages
    Ticker,     \* the one the server starts again and again
    Authors,    \* concurrent executions of the edit and cancel commands
    Texts,      \* what a message can say
    None,       \* "no intent"
    MaxTime,    \* the clock stops here, for model checking only
    Asked,      \* instants an administrator names for a run, the clock apart
    Limit,      \* rows one run takes: SPACE_CHAT_SCHEDULE_TICK_BATCH
    MaxFaults   \* failed statements and crashes, for model checking only

ASSUME IdsAssumption     == Ids \subseteq Nat /\ None \notin Nat
ASSUME TextsAssumption   == Texts # {}
ASSUME TickerAssumption  == Ticker \in Senders
ASSUME NumbersAssumption == MaxTime \in Nat /\ Limit \in Nat \ {0} /\ MaxFaults \in Nat
ASSUME AskedAssumption   == Asked \subseteq 0..MaxTime

VARIABLES
    now,       \* unix time
    access,    \* the channel of an intent, as its author finds it
    row,       \* the table scheduled_messages
    msg,       \* the table messages, at the ids derived from the intents
    run,       \* where each delivery run stands
    cmd,       \* where each author's command stands
    faults,    \* failures so far
    lost,      \* history: leases nobody holds any more
    undone,    \* history: intents released although their message was posted
    moved      \* history: intents edited while a run had them on its list

vars == <<now, access, row, msg, run, cmd, faults, lost, undone, moved>>

Times == 0..MaxTime

(* "deleted" is a row purged with its channel *)
Row == [status : {"absent", "pending", "sent", "cancelled", "deleted"},
        text : Texts, at : Times, error : BOOLEAN]

(* "as" is the instant the posting run was asked to deliver for *)
Message == [posted : {TRUE}, text : Texts, at : Times, as : Times]
NoMessage == [posted |-> FALSE]
Posted(i) == msg[i].posted

Listed == [id : Ids, at : Times]
Run == [pc : {"idle", "next", "read", "guard", "insert", "follow", "release"},
        cur : Ids \cup {None}, todo : SUBSET Listed, as : Times,
        text : Texts, at : Times]

Cmd == [pc : {"idle", "edit", "cancel"}, id : Ids \cup {None},
        text : Texts, at : Times, asked : BOOLEAN, passed : BOOLEAN]

AnyText == CHOOSE t \in Texts : TRUE
IdleRun == [pc |-> "idle", cur |-> None, todo |-> {}, as |-> 0, text |-> AnyText, at |-> 0]
IdleCmd == [pc |-> "idle", id |-> None, text |-> AnyText, at |-> 0,
            asked |-> FALSE, passed |-> FALSE]

Holds(p, i) == run[p].cur = i /\ run[p].pc \in {"read", "guard", "insert", "follow", "release"}

TypeOK ==
    /\ now \in Times
    /\ access \in [Ids -> {"open", "shut", "gone"}]
    /\ row \in [Ids -> Row]
    /\ msg \in [Ids -> Message \cup {NoMessage}]
    /\ run \in [Senders -> Run]
    /\ cmd \in [Authors -> Cmd]
    /\ faults \in 0..MaxFaults
    /\ lost \subseteq Ids /\ undone \subseteq Ids /\ moved \subseteq Ids
    /\ \A p \in Senders : run[p].pc \notin {"idle", "next"} => run[p].cur \in Ids
    /\ \A a \in Authors : cmd[a].pc # "idle" => cmd[a].id \in Ids

Init ==
    /\ now    = 0
    /\ access = [i \in Ids |-> "open"]
    /\ row    = [i \in Ids |-> [status |-> "absent", text |-> AnyText, at |-> 0, error |-> FALSE]]
    /\ msg    = [i \in Ids |-> NoMessage]
    /\ run    = [p \in Senders |-> IdleRun]
    /\ cmd    = [a \in Authors |-> IdleCmd]
    /\ faults = 0
    /\ lost = {} /\ undone = {} /\ moved = {}

-----------------------------------------------------------------------------
(* Faulty variants; each breaks a property. *)
Mut_DueAnyTime(i, t)     == row[i].status = "pending"
Mut_LeaseAgain(i)        == row[i].status \in {"pending", "sent"}
Mut_EditAnything(i)      == row[i].status \in {"pending", "sent"}
Mut_EditedSoon(i, at)    == IF at = None THEN now + 1 ELSE at
Mut_AbortRun(todo)       == {}
Mut_ReleasedAsSent       == "sent"

-----------------------------------------------------------------------------
(* Guards and statements, named for what they decide.                       *)

Due(i, t)    == row[i].status = "pending" /\ row[i].at <= t
Leasable(i)  == row[i].status = "pending"
Editable(i)  == row[i].status = "pending"
Writable(i)  == access[i] = "open"
Future(t)    == t > now

(* ORDER BY scheduled_at, id *)
Before(e, f) == e.at < f.at \/ (e.at = f.at /\ e.id < f.id)
DueList(t)   == {[id |-> i, at |-> row[i].at] : i \in {j \in Ids : Due(j, t)}}
Batch(t)     == {e \in DueList(t) : Cardinality({f \in DueList(t) : Before(f, e)}) < Limit}

(* COALESCE of an edit: what it does not name stays as it was read *)
EditedAt(i, at) == IF at = None THEN row[i].at ELSE at

(* An error of one intent ends that intent, not the run. *)
AfterFailure(todo) == todo

(* the status the release statement gives a row *)
Released == "pending"

-----------------------------------------------------------------------------
(* The author.                                                              *)

(* schedule_message_impl.  Its checks and its INSERT are one step: a change *)
(* of access between them is the same as one just after.                    *)
Schedule(i) == \E t \in Texts, w \in Times :
    /\ row[i].status = "absent"
    /\ Writable(i) /\ Future(w)
    /\ row' = [row EXCEPT ![i] = [status |-> "pending", text |-> t, at |-> w, error |-> FALSE]]
    /\ UNCHANGED <<now, access, msg, run, cmd, faults, lost, undone, moved>>

(* update_scheduled_impl up to its UPDATE: a new text, a new time or both *)
BeginEdit(a, i) == \E t \in Texts, w \in Times \cup {None} :
    /\ cmd[a].pc = "idle"
    /\ Editable(i)
    /\ EditedAt(i, w) \in Times /\ Future(EditedAt(i, w))
    /\ Writable(i)
    /\ cmd' = [cmd EXCEPT ![a] = [pc |-> "edit", id |-> i, text |-> t, at |-> EditedAt(i, w),
                                  asked |-> w # None, passed |-> FALSE]]
    /\ UNCHANGED <<now, access, row, msg, run, faults, lost, undone, moved>>

(* history: another edit passes the ones that have read the row already *)
Overtake(a, i) == [b \in Authors |-> IF b # a /\ cmd[b].pc = "edit" /\ cmd[b].id = i
                                     THEN [cmd[b] EXCEPT !.passed = TRUE] ELSE cmd[b]]

Edit(a) == LET i == cmd[a].id IN
    /\ cmd[a].pc = "edit"
    /\ IF Editable(i)
       THEN /\ row' = [row EXCEPT ![i].text = cmd[a].text, ![i].at = cmd[a].at]
            /\ moved' = IF \E p \in Senders, e \in Listed : e \in run[p].todo /\ e.id = i
                        THEN moved \cup {i} ELSE moved
            /\ cmd' = [Overtake(a, i) EXCEPT ![a] = IdleCmd]
       ELSE /\ UNCHANGED <<row, moved>>
            /\ cmd' = [cmd EXCEPT ![a] = IdleCmd]
    /\ UNCHANGED <<now, access, msg, run, faults, lost, undone>>

(* cancel_scheduled_impl: a second cancel returns before the UPDATE *)
BeginCancel(a, i) ==
    /\ cmd[a].pc = "idle"
    /\ row[i].status \in {"pending", "sent"}
    /\ cmd' = [cmd EXCEPT ![a] = [IdleCmd EXCEPT !.pc = "cancel", !.id = i]]
    /\ UNCHANGED <<now, access, row, msg, run, faults, lost, undone, moved>>

Cancel(a) == LET i == cmd[a].id IN
    /\ cmd[a].pc = "cancel"
    /\ row' = [row EXCEPT ![i].status = IF @ = "pending" THEN "cancelled" ELSE @]
    /\ cmd' = [cmd EXCEPT ![a] = IdleCmd]
    /\ UNCHANGED <<now, access, msg, run, faults, lost, undone, moved>>

(* Membership, archiving and private feeds decide whether the author may write. *)
ChangeAccess(i) ==
    /\ \/ access[i] = "open" /\ access' = [access EXCEPT ![i] = "shut"]
       \/ access[i] = "shut" /\ access' = [access EXCEPT ![i] = "open"]
    /\ UNCHANGED <<now, row, msg, run, cmd, faults, lost, undone, moved>>

(* delete_channel_impl: one transaction over everything the channel holds *)
DeleteChannel(i) ==
    /\ access[i] # "gone"
    /\ access' = [access EXCEPT ![i] = "gone"]
    /\ row' = [row EXCEPT ![i].status = IF @ = "absent" THEN "absent" ELSE "deleted"]
    /\ msg' = [msg EXCEPT ![i] = NoMessage]
    /\ UNCHANGED <<now, run, cmd, faults, lost, undone, moved>>

-----------------------------------------------------------------------------
(* A delivery run.                                                          *)

Set(p, r) == run' = [run EXCEPT ![p] = r]

(* a run with this list before it; at the end of the list it returns *)
Listing(todo, t) == IF todo = {} THEN IdleRun
                    ELSE [IdleRun EXCEPT !.pc = "next", !.todo = todo, !.as = t]
Continue(p, todo) == Set(p, Listing(todo, run[p].as))

(* it works on the intent it holds, at another statement *)
Goto(p, l) == Set(p, [run[p] EXCEPT !.pc = l])

(* deliver_due_scheduled_impl: the due ids, at most Limit, for the clock or *)
(* for an instant an administrator names.  A run that finds none does       *)
(* nothing more.                                                            *)
Select(p) == \E t \in {now} \cup (IF p = Ticker THEN {} ELSE Asked) :
    /\ run[p].pc = "idle"
    /\ Batch(t) # {}
    /\ Set(p, Listing(Batch(t), t))
    /\ UNCHANGED <<now, access, row, msg, cmd, faults, lost, undone, moved>>

(* deliver_one_scheduled's first UPDATE.  The loop goes on with the next id *)
(* when it changes no row.                                                  *)
Lease(p) == \E e \in run[p].todo : LET i == e.id IN
    /\ run[p].pc = "next"
    /\ \A f \in run[p].todo : f = e \/ Before(e, f)
    /\ IF Leasable(i)
       THEN /\ row' = [row EXCEPT ![i].status = "sent", ![i].error = FALSE]
            /\ Set(p, [run[p] EXCEPT !.pc = "read", !.cur = i, !.todo = @ \ {e}])
       ELSE /\ Continue(p, run[p].todo \ {e})
            /\ UNCHANGED row
    /\ UNCHANGED <<now, access, msg, cmd, faults, lost, undone, moved>>

(* get_scheduled_impl: a row purged meanwhile is an error *)
Reread(p) == LET i == run[p].cur IN
    /\ run[p].pc = "read"
    /\ IF row[i].status = "deleted"
       THEN Continue(p, AfterFailure(run[p].todo))
       ELSE Set(p, [run[p] EXCEPT !.pc = "guard", !.text = row[i].text, !.at = row[i].at])
    /\ UNCHANGED <<now, access, row, msg, cmd, faults, lost, undone, moved>>

(* create_message_impl, its checks *)
Guard(p) == LET i == run[p].cur IN
    /\ run[p].pc = "guard"
    /\ Goto(p, IF Writable(i) THEN "insert" ELSE "release")
    /\ UNCHANGED <<now, access, row, msg, cmd, faults, lost, undone, moved>>

(* its INSERT: a primary key that exists or a channel that does not refuse it *)
Insert(p) == LET i == run[p].cur IN
    /\ run[p].pc = "insert"
    /\ IF Posted(i) \/ access[i] = "gone"
       THEN /\ Goto(p, "release")
            /\ UNCHANGED msg
       ELSE /\ msg' = [msg EXCEPT ![i] = [posted |-> TRUE, text |-> run[p].text,
                                          at |-> run[p].at, as |-> run[p].as]]
            /\ Goto(p, "follow")
    /\ UNCHANGED <<now, access, row, cmd, faults, lost, undone, moved>>

(* its mentions, links and feeds.  Rows of a deleted message refuse a link. *)
Follow(p) == LET i == run[p].cur IN
    /\ run[p].pc = "follow"
    /\ \/ Continue(p, run[p].todo)
       \/ access[i] = "gone" /\ Goto(p, "release")
    /\ UNCHANGED <<now, access, row, msg, cmd, faults, lost, undone, moved>>

(* the UPDATE that gives the lease back, by id alone *)
Release(p) == LET i == run[p].cur IN
    /\ run[p].pc = "release"
    /\ row' = IF row[i].status = "deleted" THEN row
              ELSE [row EXCEPT ![i].status = Released, ![i].error = TRUE]
    /\ undone' = IF Posted(i) THEN undone \cup {i} ELSE undone
    /\ Continue(p, AfterFailure(run[p].todo))
    /\ UNCHANGED <<now, access, msg, cmd, faults, lost, moved>>

-----------------------------------------------------------------------------
(* Failures.                                                                *)

(* A statement returns an error.  Inside create_message_impl that leads to  *)
(* the release; the lease, the re-read and the release itself just return.  *)
StatementFails(p) == LET i == run[p].cur IN
    /\ faults < MaxFaults /\ faults' = faults + 1
    /\ \/ /\ run[p].pc = "next"
          /\ \E e \in run[p].todo :
                /\ \A f \in run[p].todo : f = e \/ Before(e, f)
                /\ Continue(p, run[p].todo \ {e})
          /\ UNCHANGED lost
       \/ /\ run[p].pc \in {"guard", "insert", "follow"}
          /\ Goto(p, "release")
          /\ UNCHANGED lost
       \/ /\ run[p].pc \in {"read", "release"}
          /\ Continue(p, AfterFailure(run[p].todo))
          /\ lost' = lost \cup {i}
    /\ UNCHANGED <<now, access, row, msg, cmd, undone, moved>>

(* The process dies; its next run is a new one. *)
Crash(p) ==
    /\ faults < MaxFaults /\ faults' = faults + 1
    /\ run[p].pc # "idle"
    /\ lost' = IF run[p].pc = "next" THEN lost ELSE lost \cup {run[p].cur}
    /\ Set(p, IdleRun)
    /\ UNCHANGED <<now, access, row, msg, cmd, undone, moved>>

Tick ==
    /\ now < MaxTime /\ now' = now + 1
    /\ UNCHANGED <<access, row, msg, run, cmd, faults, lost, undone, moved>>

-----------------------------------------------------------------------------
Delivery(p) == \/ Lease(p) \/ Reread(p) \/ Guard(p) \/ Insert(p)
               \/ Follow(p) \/ Release(p)

Next ==
    \/ Tick
    \/ \E i \in Ids : Schedule(i) \/ ChangeAccess(i) \/ DeleteChannel(i)
    \/ \E a \in Authors : \/ \E i \in Ids : BeginEdit(a, i) \/ BeginCancel(a, i)
                          \/ Edit(a) \/ Cancel(a)
    \/ \E p \in Senders : Select(p) \/ Delivery(p) \/ StatementFails(p) \/ Crash(p)

Spec == Init /\ [][Next]_vars

(* The ticker is a loop of the server that no error leaves, and a run that  *)
(* has begun is a thread that goes on until it ends or dies.                *)
FairSpec == Spec /\ WF_vars(Select(Ticker)) /\ \A p \in Senders : WF_vars(Delivery(p))

-----------------------------------------------------------------------------
(* Properties.                                                              *)

(* Two runs never work on the same intent, and while one does no command    *)
(* of the author's changes the row: the lease UPDATE is the only way in.    *)
LeaseIsExclusive == \A i \in Ids :
    /\ \A p, q \in Senders : Holds(p, i) /\ Holds(q, i) => p = q
    /\ \A p \in Senders : Holds(p, i) => row[i].status \in {"sent", "deleted"}

(* An intent is never "sent" and forgotten: its message exists, or a run is *)
(* at work on it, or the run that leased it died or failed to release it.   *)
SentIsAccountedFor == \A i \in Ids :
    row[i].status = "sent" => Posted(i) \/ i \in lost \/ \E p \in Senders : Holds(p, i)

(* What was posted is what the author sees as sent, word and hour: no edit  *)
(* or cancellation that raced the run was accepted.  The exception is an    *)
(* intent released after its message was posted.                            *)
PostedAsWritten == \A i \in Ids :
    Posted(i) /\ i \notin undone =>
        row[i].status = "sent" /\ row[i].text = msg[i].text /\ row[i].at = msg[i].at

(* No run posts a message before its time, unless the author put it off     *)
(* after the run had listed it: the lease does not look at the time again.  *)
NeverEarly == \A i \in Ids : Posted(i) /\ i \notin moved => msg[i].at <= msg[i].as

(* An edit of the text alone leaves the time alone, unless another edit of  *)
(* the intent was written between its read and its write.                   *)
EditKeepsTheRest == [][\A i \in Ids :
    row[i].status = "pending" /\ row'[i].at # row[i].at =>
        \E a \in Authors : cmd[a].id = i /\ (cmd[a].asked \/ cmd[a].passed)]_vars

(* A due intent is posted, called off or put off in the end, if its author  *)
(* may go on writing to the channel and no run loses its lease: a failure   *)
(* or a broken channel costs one row, not the run.                          *)
Settled(i) == \/ Posted(i) \/ i \in lost
              \/ row[i].status \in {"cancelled", "deleted"} \/ row[i].at > now
DueIsDelivered == \A i \in Ids :
    <>[](access[i] = "open") => (Due(i, now) ~> Settled(i))

(* deliver_one_scheduled's comment: a crash after the lease leaves a row    *)
(* whose message is inserted on the next run.                               *)
LeaseSurvivesCrash == \A i \in Ids :
    <>[](access[i] = "open") => (row[i].status = "sent" ~> Posted(i))
=============================================================================
