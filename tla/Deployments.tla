----------------------------- MODULE Deployments -----------------------------
(***************************************************************************)
(* Deploy targets and deployments: src-tauri/src/pipelines.rs, the tables  *)
(* deploy_targets and deployments.  The server runs every request on a     *)
(* connection of its own and no transaction spans two statements of these  *)
(* commands, so one atomic action is one statement or one fan-out.         *)
(*                                                                         *)
(* Left out: the columns no command reads back (names, keys, description,  *)
(* archived, manual_control, the timestamps but for "started_at is set"),  *)
(* with update_deploy_target, which writes only those.                     *)
(***************************************************************************)
EXTENDS Naturals

CONSTANTS
    Targets,     \* ids of deploy_targets rows
    Deps,        \* ids of deployments rows
    Callers,     \* requests being served at one time
    None,        \* SQL NULL
    MaxFaults    \* bound on calls cut short and on events not enqueued

ASSUME NoneAssumption == None \notin Targets \cup Deps \cup Callers
ASSUME MaxFaultsAssumption == MaxFaults \in Nat

VARIABLES
    target,    \* deploy_targets
    dep,       \* deployments
    call,      \* the command each caller runs, and its local variables
    told,      \* history: the deployment.status_changed events of each row
    promoter,  \* history: the caller that made a row CURRENT
    faults,    \* faults so far
    overlapped \* history: two requests were being served at one time

vars == <<target, dep, call, told, promoter, faults>>

-----------------------------------------------------------------------------
Status == {"SCHEDULED", "DEPLOYING", "FAILED", "CURRENT", "OBSOLETE", "HANGING"}
Life   == {"absent", "gone"}    \* an id not yet used, or one whose row is deleted

Row == [target : Targets \cup {None}, status : Status \cup Life, started : BOOLEAN]

(* prev, sup, now and supnow are previous_status, superseded_id and the     *)
(* statuses of the rows read back for the two events.                      *)
Call == [pc     : {"idle", "peek", "check", "write", "supersede", "promote", "reread",
                   "reread superseded", "tell superseded", "tell", "drop"},
         dep    : Deps \cup {None},
         target : Targets \cup {None},
         to     : Status \cup {None},
         prev   : Status \cup {None},
         sup    : Deps \cup {None},
         now    : Status \cup {None},
         supnow : Status \cup {None}]

Told == [last : Status \cup {None}, broken : BOOLEAN]

Idle == [pc |-> "idle", dep |-> None, target |-> None, to |-> None,
         prev |-> None, sup |-> None, now |-> None, supnow |-> None]

StateOK ==
    /\ target \in [Targets -> Life \cup {"stored"}]
    /\ dep \in [Deps -> Row]
    /\ call \in [Callers -> Call]
    /\ told \in [Deps -> Told]
    /\ promoter \in [Deps -> Callers \cup {None}]
    /\ faults \in Nat

TypeOK == StateOK /\ overlapped \in BOOLEAN

Init ==
    /\ target = [t \in Targets |-> "absent"]
    /\ dep = [d \in Deps |-> [target |-> None, status |-> "absent", started |-> FALSE]]
    /\ call = [c \in Callers |-> Idle]
    /\ told = [d \in Deps |-> [last |-> None, broken |-> FALSE]]
    /\ promoter = [d \in Deps |-> None]
    /\ faults = 0
    /\ overlapped = FALSE

Stored(d)   == dep[d].status \in Status
Currents(t) == {d \in Deps : dep[d].target = t /\ dep[d].status = "CURRENT"}

Goes(c, next) == call' = [call EXCEPT ![c] = [@ EXCEPT !.pc = next]]
Ends(c)       == call' = [call EXCEPT ![c] = Idle]

-----------------------------------------------------------------------------
(* Faulty variants of the definitions below; each breaks a property.        *)

Mut_AnyStatus(c) ==
    /\ call[c].pc = "supersede" /\ Goes(c, "promote")
    /\ dep' = [d \in Deps |-> IF dep[d].target = call[c].target /\ Stored(d)
                              THEN [dep[d] EXCEPT !.status = "OBSOLETE"] ELSE dep[d]]
    /\ UNCHANGED <<target, told, promoter, faults>>
Mut_Forgets(c) ==
    /\ call[c].pc = "supersede" /\ Goes(c, "promote")
    /\ UNCHANGED <<target, dep, told, promoter, faults>>
Mut_NoPeek(c) ==
    /\ call[c].pc = "peek" /\ Goes(c, "check")
    /\ UNCHANGED <<target, dep, told, promoter, faults>>

-----------------------------------------------------------------------------
(* allowed_deployment_transition *)
Allowed(from, to) ==
    <<from, to>> \in {<<"SCHEDULED", "DEPLOYING">>, <<"SCHEDULED", "FAILED">>,
                      <<"DEPLOYING", "CURRENT">>,   <<"DEPLOYING", "FAILED">>,
                      <<"DEPLOYING", "HANGING">>,   <<"HANGING", "FAILED">>,
                      <<"HANGING", "CURRENT">>,     <<"CURRENT", "OBSOLETE">>,
                      <<"CURRENT", "FAILED">>}

(* UPDATE deployments SET status=s WHERE id=d: no row, no change. *)
Updated(d, s) ==
    IF Stored(d)
    THEN [dep EXCEPT ![d] = [@ EXCEPT !.status = s, !.started = dep[d].started \/ s = "DEPLOYING"]]
    ELSE dep

(* deployment_status_event: the receiver sees previous and new status. *)
Tells(d, prev, now) ==
    told' = [told EXCEPT ![d] = [last |-> now, broken |-> @.broken \/ @.last # prev]]

-----------------------------------------------------------------------------
CreateDeployTarget(t) ==
    /\ target[t] = "absent"
    /\ target' = [target EXCEPT ![t] = "stored"]
    /\ UNCHANGED <<dep, call, told, promoter, faults>>

(* delete_deploy_target: its deployments first, in a statement of its own. *)
DeleteDeployTarget(c, t) ==
    /\ call[c].pc = "idle" /\ target[t] = "stored"
    /\ dep' = [d \in Deps |-> IF dep[d].target = t /\ Stored(d)
                              THEN [dep[d] EXCEPT !.status = "gone"] ELSE dep[d]]
    /\ call' = [call EXCEPT ![c] = [Idle EXCEPT !.pc = "drop", !.target = t]]
    /\ UNCHANGED <<target, told, promoter, faults>>

(* The second DELETE fails while a deployment refers to the target.         *)
Drop(c) ==
    /\ call[c].pc = "drop"
    /\ LET t == call[c].target IN
       target' = IF \E d \in Deps : Stored(d) /\ dep[d].target = t
                 THEN target ELSE [target EXCEPT ![t] = "gone"]
    /\ Ends(c)
    /\ UNCHANGED <<dep, told, promoter, faults>>

(* schedule_deployment_tx: the foreign key asks for the target. *)
ScheduleDeployment(c, d, t) ==
    /\ call[c].pc = "idle" /\ dep[d].status = "absent" /\ target[t] = "stored"
    /\ dep' = [dep EXCEPT ![d] = [target |-> t, status |-> "SCHEDULED", started |-> FALSE]]
    /\ call' = [call EXCEPT ![c] = [Idle EXCEPT !.pc = "tell", !.dep = d, !.now = "SCHEDULED"]]
    /\ UNCHANGED <<target, told, promoter, faults>>

(* transition_deployment up to its first SELECT *)
TransitionDeployment(c, d, to) ==
    /\ call[c].pc = "idle" /\ Stored(d)
    /\ call' = [call EXCEPT ![c] = [Idle EXCEPT
                  !.pc = IF to = "CURRENT" THEN "peek" ELSE "check",
                  !.dep = d, !.target = dep[d].target, !.to = to, !.prev = dep[d].status]]
    /\ UNCHANGED <<target, dep, told, promoter, faults>>

(* SELECT id ... status='CURRENT': any of them, were there several *)
Peek(c) ==
    /\ call[c].pc = "peek"
    /\ \E s \in Currents(call[c].target) \cup {None} :
         /\ s = None => Currents(call[c].target) = {}
         /\ call' = [call EXCEPT ![c] = [@ EXCEPT !.pc = "check", !.sup = s]]
    /\ UNCHANGED <<target, dep, told, promoter, faults>>

(* transition_deployment_tx reads the row again and checks the transition. *)
Check(c) ==
    /\ call[c].pc = "check"
    /\ IF Allowed(dep[call[c].dep].status, call[c].to)
       THEN Goes(c, IF call[c].to = "CURRENT" THEN "supersede" ELSE "write")
       ELSE Ends(c)
    /\ UNCHANGED <<target, dep, told, promoter, faults>>

Write(c) ==
    /\ call[c].pc = "write"
    /\ dep' = Updated(call[c].dep, call[c].to)
    /\ Goes(c, "reread")
    /\ UNCHANGED <<target, told, promoter, faults>>

Supersede(c) ==
    /\ call[c].pc = "supersede"
    /\ dep' = [d \in Deps |-> IF d \in Currents(call[c].target)
                              THEN [dep[d] EXCEPT !.status = "OBSOLETE"] ELSE dep[d]]
    /\ Goes(c, "promote")
    /\ UNCHANGED <<target, told, promoter, faults>>

Promote(c) ==
    /\ call[c].pc = "promote"
    /\ dep' = Updated(call[c].dep, "CURRENT")
    /\ promoter' = [promoter EXCEPT ![call[c].dep] = c]
    /\ Goes(c, "reread")
    /\ UNCHANGED <<target, told, faults>>

Reread(c) ==
    /\ call[c].pc = "reread"
    /\ IF Stored(call[c].dep)
       THEN call' = [call EXCEPT ![c] = [@ EXCEPT
                       !.pc = IF call[c].sup = None THEN "tell" ELSE "reread superseded",
                       !.now = dep[call[c].dep].status]]
       ELSE Ends(c)
    /\ UNCHANGED <<target, dep, told, promoter, faults>>

RereadSuperseded(c) ==
    /\ call[c].pc = "reread superseded"
    /\ IF Stored(call[c].sup)
       THEN call' = [call EXCEPT ![c] = [@ EXCEPT
                       !.pc = "tell superseded", !.supnow = dep[call[c].sup].status]]
       ELSE Ends(c)
    /\ UNCHANGED <<target, dep, told, promoter, faults>>

TellSuperseded(c) ==
    /\ call[c].pc = "tell superseded"
    /\ Tells(call[c].sup, "CURRENT", call[c].supnow)
    /\ Goes(c, "tell")
    /\ UNCHANGED <<target, dep, promoter, faults>>

Tell(c) ==
    /\ call[c].pc = "tell"
    /\ Tells(call[c].dep, call[c].prev, call[c].now)
    /\ Ends(c)
    /\ UNCHANGED <<target, dep, promoter, faults>>

(* The process dies or a statement fails: what is written stays written.    *)
Stops(c) ==
    /\ call[c].pc # "idle" /\ faults < MaxFaults
    /\ Ends(c)
    /\ faults' = faults + 1
    /\ UNCHANGED <<target, dep, told, promoter>>

(* enqueue_event fails: the error is printed and the command goes on.       *)
Unsent(c) ==
    /\ call[c].pc = "tell superseded" /\ faults < MaxFaults
    /\ Goes(c, "tell")
    /\ faults' = faults + 1
    /\ UNCHANGED <<target, dep, told, promoter>>

Next ==
    \/ \E t \in Targets : CreateDeployTarget(t)
    \/ \E c \in Callers :
         \/ \E t \in Targets : DeleteDeployTarget(c, t)
         \/ \E d \in Deps, t \in Targets : ScheduleDeployment(c, d, t)
         \/ \E d \in Deps, s \in Status : TransitionDeployment(c, d, s)
         \/ Drop(c) \/ Peek(c) \/ Check(c) \/ Write(c) \/ Supersede(c) \/ Promote(c)
         \/ Reread(c) \/ RereadSuperseded(c) \/ TellSuperseded(c) \/ Tell(c)
         \/ Stops(c) \/ Unsent(c)

(* No action reads or writes the history variable overlapped: every step of *)
(* the program moves it along.                                              *)
OneAtATime == \A b, c \in Callers : call[b].pc # "idle" /\ call[c].pc # "idle" => b = c

Watch == overlapped' = (overlapped \/ ~OneAtATime')

allvars == <<vars, overlapped>>

Spec == Init /\ [][Next /\ Watch]_allvars

-----------------------------------------------------------------------------
(* A row that was ever out of the queue was put to DEPLOYING first, however *)
(* the requests interleave: the check of transition_deployment_tx may be    *)
(* stale when its UPDATE runs, but nothing returns to SCHEDULED.            *)
NeverSkips ==
    \A d \in Deps : dep[d].status \in {"DEPLOYING", "HANGING", "CURRENT", "OBSOLETE"} => dep[d].started

(* Two rows that are CURRENT on one target were made so by two requests at  *)
(* the same time: one request after another never leaves two.               *)
DistinctPromoters ==
    \A t \in Targets : \A d, e \in Currents(t) : promoter[d] = promoter[e] => d = e

(* Only one deployment is CURRENT per target.                               *)
OneCurrent == \A t \in Targets : \A d, e \in Currents(t) : d = e

LegalStep ==
    \A d \in Deps :
        Stored(d) /\ Stored(d)' /\ dep'[d].status # dep[d].status
          => Allowed(dep[d].status, dep'[d].status)

(* The events of a deployment form a chain that ends in its status: each    *)
(* change of status, the superseded row's too, has an event of its own,     *)
(* unless a call was cut short.                                             *)
Announced ==
    faults = 0 =>
      \A d \in Deps : Stored(d) =>
        /\ ~told[d].broken
        /\ (\A c \in Callers : call[c].pc = "idle") => told[d].last = dep[d].status

(* One request after another leaves one CURRENT deployment per target, also *)
(* where a promotion was cut short between its UPDATEs.                     *)
AloneOneCurrent == ~overlapped => OneCurrent

(* One request after another announces every change of status, the          *)
(* superseded row's too, in the order of the changes.                       *)
AloneAnnounced == ~overlapped => Announced

(* One request after another moves a deployment along the state machine of  *)
(* allowed_deployment_transition, also where a call was cut short between   *)
(* its statements.                                                          *)
AloneStepsLegal == [][~overlapped' => LegalStep]_allvars
=============================================================================
