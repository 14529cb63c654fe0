------------------------------ MODULE JobRuns ------------------------------
(***************************************************************************)
(* Job runs and workers of src-tauri/src/pipelines.rs: the thread that     *)
(* executes a run where it was triggered, and the commands with which      *)
(* workers register, report that they live and claim a run of the list.    *)
(*                                                                         *)
(* The executor and a worker may have the same run: a claim looks at the   *)
(* owner alone, the executor at nothing.  What a step does is its outcome; *)
(* logs, artifacts and tags are left out (every run asks for no tag).  An  *)
(* atomic action is one statement, or one look at a child process.         *)
(***************************************************************************)
EXTENDS Naturals

CONSTANTS
    Runs,      \* ids of job_runs, numbers in the order of triggered_at and id
    Workers,
    Agents,    \* processes that send the commands of workers
    Grace,     \* DEFAULT_WORKER_HEARTBEAT_TIMEOUT_SECS
    MaxSteps,  \* bound on the steps of a job
    Clocks,    \* bound on the clock
    MaxLosses  \* bound on dying threads and dropped updates

VARIABLES
    row,      \* job_runs: the status of a run, and worker_id ({} is NULL)
    thread,   \* the executor thread of each run
    worker,   \* workers
    agent,    \* the command each agent is in
    script,   \* whether the script and its jobs exist
    clock,
    handed,   \* history: how often each run was the answer to a claim
    late,     \* history: runs claimed after they ended, from an older list
    dropped,  \* history: runs whose last update was lost
    losses    \* losses so far

runVars    == <<row, thread, script, dropped, losses>>
workerVars == <<worker, clock>>
claimVars  == <<agent, handed, late>>
jobVars == <<runVars, workerVars, claimVars>>

Ended == {"FINISHED", "FAILED"}
Live  == {"start", "step", "wait", "join", "finish"}

-----------------------------------------------------------------------------
(* left: steps to do; held: another process keeps the pipes of the step.    *)
Thread == [pc : Live \cup {"none", "done", "lost"}, left : Nat,
           failed : BOOLEAN, expired : BOOLEAN, held : BOOLEAN]

(* now: the clock of the command; status: what a heartbeat read; list: the  *)
(* candidates still to try; open: the runs not ended when they were listed. *)
Agent == [pc : {"idle", "expire", "read", "beat", "check", "list", "claim"},
          does : {"read", "check"}, worker : SUBSET Workers, now : Nat,
          status : {"", "ONLINE", "OFFLINE", "DISABLED"},
          list : SUBSET Runs, open : SUBSET Runs]

Row == [status : {"absent", "SCHEDULED", "RUNNING", "deleted"} \cup Ended,
        owner : SUBSET Workers]

Worker == [status : {"absent", "ONLINE", "OFFLINE", "DISABLED"},
           suspended : BOOLEAN, seen : Nat]

JobTypeOK ==
    /\ row \in [Runs -> Row]
    /\ thread \in [Runs -> Thread]
    /\ worker \in [Workers -> Worker]
    /\ agent \in [Agents -> Agent]
    /\ script \in BOOLEAN /\ clock \in Nat /\ losses \in Nat
    /\ handed \in [Runs -> Nat]
    /\ late \subseteq Runs /\ dropped \subseteq Runs

NoThread == [pc |-> "none", left |-> 0, failed |-> FALSE, expired |-> FALSE, held |-> FALSE]
NoCommand == [pc |-> "idle", does |-> "read", worker |-> {}, now |-> 0, status |-> "",
              list |-> {}, open |-> {}]

JobInit ==
    /\ row = [r \in Runs |-> [status |-> "absent", owner |-> {}]]
    /\ thread = [r \in Runs |-> NoThread]
    /\ worker = [w \in Workers |-> [status |-> "absent", suspended |-> FALSE, seen |-> 0]]
    /\ agent = [a \in Agents |-> NoCommand]
    /\ script = TRUE /\ clock = 0 /\ losses = 0
    /\ handed = [r \in Runs |-> 0]
    /\ late = {} /\ dropped = {}

-----------------------------------------------------------------------------
(* Faulty variants of the definitions below; each breaks a property.        *)

Mut_TakenToo(r)     == row[r].status # "deleted"
Mut_AnyStatus       == {r \in Runs : row[r].owner = {} /\ row[r].status \notin {"absent", "deleted"}}
Mut_Revives(status) == "ONLINE"
Mut_NoDeadline(r)   == FALSE

-----------------------------------------------------------------------------
Present(r) == row[r].status \notin {"absent", "deleted"}

(* An UPDATE by id alone: it writes whatever the row has become, if there   *)
(* is one.                                                                  *)
Update(r, status) ==
    row' = IF Present(r) THEN [row EXCEPT ![r] = [@ EXCEPT !.status = status]] ELSE row

(* worker_is_assignable *)
Assignable(w, now) ==
    /\ worker[w].status = "ONLINE" /\ ~worker[w].suspended
    /\ now <= worker[w].seen + Grace

(* The claim's SELECT: unassigned runs that have not begun.                 *)
Candidates == {r \in Runs : row[r].owner = {} /\ row[r].status = "SCHEDULED"}

(* The claim's UPDATE: WHERE id=? AND worker_id IS NULL                     *)
Claimable(r) == Present(r) /\ row[r].owner = {}

(* What a heartbeat writes, of the status it read.                          *)
Revived(status) == IF status = "DISABLED" THEN "DISABLED" ELSE "ONLINE"

(* run_step looks at the deadline while its child runs.                     *)
Overdue(r) == thread[r].expired

-----------------------------------------------------------------------------
(* spawn_script_jobs inserts the run and starts its thread.                 *)
Spawn(r, steps) ==
    /\ script /\ row[r].status = "absent"
    /\ row' = [row EXCEPT ![r] = [@ EXCEPT !.status = "SCHEDULED"]]
    /\ thread' = [thread EXCEPT ![r] = [NoThread EXCEPT !.pc = "start", !.left = steps]]
    /\ UNCHANGED <<script, dropped, losses, workerVars, claimVars>>

SetRunRunning(r) ==
    /\ thread[r].pc = "start"
    /\ Update(r, "RUNNING")
    /\ thread' = [thread EXCEPT ![r] = [@ EXCEPT !.pc = "step"]]
    /\ UNCHANGED <<script, dropped, losses, workerVars, claimVars>>

Deadline(r) ==
    /\ thread[r].pc \in {"step", "wait", "join"} /\ ~thread[r].expired
    /\ thread' = [thread EXCEPT ![r] = [@ EXCEPT !.expired = TRUE]]
    /\ UNCHANGED <<row, script, dropped, losses, workerVars, claimVars>>

(* execute_job_run between two steps: all done, out of time, a step that    *)
(* cannot be started or is for a container, or the next step.               *)
NextStep(r) ==
    /\ thread[r].pc = "step"
    /\ \/ /\ thread[r].left = 0
          /\ thread' = [thread EXCEPT ![r] = [@ EXCEPT !.pc = "finish"]]
       \/ /\ thread[r].left > 0
          /\ thread' = [thread EXCEPT ![r] = [@ EXCEPT !.pc = "finish", !.failed = TRUE]]
       \/ /\ thread[r].left > 0 /\ ~thread[r].expired
          /\ thread' = [thread EXCEPT ![r] = [@ EXCEPT !.pc = "wait"]]
    /\ UNCHANGED <<row, script, dropped, losses, workerVars, claimVars>>

(* The shell of the step ends or is killed; a process it has left behind    *)
(* may hold its pipes, which the readers read to the end.                   *)
StepEnds(r, failed, held) ==
    /\ thread[r].pc = "wait"
    /\ thread' = [thread EXCEPT ![r] = [@ EXCEPT !.pc = "join", !.failed = failed,
                                                   !.held = held]]
    /\ UNCHANGED <<row, script, dropped, losses, workerVars, claimVars>>

Kill(r, held) == Overdue(r) /\ StepEnds(r, TRUE, held)

PipesClose(r) ==
    /\ thread[r].pc = "join" /\ thread[r].held
    /\ thread' = [thread EXCEPT ![r] = [@ EXCEPT !.held = FALSE]]
    /\ UNCHANGED <<row, script, dropped, losses, workerVars, claimVars>>

Join(r) ==
    /\ thread[r].pc = "join" /\ ~thread[r].held
    /\ thread' = [thread EXCEPT ![r] = [@ EXCEPT
                    !.pc = IF thread[r].failed THEN "finish" ELSE "step", !.left = thread[r].left - 1]]
    /\ UNCHANGED <<row, script, dropped, losses, workerVars, claimVars>>

FinishRun(r) ==
    /\ thread[r].pc = "finish"
    /\ Update(r, IF thread[r].failed THEN "FAILED" ELSE "FINISHED")
    /\ thread' = [thread EXCEPT ![r] = [NoThread EXCEPT !.pc = "done"]]
    /\ UNCHANGED <<script, dropped, losses, workerVars, claimVars>>

(* An update that fails is dropped and the thread goes on.                  *)
DropsUpdate(r) ==
    /\ losses < MaxLosses /\ losses' = losses + 1
    /\ \/ /\ thread[r].pc = "start"
          /\ thread' = [thread EXCEPT ![r] = [@ EXCEPT !.pc = "step"]]
          /\ UNCHANGED dropped
       \/ /\ thread[r].pc = "finish"
          /\ thread' = [thread EXCEPT ![r] = [NoThread EXCEPT !.pc = "done"]]
          /\ dropped' = dropped \cup {r}
    /\ UNCHANGED <<row, script, workerVars, claimVars>>

(* The process dies: nothing takes up its runs again.                       *)
Dies(r) ==
    /\ thread[r].pc \in Live /\ losses < MaxLosses
    /\ losses' = losses + 1
    /\ thread' = [thread EXCEPT ![r] = [NoThread EXCEPT !.pc = "lost"]]
    /\ UNCHANGED <<row, script, dropped, workerVars, claimVars>>

(* delete_pipeline_script: the runs in one statement, jobs and script in    *)
(* others, which fail when a run was inserted in between.                   *)
DeletePipelineScript(all) ==
    /\ script /\ script' = ~all
    /\ row' = [r \in Runs |-> IF Present(r) THEN [row[r] EXCEPT !.status = "deleted"] ELSE row[r]]
    /\ UNCHANGED <<thread, dropped, losses, workerVars, claimVars>>

-----------------------------------------------------------------------------
ClockTicks ==
    /\ clock < Clocks
    /\ clock' = clock + 1
    /\ UNCHANGED <<worker, runVars, claimVars>>

(* An upsert, whatever the row was; the suspension stays.                   *)
RegisterWorker(w, status) ==
    /\ worker' = [worker EXCEPT ![w] = [@ EXCEPT !.status = status, !.seen = clock]]
    /\ UNCHANGED <<clock, runVars, claimVars>>

SetWorkerSuspended(w, suspended) ==
    /\ worker[w].status # "absent"
    /\ worker' = [worker EXCEPT ![w] = [@ EXCEPT !.suspended = suspended]]
    /\ UNCHANGED <<clock, runVars, claimVars>>

(* worker_heartbeat and assign_job_run take the clock ...                   *)
Begin(a, does, w) ==
    /\ agent[a].pc = "idle"
    /\ agent' = [agent EXCEPT ![a] = [NoCommand EXCEPT !.pc = "expire", !.does = does,
                                                  !.worker = {w}, !.now = clock]]
    /\ UNCHANGED <<handed, late, runVars, workerVars>>

(* ... and expire_stale_workers_conn                                        *)
ExpireStaleWorkers(a) ==
    /\ agent[a].pc = "expire"
    /\ worker' = [w \in Workers |->
                    IF worker[w].status = "ONLINE" /\ worker[w].seen + Grace < agent[a].now
                    THEN [worker[w] EXCEPT !.status = "OFFLINE"] ELSE worker[w]]
    /\ agent' = [agent EXCEPT ![a] = [@ EXCEPT !.pc = agent[a].does]]
    /\ UNCHANGED <<clock, handed, late, runVars>>

ReadWorker(a, w) ==
    /\ agent[a].pc = "read" /\ w \in agent[a].worker /\ worker[w].status # "absent"
    /\ agent' = [agent EXCEPT ![a] = [@ EXCEPT !.pc = "beat", !.status = worker[w].status]]
    /\ UNCHANGED <<handed, late, runVars, workerVars>>

WorkerHeartbeat(a, w) ==
    /\ agent[a].pc = "beat" /\ w \in agent[a].worker
    /\ worker' = [worker EXCEPT ![w] = [@ EXCEPT !.status = Revived(agent[a].status),
                                                   !.seen = agent[a].now]]
    /\ agent' = [agent EXCEPT ![a] = NoCommand]
    /\ UNCHANGED <<clock, handed, late, runVars>>

CheckWorker(a, w) ==
    /\ agent[a].pc = "check" /\ w \in agent[a].worker /\ Assignable(w, agent[a].now)
    /\ agent' = [agent EXCEPT ![a] = [@ EXCEPT !.pc = "list", !.now = 0]]
    /\ UNCHANGED <<handed, late, runVars, workerVars>>

ListRuns(a) ==
    /\ agent[a].pc = "list"
    /\ agent' = [agent EXCEPT ![a] = [@ EXCEPT !.pc = "claim", !.list = Candidates,
                                                 !.open = {r \in Runs : row[r].status \notin Ended}]]
    /\ UNCHANGED <<handed, late, runVars, workerVars>>

(* assign_job_run_conn tries one candidate after another, the oldest first. *)
TryRun(a, r) ==
    /\ agent[a].pc = "claim" /\ r \in agent[a].list /\ \A q \in agent[a].list : r <= q
    /\ IF Claimable(r)
       THEN /\ row' = [row EXCEPT ![r] = [status |-> "RUNNING", owner |-> agent[a].worker]]
            /\ handed' = [handed EXCEPT ![r] = @ + 1]
            /\ late' = IF row[r].status \in Ended /\ r \in agent[a].open THEN late \cup {r} ELSE late
            /\ agent' = [agent EXCEPT ![a] = NoCommand]
       ELSE /\ agent' = [agent EXCEPT ![a] = [@ EXCEPT !.list = agent[a].list \ {r}]]
            /\ UNCHANGED <<row, handed, late>>
    /\ UNCHANGED <<thread, script, dropped, losses, workerVars>>

(* A command ends with an error, an answer of no run, or its process.       *)
Returns(a) ==
    /\ agent[a].pc # "idle"
    /\ agent' = [agent EXCEPT ![a] = NoCommand]
    /\ UNCHANGED <<handed, late, runVars, workerVars>>

-----------------------------------------------------------------------------
Executor(r) ==
    \/ SetRunRunning(r) \/ NextStep(r) \/ Join(r) \/ FinishRun(r)
    \/ \E held \in BOOLEAN : Kill(r, held)

Run(r) ==
    \/ Executor(r) \/ Deadline(r) \/ PipesClose(r) \/ DropsUpdate(r) \/ Dies(r)
    \/ \E steps \in 0 .. MaxSteps : Spawn(r, steps)
    \/ \E failed, held \in BOOLEAN : StepEnds(r, failed, held)

Command(a) ==
    \/ ExpireStaleWorkers(a) \/ ListRuns(a) \/ Returns(a)
    \/ \E r \in Runs : TryRun(a, r)
    \/ \E w \in Workers :
         \/ \E does \in {"read", "check"} : Begin(a, does, w)
         \/ ReadWorker(a, w) \/ WorkerHeartbeat(a, w) \/ CheckWorker(a, w)

JobNext ==
    \/ ClockTicks
    \/ \E r \in Runs : Run(r)
    \/ \E all \in BOOLEAN : DeletePipelineScript(all)
    \/ \E w \in Workers :
         \/ \E status \in {"ONLINE", "OFFLINE", "DISABLED"} : RegisterWorker(w, status)
         \/ \E suspended \in BOOLEAN : SetWorkerSuspended(w, suspended)
    \/ \E a \in Agents : Command(a)

JobSpec == JobInit /\ [][JobNext]_jobVars

-----------------------------------------------------------------------------
(* However many agents ask, a run is the answer to one claim: the UPDATE    *)
(* decides, and not the list it was taken from.                             *)
HandedOnce == \A r \in Runs : handed[r] <= 1

(* A run whose execution is over shows how it ended, unless its last update *)
(* was dropped or a worker claimed it from a list read before it ended,     *)
(* which makes it RUNNING for ever.                                         *)
EndedStays ==
    \A r \in Runs : thread[r].pc = "done" =>
        row[r].status \in Ended \cup {"deleted"} \/ r \in dropped \cup late

(* A DISABLED worker comes back by a registration, or by a heartbeat that   *)
(* read its row before it was disabled, and by nothing else.                *)
DisabledStep ==
    \A w \in Workers :
        worker[w].status = "DISABLED" /\ worker'[w].status # "DISABLED"
        => \/ \E status \in {"ONLINE", "OFFLINE"} : RegisterWorker(w, status)
           \/ \E a \in Agents : agent[a].status # "DISABLED" /\ WorkerHeartbeat(a, w)

DisabledStays == [][DisabledStep]_jobVars

(* A run that was started ends and says so, whatever its steps do and       *)
(* whoever claims it, unless its process dies, its last update is dropped,  *)
(* it was claimed too late, or a process that outlives the step keeps its   *)
(* pipes: the deadline kills the shell alone.                               *)
Ends ==
    \A r \in Runs :
        (thread[r].pc # "none") ~>
            \/ row[r].status \in Ended \cup {"deleted"}
            \/ thread[r].pc = "lost" \/ r \in dropped \cup late \/ thread[r].held
=============================================================================
