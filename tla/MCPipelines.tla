---------------------------- MODULE MCPipelines ----------------------------
(* The run's three parts: the schedule; one run that is executed while      *)
(* workers claim it; and two runs that wait while their worker comes, is    *)
(* suspended, falls silent and is disabled.  "part" is the part a behaviour *)
(* belongs to.                                                              *)
EXTENDS PipelineSchedule, JobRuns

CONSTANT Only   \* the worker of the third part

VARIABLE part

MCvars == <<part, vars, jobVars>>

MCInit == Init /\ JobInit /\ part \in {"schedule", "runs", "workers"}

Spawned == {r \in Runs : row[r].status # "absent"}

Executed ==
    /\ clock' = 0 /\ \A r \in Spawned', q \in Runs : r <= q
    /\ \A a \in Agents : agent'[a].pc # "idle" =>
          agent'[a].does = "check" /\ agent'[a].worker = {a}
    /\ \A w \in Workers :
          /\ worker'[w] # worker[w] => worker[w].status = "absent"
          /\ ~worker'[w].suspended /\ worker'[w].status \in {"absent", "ONLINE"}

Waiting ==
    /\ script'
    /\ \A r \in Runs : thread'[r].pc \in {"none", "start"} /\ thread'[r].left = 0
    /\ \A a \in Agents : agent'[a].worker \subseteq {Only}
    /\ \A w \in Workers \ {Only} : worker'[w].status = "absent"

MCNext ==
    /\ part' = part
    /\ IF part = "schedule" THEN Next /\ UNCHANGED jobVars
       ELSE JobNext /\ (IF part = "runs" THEN Executed ELSE Waiting) /\ UNCHANGED vars

MCFairness ==
    /\ WF_vars(part = "schedule" /\ Tick)
    /\ WF_vars(part = "schedule" /\ DueScheduledRuns(Server, now))
    /\ \A c \in Callers : WF_vars(part = "schedule" /\ Step(c))
    /\ \A r \in Runs : /\ WF_jobVars(part = "runs" /\ Executor(r))
                       /\ WF_jobVars(part = "runs" /\ Deadline(r))

MCSpec == MCInit /\ [][MCNext]_MCvars /\ MCFairness

(* A run that was started ends and says so, but for the losses and the held *)
(* pipes that Ends names (the comment of run_step).                         *)
ExecutedEnds == (part = "runs") => Ends
=============================================================================
