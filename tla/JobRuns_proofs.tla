---------------------------- MODULE JobRuns_proofs ----------------------------
(***************************************************************************)
(* Proofs about JobRuns: a run is handed out once, shows how it ended, and *)
(* a disabled worker stays disabled, for any runs, workers and agents.     *)
(***************************************************************************)
EXTENDS JobRuns, TLAPS

-----------------------------------------------------------------------------
(* The inductive invariant.                                                 *)

(* A step that runs is one of the steps still to do.                        *)
StepsLeft == \A r \in Runs : thread[r].pc \in {"wait", "join"} => thread[r].left > 0

(* A command speaks for a worker, and lists runs that had not ended.        *)
Commands == \A a \in Agents :
    /\ agent[a].pc # "idle" => agent[a].worker # {}
    /\ agent[a].list \subseteq agent[a].open

(* The claims of a run are counted by its owner, whom no statement takes    *)
(* back.                                                                    *)
Counted == \A r \in Runs : handed[r] = IF row[r].owner = {} THEN 0 ELSE 1

(* A run has a thread from the start.                                       *)
Started == \A r \in Runs : row[r].status = "absent" => thread[r].pc = "none"

Inv == JobTypeOK /\ Started /\ StepsLeft /\ Commands /\ Counted /\ EndedStays

-----------------------------------------------------------------------------
LEMMA NoneTyped == NoThread \in Thread /\ NoCommand \in Agent
  BY SMT DEF NoThread, Thread, NoCommand, Agent

LEMMA Initial == JobInit => Inv
<1> SUFFICES ASSUME JobInit PROVE Inv
  OBVIOUS
<1>1. JobTypeOK
  <2>1. row \in [Runs -> Row] /\ worker \in [Workers -> Worker]
    BY DEF JobInit, Row, Worker
  <2> QED
    BY <2>1, NoneTyped DEF JobInit, JobTypeOK
<1>2. Started /\ StepsLeft /\ EndedStays
  BY DEF JobInit, Started, StepsLeft, EndedStays, NoThread
<1>3. Commands
  BY DEF JobInit, Commands, NoCommand
<1>4. Counted
  BY DEF JobInit, Counted
<1> QED
  BY <1>1, <1>2, <1>3, <1>4 DEF Inv

(* A step of the thread of one run, which may write the status of its row.  *)
LEMMA ThreadMoves ==
    ASSUME Inv, NEW r \in Runs, NEW t \in Thread, thread' = [thread EXCEPT ![r] = t],
           NEW s \in Row, row' = [row EXCEPT ![r] = s], s.owner = row[r].owner,
           s.status # "absent", t.pc \in {"wait", "join"} => t.left > 0,
           t.pc = "done" => s.status \in Ended \cup {"deleted"} \/ r \in dropped' \cup late,
           dropped' \subseteq Runs, dropped \subseteq dropped', losses' \in Nat,
           UNCHANGED <<script, workerVars, claimVars>>
    PROVE  Inv'
<1> USE DEF Inv
<1>1. /\ thread' \in [Runs -> Thread] /\ thread'[r] = t
      /\ \A q \in Runs \ {r} : thread'[q] = thread[q]
  BY DEF JobTypeOK
<1>2. /\ row' \in [Runs -> Row] /\ row'[r] = s
      /\ \A q \in Runs \ {r} : row'[q] = row[q]
  BY DEF JobTypeOK
<1>3. JobTypeOK'
  BY <1>1, <1>2 DEF JobTypeOK, workerVars, claimVars
<1>4. Started' /\ StepsLeft'
  BY <1>1, <1>2 DEF Started, StepsLeft
<1>5. Commands'
  BY DEF Commands, claimVars
<1>6. Counted'
  <2>1. \A q \in Runs : row'[q].owner = row[q].owner
    BY <1>2
  <2> QED
    BY <2>1 DEF Counted, claimVars
<1>7. EndedStays'
  BY <1>1, <1>2 DEF EndedStays, claimVars
<1> QED
  BY <1>3, <1>4, <1>5, <1>6, <1>7

(* The same when the row stays as it is.                                    *)
LEMMA ThreadMovesAlone ==
    ASSUME Inv, NEW r \in Runs, NEW t \in Thread, thread' = [thread EXCEPT ![r] = t],
           UNCHANGED row, thread[r].pc # "none",
           t.pc \in {"wait", "join"} => t.left > 0,
           t.pc = "done" => r \in dropped',
           dropped' \subseteq Runs, dropped \subseteq dropped', losses' \in Nat,
           UNCHANGED <<script, workerVars, claimVars>>
    PROVE  Inv'
<1>1. row[r] \in Row /\ row' = [row EXCEPT ![r] = row[r]] /\ row[r].status # "absent"
  BY DEF Inv, JobTypeOK, Started
<1> QED
  BY <1>1, ThreadMoves

(* A step of one command that claims nothing.                               *)
LEMMA AgentMoves ==
    ASSUME Inv, NEW a \in Agents, NEW g \in Agent, agent' = [agent EXCEPT ![a] = g],
           g.pc # "idle" => g.worker # {},
           g.list \subseteq g.open,
           worker' \in [Workers -> Worker], clock' = clock,
           UNCHANGED <<runVars, handed, late>>
    PROVE  Inv'
<1> USE DEF Inv
<1>1. /\ agent' \in [Agents -> Agent] /\ agent'[a] = g
      /\ \A b \in Agents \ {a} : agent'[b] = agent[b]
  BY DEF JobTypeOK
<1>2. JobTypeOK'
  BY <1>1 DEF JobTypeOK, runVars
<1>3. Started' /\ StepsLeft' /\ EndedStays' /\ Counted'
  BY DEF Started, StepsLeft, EndedStays, Counted, runVars
<1>4. Commands'
  BY <1>1 DEF Commands
<1> QED
  BY <1>2, <1>3, <1>4

-----------------------------------------------------------------------------
(* The executor.                                                            *)

LEMMA SpawnKeeps ==
    ASSUME Inv, MaxSteps \in Nat, NEW r \in Runs, NEW steps \in 0 .. MaxSteps, Spawn(r, steps)
    PROVE  Inv'
<1> DEFINE t == [NoThread EXCEPT !.pc = "start", !.left = steps]
           s == [row[r] EXCEPT !.status = "SCHEDULED"]
<1>1. steps \in Nat
  OBVIOUS
<1>6. t \in Thread /\ t.pc = "start"
  BY <1>1, NoneTyped DEF Thread, Live
<1>2. row[r] \in Row
  BY DEF Inv, JobTypeOK
<1>3. s \in Row /\ s.owner = row[r].owner /\ s.status # "absent"
  BY <1>2 DEF Row
<1>4. /\ thread' = [thread EXCEPT ![r] = t] /\ row' = [row EXCEPT ![r] = s]
      /\ UNCHANGED <<script, dropped, losses, workerVars, claimVars>>
  BY DEF Spawn
<1>5. dropped \subseteq Runs /\ losses \in Nat
  BY DEF Inv, JobTypeOK
<1> HIDE DEF t, s
<1> QED
  BY <1>1, <1>3, <1>4, <1>5, <1>6, ThreadMoves

LEMMA Updated ==
    ASSUME Inv, NEW r \in Runs, NEW status \in {"RUNNING"} \cup Ended, Update(r, status)
    PROVE  \E s \in Row : /\ row' = [row EXCEPT ![r] = s] /\ s.owner = row[r].owner
                          /\ s.status = status \/ (~Present(r) /\ s.status = row[r].status)
<1>1. row \in [Runs -> Row] /\ row[r] \in Row
  BY DEF Inv, JobTypeOK
<1>2. CASE Present(r)
  <2> DEFINE s == [row[r] EXCEPT !.status = status]
  <2>1. s \in Row /\ s.owner = row[r].owner /\ s.status = status
    BY <1>1 DEF Row
  <2>2. row' = [row EXCEPT ![r] = s]
    BY <1>2 DEF Update
  <2> QED
    BY <2>1, <2>2
<1>3. CASE ~Present(r)
  <2>1. row' = [row EXCEPT ![r] = row[r]]
    BY <1>1, <1>3 DEF Update
  <2> QED
    BY <1>1, <1>3, <2>1
<1> QED
  BY <1>2, <1>3

LEMMA SetRunRunningKeeps == ASSUME Inv, NEW r \in Runs, SetRunRunning(r) PROVE Inv'
<1> DEFINE t == [thread[r] EXCEPT !.pc = "step"]
<1>1. thread[r] \in Thread /\ dropped \subseteq Runs /\ losses \in Nat
  BY DEF Inv, JobTypeOK
<1>2. t \in Thread /\ t.pc = "step"
  BY <1>1 DEF Thread, Live
<1>3. /\ Update(r, "RUNNING") /\ thread' = [thread EXCEPT ![r] = t]
      /\ UNCHANGED <<script, dropped, losses, workerVars, claimVars>>
  BY DEF SetRunRunning
<1>4. PICK s \in Row : row' = [row EXCEPT ![r] = s] /\ s.owner = row[r].owner /\ s.status # "absent"
  <2>1. row[r].status # "absent"
    BY DEF SetRunRunning, Inv, Started
  <2> QED
    BY <1>3, <2>1, Updated DEF Ended
<1> HIDE DEF t
<1> QED
  BY <1>1, <1>2, <1>3, <1>4, ThreadMoves

LEMMA FinishRunKeeps == ASSUME Inv, NEW r \in Runs, FinishRun(r) PROVE Inv'
<1> DEFINE t == [NoThread EXCEPT !.pc = "done"]
           status == IF thread[r].failed THEN "FAILED" ELSE "FINISHED"
<1>1. dropped \subseteq Runs /\ losses \in Nat
  BY DEF Inv, JobTypeOK
<1>2. t \in Thread /\ t.pc = "done"
  BY DEF NoThread, Thread, Live
<1>3. /\ Update(r, status) /\ thread' = [thread EXCEPT ![r] = t]
      /\ UNCHANGED <<script, dropped, losses, workerVars, claimVars>>
  BY DEF FinishRun
<1>4. PICK s \in Row : /\ row' = [row EXCEPT ![r] = s] /\ s.owner = row[r].owner
                       /\ s.status \in Ended \cup {"deleted"}
  <2>1. row[r].status # "absent"
    BY DEF FinishRun, Inv, Started
  <2> QED
    BY <1>3, <2>1, Updated DEF Ended, Present
<1>5. s.status # "absent"
  BY <1>4 DEF Ended
<1> HIDE DEF t
<1> QED
  BY <1>1, <1>2, <1>3, <1>4, <1>5, ThreadMoves

LEMMA DeadlineKeeps == ASSUME Inv, NEW r \in Runs, Deadline(r) PROVE Inv'
<1> DEFINE t == [thread[r] EXCEPT !.expired = TRUE]
<1>1. thread[r] \in Thread /\ dropped \subseteq Runs /\ losses \in Nat
  BY DEF Inv, JobTypeOK
<1>2. t \in Thread /\ t.pc = thread[r].pc /\ t.left = thread[r].left
  BY <1>1 DEF Thread
<1>3. thread' = [thread EXCEPT ![r] = t] /\ thread[r].pc \in {"step", "wait", "join"}
  BY DEF Deadline
<1>4. UNCHANGED <<row, script, dropped, losses, workerVars, claimVars>>
  BY DEF Deadline
<1> HIDE DEF t
<1> QED
  BY <1>1, <1>2, <1>3, <1>4, ThreadMovesAlone DEF Inv, StepsLeft

LEMMA NextStepKeeps == ASSUME Inv, NEW r \in Runs, NextStep(r) PROVE Inv'
<1>1. thread[r] \in Thread /\ dropped \subseteq Runs /\ losses \in Nat
  BY DEF Inv, JobTypeOK
<1>2. PICK t \in Thread : /\ thread' = [thread EXCEPT ![r] = t]
                          /\ t.pc \in {"finish", "wait"} /\ t.left = thread[r].left
                          /\ t.pc = "wait" => thread[r].left > 0
  <2>1. /\ [thread[r] EXCEPT !.pc = "finish"] \in Thread
        /\ [thread[r] EXCEPT !.pc = "finish", !.failed = TRUE] \in Thread
        /\ [thread[r] EXCEPT !.pc = "wait"] \in Thread
    BY <1>1 DEF Thread, Live
  <2> QED
    BY <1>1, <2>1 DEF NextStep, Thread
<1>3. thread[r].pc = "step" /\ UNCHANGED <<row, script, dropped, losses, workerVars, claimVars>>
  BY DEF NextStep
<1> QED
  BY <1>1, <1>2, <1>3, ThreadMovesAlone

LEMMA StepEndsKeeps ==
    ASSUME Inv, NEW r \in Runs, NEW failed \in BOOLEAN, NEW held \in BOOLEAN,
           StepEnds(r, failed, held)
    PROVE  Inv'
<1> DEFINE t == [thread[r] EXCEPT !.pc = "join", !.failed = failed, !.held = held]
<1>1. thread[r] \in Thread /\ dropped \subseteq Runs /\ losses \in Nat
  BY DEF Inv, JobTypeOK
<1>2. t \in Thread /\ t.pc = "join" /\ t.left = thread[r].left
  BY <1>1 DEF Thread, Live
<1>3. thread' = [thread EXCEPT ![r] = t] /\ thread[r].pc = "wait"
  BY DEF StepEnds
<1>4. UNCHANGED <<row, script, dropped, losses, workerVars, claimVars>>
  BY DEF StepEnds
<1> HIDE DEF t
<1> QED
  BY <1>1, <1>2, <1>3, <1>4, ThreadMovesAlone DEF Inv, StepsLeft

LEMMA PipesCloseKeeps == ASSUME Inv, NEW r \in Runs, PipesClose(r) PROVE Inv'
<1> DEFINE t == [thread[r] EXCEPT !.held = FALSE]
<1>1. thread[r] \in Thread /\ dropped \subseteq Runs /\ losses \in Nat
  BY DEF Inv, JobTypeOK
<1>2. t \in Thread /\ t.pc = thread[r].pc /\ t.left = thread[r].left
  BY <1>1 DEF Thread
<1>3. thread' = [thread EXCEPT ![r] = t] /\ thread[r].pc = "join"
  BY DEF PipesClose
<1>4. UNCHANGED <<row, script, dropped, losses, workerVars, claimVars>>
  BY DEF PipesClose
<1> HIDE DEF t
<1> QED
  BY <1>1, <1>2, <1>3, <1>4, ThreadMovesAlone DEF Inv, StepsLeft

LEMMA JoinKeeps == ASSUME Inv, NEW r \in Runs, Join(r) PROVE Inv'
<1> DEFINE t == [thread[r] EXCEPT !.pc = IF thread[r].failed THEN "finish" ELSE "step",
                                  !.left = thread[r].left - 1]
<1>1. thread[r] \in Thread /\ dropped \subseteq Runs /\ losses \in Nat
  BY DEF Inv, JobTypeOK
<1>2. thread[r].pc = "join" /\ thread' = [thread EXCEPT ![r] = t]
  BY DEF Join
<1>3. thread[r].left - 1 \in Nat
  BY <1>1, <1>2 DEF Inv, StepsLeft, Thread
<1>4. t \in Thread /\ t.pc \in {"finish", "step"}
  BY <1>1, <1>3 DEF Thread, Live
<1>5. UNCHANGED <<row, script, dropped, losses, workerVars, claimVars>>
  BY DEF Join
<1> HIDE DEF t
<1> QED
  BY <1>1, <1>2, <1>4, <1>5, ThreadMovesAlone

LEMMA DropsUpdateKeeps == ASSUME Inv, NEW r \in Runs, DropsUpdate(r) PROVE Inv'
<1>1. thread[r] \in Thread /\ dropped \subseteq Runs /\ losses \in Nat
  BY DEF Inv, JobTypeOK
<1>2. PICK t \in Thread : /\ thread' = [thread EXCEPT ![r] = t]
                          /\ \/ t.pc = "step" /\ dropped' = dropped
                             \/ t.pc = "done" /\ dropped' = dropped \cup {r}
  <2>1. /\ [thread[r] EXCEPT !.pc = "step"] \in Thread
        /\ [NoThread EXCEPT !.pc = "done"] \in Thread
    BY <1>1, NoneTyped DEF Thread, Live
  <2> QED
    BY <1>1, <2>1, NoneTyped DEF DropsUpdate, Thread
<1>3. /\ losses' \in Nat /\ thread[r].pc # "none"
      /\ UNCHANGED <<row, script, workerVars, claimVars>>
  BY <1>1 DEF DropsUpdate
<1> QED
  BY <1>1, <1>2, <1>3, ThreadMovesAlone

LEMMA DiesKeeps == ASSUME Inv, NEW r \in Runs, Dies(r) PROVE Inv'
<1> DEFINE t == [NoThread EXCEPT !.pc = "lost"]
<1>1. dropped \subseteq Runs /\ losses \in Nat
  BY DEF Inv, JobTypeOK
<1>2. t \in Thread /\ t.pc = "lost"
  BY NoneTyped DEF Thread, Live
<1>3. /\ thread' = [thread EXCEPT ![r] = t] /\ losses' \in Nat
      /\ thread[r].pc # "none"
      /\ UNCHANGED <<row, script, dropped, workerVars, claimVars>>
  BY <1>1 DEF Dies, Live
<1> HIDE DEF t
<1> QED
  BY <1>1, <1>2, <1>3, ThreadMovesAlone

LEMMA DeletePipelineScriptKeeps ==
    ASSUME Inv, NEW all \in BOOLEAN, DeletePipelineScript(all) PROVE Inv'
<1> USE DEF Inv
<1>1. UNCHANGED <<thread, dropped, losses, workerVars, claimVars>> /\ script' \in BOOLEAN
  BY DEF DeletePipelineScript
<1>2. \A r \in Runs :
        /\ row'[r] \in Row /\ row'[r].owner = row[r].owner
        /\ row'[r].status \in {row[r].status, "deleted"}
        /\ row'[r].status = "absent" => row[r].status = "absent"
  <2> TAKE r \in Runs
  <2>1. row[r] \in Row
    BY DEF JobTypeOK
  <2>2. row'[r] = IF Present(r) THEN [row[r] EXCEPT !.status = "deleted"] ELSE row[r]
    BY DEF DeletePipelineScript
  <2> QED
    BY <2>1, <2>2 DEF Row
<1>3. row' \in [Runs -> Row]
  BY <1>2 DEF DeletePipelineScript
<1>4. JobTypeOK'
  BY <1>1, <1>3 DEF JobTypeOK, workerVars, claimVars
<1>5. Started' /\ StepsLeft' /\ Commands'
  BY <1>1, <1>2 DEF Started, StepsLeft, Commands, claimVars
<1>6. Counted'
  BY <1>1, <1>2 DEF Counted, claimVars
<1>7. EndedStays'
  BY <1>1, <1>2 DEF EndedStays, claimVars
<1> QED
  BY <1>4, <1>5, <1>6, <1>7

-----------------------------------------------------------------------------
(* The workers and their commands.                                          *)

LEMMA WorkersAlone ==
    ASSUME Inv, worker' \in [Workers -> Worker], clock' \in Nat, UNCHANGED <<runVars, claimVars>>
    PROVE  Inv'
<1> USE DEF Inv
<1>1. JobTypeOK'
  BY DEF JobTypeOK, runVars, claimVars
<1> QED
  BY <1>1 DEF Started, StepsLeft, Commands, Counted, EndedStays, runVars, claimVars

LEMMA WorkersKeep ==
    ASSUME Inv, NEW w \in Workers, NEW status \in {"ONLINE", "OFFLINE", "DISABLED"},
           NEW suspended \in BOOLEAN,
           ClockTicks \/ RegisterWorker(w, status) \/ SetWorkerSuspended(w, suspended)
    PROVE  Inv'
<1>1. worker[w] \in Worker /\ clock \in Nat /\ worker \in [Workers -> Worker]
  BY DEF Inv, JobTypeOK
<1>2. CASE ClockTicks
  BY <1>1, <1>2, WorkersAlone DEF ClockTicks
<1>3. CASE RegisterWorker(w, status)
  <2>1. [worker[w] EXCEPT !.status = status, !.seen = clock] \in Worker
    BY <1>1 DEF Worker
  <2> QED
    BY <1>1, <1>3, <2>1, WorkersAlone DEF RegisterWorker
<1>4. CASE SetWorkerSuspended(w, suspended)
  <2>1. [worker[w] EXCEPT !.suspended = suspended] \in Worker
    BY <1>1 DEF Worker
  <2> QED
    BY <1>1, <1>4, <2>1, WorkersAlone DEF SetWorkerSuspended
<1> QED
  BY <1>2, <1>3, <1>4

LEMMA BeginKeeps ==
    ASSUME Inv, NEW a \in Agents, NEW does \in {"read", "check"}, NEW w \in Workers,
           Begin(a, does, w)
    PROVE  Inv'
<1> DEFINE g == [NoCommand EXCEPT !.pc = "expire", !.does = does, !.worker = {w}, !.now = clock]
<1>1. clock \in Nat /\ worker \in [Workers -> Worker]
  BY DEF Inv, JobTypeOK
<1>2. g \in Agent /\ g.worker # {} /\ g.list = {}
  <2>1. NoCommand.list = {}
    BY DEF NoCommand
  <2> QED
    BY <1>1, <2>1, NoneTyped DEF Agent
<1>3. agent' = [agent EXCEPT ![a] = g] /\ UNCHANGED <<handed, late, runVars, workerVars>>
  BY DEF Begin
<1> HIDE DEF g
<1> QED
  BY <1>1, <1>2, <1>3, AgentMoves DEF workerVars

LEMMA ExpireStaleWorkersKeeps == ASSUME Inv, NEW a \in Agents, ExpireStaleWorkers(a) PROVE Inv'
<1> DEFINE g == [agent[a] EXCEPT !.pc = agent[a].does]
<1>1. agent[a] \in Agent /\ worker \in [Workers -> Worker]
  BY DEF Inv, JobTypeOK
<1>2. agent[a].worker # {} /\ agent[a].list \subseteq agent[a].open
  BY DEF ExpireStaleWorkers, Inv, Commands
<1>3. g \in Agent /\ g.worker = agent[a].worker /\ g.list = agent[a].list /\ g.open = agent[a].open
  BY <1>1 DEF Agent
<1>4. worker' \in [Workers -> Worker]
  <2>1. \A w \in Workers : [worker[w] EXCEPT !.status = "OFFLINE"] \in Worker
    BY <1>1 DEF Worker
  <2> QED
    BY <1>1, <2>1 DEF ExpireStaleWorkers
<1>5. agent' = [agent EXCEPT ![a] = g] /\ UNCHANGED <<clock, handed, late, runVars>>
  BY DEF ExpireStaleWorkers
<1> HIDE DEF g
<1> QED
  BY <1>2, <1>3, <1>4, <1>5, AgentMoves

LEMMA ReadWorkerKeeps ==
    ASSUME Inv, NEW a \in Agents, NEW w \in Workers, ReadWorker(a, w) PROVE Inv'
<1> DEFINE g == [agent[a] EXCEPT !.pc = "beat", !.status = worker[w].status]
<1>1. /\ agent[a] \in Agent /\ worker \in [Workers -> Worker]
      /\ worker[w].status \in {"ONLINE", "OFFLINE", "DISABLED"}
  BY DEF Inv, JobTypeOK, Worker, ReadWorker
<1>2. agent[a].worker # {} /\ agent[a].list \subseteq agent[a].open
  BY DEF ReadWorker, Inv, Commands
<1>3. g \in Agent /\ g.worker = agent[a].worker /\ g.list = agent[a].list /\ g.open = agent[a].open
  BY <1>1 DEF Agent
<1>4. agent' = [agent EXCEPT ![a] = g] /\ UNCHANGED <<handed, late, runVars, workerVars>>
  BY DEF ReadWorker
<1> HIDE DEF g
<1> QED
  BY <1>1, <1>2, <1>3, <1>4, AgentMoves DEF workerVars

LEMMA IdleAgain ==
    ASSUME Inv, NEW a \in Agents, agent' = [agent EXCEPT ![a] = NoCommand],
           worker' \in [Workers -> Worker], clock' = clock, UNCHANGED <<runVars, handed, late>>
    PROVE  Inv'
<1>1. NoCommand \in Agent /\ NoCommand.pc = "idle" /\ NoCommand.list \subseteq NoCommand.open
  BY NoneTyped DEF NoCommand
<1> QED
  BY <1>1, AgentMoves

LEMMA WorkerHeartbeatKeeps ==
    ASSUME Inv, NEW a \in Agents, NEW w \in Workers, WorkerHeartbeat(a, w) PROVE Inv'
<1> DEFINE x == [worker[w] EXCEPT !.status = Revived(agent[a].status), !.seen = agent[a].now]
<1>1. agent[a].now \in Nat /\ worker[w] \in Worker /\ worker \in [Workers -> Worker]
  BY DEF Inv, JobTypeOK, Agent
<1>2. x \in Worker
  BY <1>1 DEF Worker, Revived
<1>3. /\ worker' = [worker EXCEPT ![w] = x] /\ agent' = [agent EXCEPT ![a] = NoCommand]
      /\ UNCHANGED <<clock, handed, late, runVars>>
  BY DEF WorkerHeartbeat
<1> HIDE DEF x
<1>4. worker' \in [Workers -> Worker]
  BY <1>1, <1>2, <1>3
<1> QED
  BY <1>3, <1>4, IdleAgain

LEMMA CheckWorkerKeeps ==
    ASSUME Inv, NEW a \in Agents, NEW w \in Workers, CheckWorker(a, w) PROVE Inv'
<1> DEFINE g == [agent[a] EXCEPT !.pc = "list", !.now = 0]
<1>1. agent[a] \in Agent /\ worker \in [Workers -> Worker]
  BY DEF Inv, JobTypeOK
<1>2. agent[a].worker # {} /\ agent[a].list \subseteq agent[a].open
  BY DEF CheckWorker, Inv, Commands
<1>3. g \in Agent /\ g.worker = agent[a].worker /\ g.list = agent[a].list /\ g.open = agent[a].open
  BY <1>1 DEF Agent
<1>4. agent' = [agent EXCEPT ![a] = g] /\ UNCHANGED <<handed, late, runVars, workerVars>>
  BY DEF CheckWorker
<1> HIDE DEF g
<1> QED
  BY <1>1, <1>2, <1>3, <1>4, AgentMoves DEF workerVars

LEMMA ListRunsKeeps == ASSUME Inv, NEW a \in Agents, ListRuns(a) PROVE Inv'
<1> DEFINE open == {r \in Runs : row[r].status \notin Ended}
           g == [agent[a] EXCEPT !.pc = "claim", !.list = Candidates, !.open = open]
<1>1. agent[a] \in Agent /\ worker \in [Workers -> Worker]
  BY DEF Inv, JobTypeOK
<1>2. agent[a].worker # {}
  BY DEF ListRuns, Inv, Commands
<1>3. Candidates \subseteq open /\ open \subseteq Runs /\ Candidates \subseteq Runs
  BY DEF Candidates, Ended
<1>4. agent' = [agent EXCEPT ![a] = g] /\ UNCHANGED <<handed, late, runVars, workerVars>>
  BY DEF ListRuns
<1> HIDE DEF open
<1>5. g \in Agent /\ g.worker = agent[a].worker /\ g.list = Candidates /\ g.open = open
  BY <1>1, <1>3 DEF Agent
<1> HIDE DEF g
<1> QED
  BY <1>1, <1>2, <1>3, <1>4, <1>5, AgentMoves DEF workerVars

LEMMA ReturnsKeeps == ASSUME Inv, NEW a \in Agents, Returns(a) PROVE Inv'
<1>1. worker \in [Workers -> Worker]
  BY DEF Inv, JobTypeOK
<1> QED
  BY <1>1, IdleAgain DEF Returns, workerVars

(* The claim: its list was read when none of it had ended, so a run that    *)
(* has ended by now is claimed late.                                        *)
LEMMA TryRunKeeps == ASSUME Inv, NEW a \in Agents, NEW r \in Runs, TryRun(a, r) PROVE Inv'
<1> USE DEF Inv
<1>1. /\ agent[a] \in Agent /\ worker \in [Workers -> Worker] /\ agent[a].worker # {}
      /\ agent[a].list \subseteq agent[a].open /\ r \in agent[a].list
  BY DEF JobTypeOK, Commands, TryRun
<1>2. UNCHANGED <<thread, script, dropped, losses, workerVars>>
  BY DEF TryRun
<1>3. CASE Claimable(r)
  <2> DEFINE s == [status |-> "RUNNING", owner |-> agent[a].worker]
  <2>1. /\ row' = [row EXCEPT ![r] = s] /\ handed' = [handed EXCEPT ![r] = @ + 1]
        /\ late' = IF row[r].status \in Ended /\ r \in agent[a].open THEN late \cup {r} ELSE late
        /\ agent' = [agent EXCEPT ![a] = NoCommand]
    BY <1>3 DEF TryRun
  <2>2. s \in Row /\ s.owner # {} /\ s.status = "RUNNING"
    BY <1>1 DEF Row, Agent
  <2> HIDE DEF s
  <2>3. /\ row' \in [Runs -> Row] /\ row'[r] = s
        /\ \A q \in Runs \ {r} : row'[q] = row[q]
    BY <2>1, <2>2 DEF JobTypeOK
  <2>4. /\ handed' \in [Runs -> Nat] /\ handed'[r] = handed[r] + 1
        /\ \A q \in Runs \ {r} : handed'[q] = handed[q]
    BY <2>1 DEF JobTypeOK
  <2>5. agent' \in [Agents -> Agent] /\ late' \subseteq Runs /\ late \subseteq late'
    BY <2>1, NoneTyped DEF JobTypeOK
  <2>6. JobTypeOK'
    BY <1>2, <2>3, <2>4, <2>5 DEF JobTypeOK, workerVars
  <2>7. Started'
    <3>1. row[r].status # "absent"
      BY <1>3 DEF Claimable, Present
    <3> QED
      BY <1>2, <2>2, <2>3, <3>1 DEF Started
  <2>8. StepsLeft'
    BY <1>2 DEF StepsLeft
  <2>9. Commands'
    <3>1. agent'[a] = NoCommand /\ \A b \in Agents \ {a} : agent'[b] = agent[b]
      BY <2>1 DEF JobTypeOK
    <3>2. NoCommand.pc = "idle" /\ NoCommand.list = {}
      BY DEF NoCommand
    <3> QED
      BY <3>1, <3>2 DEF Commands
  <2>10. Counted'
    <3>1. handed[r] = 0
      BY <1>3 DEF Counted, Claimable
    <3> QED
      BY <2>2, <2>3, <2>4, <3>1 DEF Counted
  <2>11. EndedStays'
    <3>1. ASSUME thread[r].pc = "done" PROVE r \in dropped' \cup late'
      <4>1. row[r].status \in Ended \/ r \in dropped \cup late
        BY <1>3, <3>1 DEF EndedStays, Claimable, Present
      <4> QED
        BY <1>1, <1>2, <2>1, <2>5, <4>1
    <3> QED
      BY <1>2, <2>3, <2>5, <3>1 DEF EndedStays
  <2> QED
    BY <2>6, <2>7, <2>8, <2>9, <2>10, <2>11
<1>4. CASE ~Claimable(r)
  <2> DEFINE g == [agent[a] EXCEPT !.list = agent[a].list \ {r}]
  <2>1. g \in Agent /\ g.worker = agent[a].worker /\ g.list \subseteq agent[a].list
        /\ g.open = agent[a].open
    BY <1>1 DEF Agent
  <2>2. agent' = [agent EXCEPT ![a] = g] /\ UNCHANGED <<row, handed, late>>
    BY <1>4 DEF TryRun
  <2> HIDE DEF g
  <2> QED
    BY <1>1, <1>2, <2>1, <2>2, AgentMoves DEF runVars, workerVars
<1> QED
  BY <1>3, <1>4

-----------------------------------------------------------------------------
(* The invariant.                                                           *)

LEMMA RunKeeps == ASSUME Inv, MaxSteps \in Nat, NEW r \in Runs, Run(r) PROVE Inv'
<1>1. CASE Executor(r)
  <2>1. ASSUME NEW held \in BOOLEAN, Kill(r, held) PROVE Inv'
    BY <2>1, StepEndsKeeps DEF Kill
  <2> QED
    BY <1>1, <2>1, SetRunRunningKeeps, NextStepKeeps, JoinKeeps, FinishRunKeeps DEF Executor
<1>2. CASE \E steps \in 0 .. MaxSteps : Spawn(r, steps)
  BY <1>2, SpawnKeeps
<1>3. CASE \E failed, held \in BOOLEAN : StepEnds(r, failed, held)
  BY <1>3, StepEndsKeeps
<1> QED
  BY <1>1, <1>2, <1>3, DeadlineKeeps, PipesCloseKeeps, DropsUpdateKeeps, DiesKeeps DEF Run

LEMMA CommandKeeps == ASSUME Inv, NEW a \in Agents, Command(a) PROVE Inv'
BY ExpireStaleWorkersKeeps, ListRunsKeeps, ReturnsKeeps, TryRunKeeps, BeginKeeps,
   ReadWorkerKeeps, WorkerHeartbeatKeeps, CheckWorkerKeeps DEF Command

LEMMA Inductive == ASSUME MaxSteps \in Nat, Inv, [JobNext]_jobVars PROVE Inv'
<1>1. CASE ClockTicks
  <2>1. worker \in [Workers -> Worker] /\ clock' \in Nat
    BY <1>1 DEF Inv, JobTypeOK, ClockTicks
  <2> QED
    BY <1>1, <2>1, WorkersAlone DEF ClockTicks
<1>2. CASE \E r \in Runs : Run(r)
  BY <1>2, RunKeeps
<1>3. CASE \E all \in BOOLEAN : DeletePipelineScript(all)
  BY <1>3, DeletePipelineScriptKeeps
<1>4. ASSUME NEW w \in Workers, NEW status \in {"ONLINE", "OFFLINE", "DISABLED"},
             RegisterWorker(w, status)
      PROVE  Inv'
  BY <1>4, WorkersKeep
<1>5. ASSUME NEW w \in Workers, NEW suspended \in BOOLEAN, SetWorkerSuspended(w, suspended)
      PROVE  Inv'
  BY <1>5, WorkersKeep
<1>6. CASE \E a \in Agents : Command(a)
  BY <1>6, CommandKeeps
<1>7. CASE UNCHANGED jobVars
  BY <1>7 DEF jobVars, runVars, workerVars, claimVars, Inv, JobTypeOK, Started, StepsLeft, Commands,
              Counted, EndedStays
<1> QED
  BY <1>1, <1>2, <1>3, <1>4, <1>5, <1>6, <1>7 DEF JobNext

(* The inductive invariant holds in every reachable state, for any runs,    *)
(* workers and agents.                                                      *)
THEOREM JobRunsInvariant == ASSUME MaxSteps \in Nat PROVE JobSpec => []Inv
<1>1. Inv /\ [JobNext]_jobVars => Inv'
  BY Inductive
<1> QED
  BY Initial, <1>1, PTL DEF JobSpec

(* Every variable keeps its type.                                           *)
THEOREM JobRunsTypeCorrect == ASSUME MaxSteps \in Nat PROVE JobSpec => []JobTypeOK
<1>1. Inv => JobTypeOK
  BY DEF Inv
<1> QED
  BY <1>1, JobRunsInvariant, PTL

(* A run is the answer to one claim (assign_job_run_conn).                  *)
THEOREM OneClaimPerRun == ASSUME MaxSteps \in Nat PROVE JobSpec => []HandedOnce
<1>1. Inv => HandedOnce
  <2> SUFFICES ASSUME Inv, NEW r \in Runs PROVE handed[r] <= 1
    BY DEF HandedOnce
  <2>1. handed[r] \in {0, 1}
    BY DEF Inv, Counted
  <2> QED
    BY <2>1
<1> QED
  BY <1>1, JobRunsInvariant, PTL

(* A run whose execution is over shows how it ended, unless its last update *)
(* was dropped or it was claimed late (finish_run).                         *)
THEOREM EndedRunsStay == ASSUME MaxSteps \in Nat PROVE JobSpec => []EndedStays
<1>1. Inv => EndedStays
  BY DEF Inv
<1> QED
  BY <1>1, JobRunsInvariant, PTL

(* A DISABLED worker comes back by a registration, or by a heartbeat that   *)
(* read its row before (worker_heartbeat_conn).                             *)
THEOREM DisabledWorkersStay == ASSUME MaxSteps \in Nat PROVE JobSpec => DisabledStays
<1>1. Inv /\ [JobNext]_jobVars => [DisabledStep]_jobVars
  <2> SUFFICES ASSUME Inv, JobNext, NEW w \in Workers,
                      worker[w].status = "DISABLED", worker'[w].status # "DISABLED"
               PROVE  \/ \E status \in {"ONLINE", "OFFLINE"} : RegisterWorker(w, status)
                      \/ \E a \in Agents : agent[a].status # "DISABLED" /\ WorkerHeartbeat(a, w)
    BY DEF DisabledStep
  <2> USE DEF Inv
  <2>1. worker \in [Workers -> Worker]
    BY DEF JobTypeOK
  <2>2. CASE ClockTicks
    BY <2>2 DEF ClockTicks
  <2>3. CASE \E r \in Runs : Run(r)
    BY <2>3 DEF Run, Executor, Kill, Spawn, SetRunRunning, Deadline, NextStep, StepEnds,
                PipesClose, Join, FinishRun, DropsUpdate, Dies, workerVars
  <2>4. CASE \E all \in BOOLEAN : DeletePipelineScript(all)
    BY <2>4 DEF DeletePipelineScript, workerVars
  <2>5. ASSUME NEW v \in Workers, NEW status \in {"ONLINE", "OFFLINE", "DISABLED"},
               RegisterWorker(v, status)
        PROVE  v = w /\ status # "DISABLED"
    <3>1. [worker[v] EXCEPT !.status = status, !.seen = clock].status = status
      BY <2>1 DEF Worker
    <3> QED
      BY <2>1, <2>5, <3>1 DEF RegisterWorker
  <2>6. ASSUME NEW v \in Workers, NEW suspended \in BOOLEAN, SetWorkerSuspended(v, suspended)
        PROVE  FALSE
    <3>1. [worker[v] EXCEPT !.suspended = suspended].status = worker[v].status
      BY <2>1 DEF Worker
    <3> QED
      BY <2>1, <2>6, <3>1 DEF SetWorkerSuspended
  <2>7. ASSUME NEW a \in Agents, Command(a)
        PROVE  agent[a].status # "DISABLED" /\ WorkerHeartbeat(a, w)
    <3>1. ASSUME ExpireStaleWorkers(a) PROVE FALSE
      BY <2>1, <3>1 DEF ExpireStaleWorkers
    <3>2. ASSUME NEW v \in Workers, WorkerHeartbeat(a, v)
          PROVE  v = w /\ agent[a].status # "DISABLED"
      <4>1. [worker[v] EXCEPT !.status = Revived(agent[a].status), !.seen = agent[a].now].status
            = Revived(agent[a].status)
        BY <2>1 DEF Worker
      <4> QED
        BY <2>1, <3>2, <4>1 DEF WorkerHeartbeat, Revived
    <3>3. ASSUME UNCHANGED worker PROVE FALSE
      BY <3>3
    <3> QED
      BY <2>7, <3>1, <3>2, <3>3 DEF Command, ListRuns, Returns, TryRun, Begin, ReadWorker,
                                    CheckWorker, workerVars
  <2> QED
    BY <2>2, <2>3, <2>4, <2>5, <2>6, <2>7 DEF JobNext
<1> QED
  BY <1>1, JobRunsInvariant, PTL DEF JobSpec, DisabledStays
=============================================================================
