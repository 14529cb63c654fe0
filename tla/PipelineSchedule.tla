--------------------------- MODULE PipelineSchedule ---------------------------
(***************************************************************************)
(* Cron schedules of pipeline jobs: due_scheduled_runs in                  *)
(* src-tauri/src/pipelines.rs, called by the server's ticker, by the CGI   *)
(* tick and by an administrator's button, and the commands that trigger a  *)
(* job by hand, which move the same watermark.                             *)
(*                                                                         *)
(* Of job_runs this module keeps what the schedule reads: the newest       *)
(* triggered_at of each job and the unique index on (job, fired_minute).   *)
(* What a run does once it is inserted is left out.  An atomic action is   *)
(* one statement or one reading of the clock.                              *)
(***************************************************************************)
EXTENDS Naturals

CONSTANTS
    Jobs,      \* jobs with a Schedule trigger
    Callers,   \* requests and ticker threads
    Tickers,   \* those of them that may run due_scheduled_runs
    Server,    \* the server's ticker thread
    None,      \* SQL NULL
    Minute,    \* clock units in a minute
    Fires,     \* the instants at which the cron expressions fire
    Skew,      \* how far the clock of a caller is ahead of the server's
    Horizon,   \* bound on the clock
    MaxFaults  \* bound on calls cut short

ASSUME TickersAssumption == Tickers \subseteq Callers /\ Server \in Tickers
ASSUME NoneAssumption == None \notin Nat \cup Jobs
ASSUME TimeAssumption == Minute \in Nat \ {0} /\ Skew \in Nat /\ Horizon \in Nat /\ MaxFaults \in Nat
ASSUME FiresAssumption == Fires \subseteq {f \in Nat : f % Minute = 0}

VARIABLES
    now,       \* the server's clock
    last,      \* MAX(triggered_at) of the runs of each job
    reserved,  \* the index job_runs_scheduled_once
    call,      \* the call each caller is in
    starts,    \* history: runs started for each job and fire
    faults     \* faults so far

vars == <<now, last, reserved, call, starts, faults>>

-----------------------------------------------------------------------------
(* now: the argument; todo: jobs whose watermark is not yet read; due: runs *)
(* still to insert, a fire or NULL each; at: now_secs() of the next one.    *)
Call == [pc   : {"idle", "read", "spawn", "insert"},
         now  : Nat,
         todo : SUBSET Jobs,
         due  : SUBSET (Jobs \X (Fires \cup {None})),
         at   : Nat]

Idle == [pc |-> "idle", now |-> 0, todo |-> {}, due |-> {}, at |-> 0]

TypeOK ==
    /\ now \in Nat
    /\ last \in [Jobs -> Nat \cup {None}]
    /\ reserved \subseteq Jobs \X Nat
    /\ call \in [Callers -> Call]
    /\ starts \in [Jobs \X Fires -> Nat]
    /\ faults \in Nat

Init ==
    /\ now = 0
    /\ last = [j \in Jobs |-> None]
    /\ reserved = {}
    /\ call = [c \in Callers |-> Idle]
    /\ starts = [e \in Jobs \X Fires |-> 0]
    /\ faults = 0

-----------------------------------------------------------------------------
(* Faulty variants of the definitions below; each breaks a property.        *)

Mut_KeyOfNow(c, f)  == (call[c].now \div Minute) * Minute
Mut_Early(l, n)     == {f \in Fires : f <= n + Minute /\ IF l = None THEN TRUE ELSE f > l}
Mut_ThisMinute(l, n) ==
    {f \in Fires : f <= n /\ f + Minute > n /\ IF l = None THEN TRUE ELSE f > l}

-----------------------------------------------------------------------------
(* due_scheduled_runs: the fires in (since, n], where since is the watermark *)
(* l as it was read, or one minute back                                     *)
Elapsed(l, n) ==
    {f \in Fires : f <= n /\ IF l = None THEN f + Minute > n ELSE f > l}

(* schedule_fire_at: the earliest of them                                   *)
Earliest(S) == {f \in S : \A g \in S : f <= g}

(* fire_at.div_euclid(60) * 60 *)
Key(c, f) == (f \div Minute) * Minute

(* INSERT OR IGNORE meets the unique index *)
Taken(j, m) == <<j, m>> \in reserved

-----------------------------------------------------------------------------
Tick ==
    /\ now < Horizon
    /\ now' = now + 1
    /\ UNCHANGED <<last, reserved, call, starts, faults>>

(* The ticker passes the server's clock, a request whatever clock it has.   *)
DueScheduledRuns(c, n) ==
    /\ c \in Tickers /\ call[c].pc = "idle"
    /\ IF c = Server THEN n = now ELSE n <= now + Skew
    /\ call' = [call EXCEPT ![c] = [Idle EXCEPT !.pc = "read", !.now = n, !.todo = Jobs]]
    /\ UNCHANGED <<now, last, reserved, starts, faults>>

(* SELECT MAX(triggered_at), one job after the other; a job whose SELECT    *)
(* fails is taken for one that never ran.                                   *)
ReadLast(c, j) == \E l \in {last[j], None} :
    /\ call[c].pc = "read" /\ j \in call[c].todo
    /\ IF l = last[j] THEN UNCHANGED faults ELSE faults < MaxFaults /\ faults' = faults + 1
    /\ call' = [call EXCEPT ![c] = [@ EXCEPT
                  !.pc   = IF call[c].todo = {j} THEN "spawn" ELSE "read",
                  !.todo = call[c].todo \ {j},
                  !.due  = call[c].due \cup ({j} \X Earliest(Elapsed(l, call[c].now)))]]
    /\ UNCHANGED <<now, last, reserved, starts>>

(* trigger_pipeline_script, _event and _on_push: runs with no fired_minute  *)
Trigger(c, J) ==
    /\ c # Server /\ call[c].pc = "idle"
    /\ call' = [call EXCEPT ![c] = [Idle EXCEPT !.pc = "spawn", !.due = J \X {None}]]
    /\ UNCHANGED <<now, last, reserved, starts, faults>>

(* spawn_script_jobs takes the clock ... *)
Stamp(c) ==
    /\ call[c].pc = "spawn" /\ call[c].due # {}
    /\ call' = [call EXCEPT ![c] = [@ EXCEPT !.pc = "insert", !.at = now]]
    /\ UNCHANGED <<now, last, reserved, starts, faults>>

(* ... and inserts the run, once the database is free.                      *)
Insert(c, j, f) ==
    /\ call[c].pc = "insert" /\ <<j, f>> \in call[c].due
    /\ call' = [call EXCEPT ![c] = [@ EXCEPT !.pc = "spawn", !.due = call[c].due \ {<<j, f>>}]]
    /\ IF f # None /\ Taken(j, Key(c, f))
       THEN UNCHANGED <<last, reserved, starts>>
       ELSE /\ last' = IF last[j] = None \/ last[j] < call[c].at
                       THEN [last EXCEPT ![j] = call[c].at] ELSE last
            /\ reserved' = IF f = None THEN reserved ELSE reserved \cup {<<j, Key(c, f)>>}
            /\ starts' = IF f = None THEN starts
                         ELSE [starts EXCEPT ![<<j, f>>] = starts[<<j, f>>] + 1]
    /\ UNCHANGED <<now, faults>>

Return(c) ==
    /\ call[c].pc = "spawn" /\ call[c].due = {}
    /\ call' = [call EXCEPT ![c] = Idle]
    /\ UNCHANGED <<now, last, reserved, starts, faults>>

(* The process dies or a statement fails: the rest of the call is lost.     *)
Stops(c) ==
    /\ call[c].pc # "idle" /\ faults < MaxFaults
    /\ call' = [call EXCEPT ![c] = Idle]
    /\ faults' = faults + 1
    /\ UNCHANGED <<now, last, reserved, starts>>

Step(c) ==
    \/ \E j \in Jobs : ReadLast(c, j)
    \/ Stamp(c)
    \/ \E j \in Jobs, f \in Fires \cup {None} : Insert(c, j, f)
    \/ Return(c)

Next ==
    \/ Tick
    \/ \E c \in Callers :
         \/ \E n \in 0 .. Horizon + Skew : DueScheduledRuns(c, n)
         \/ \E J \in SUBSET Jobs \ {{}} : Trigger(c, J)
         \/ Step(c) \/ Stops(c)

Spec == Init /\ [][Next]_vars

(* The server's ticker calls for ever with the server's clock, and a thread *)
(* that works keeps working; time passes.  Nobody has to press a button.    *)
Fairness ==
    /\ WF_vars(Tick)
    /\ WF_vars(DueScheduledRuns(Server, now))
    /\ \A c \in Callers : WF_vars(Step(c))

FairSpec == Spec /\ Fairness

-----------------------------------------------------------------------------
(* Two ticks, whatever minutes they name and however they interleave, start *)
(* one run of a job for one cron fire.                                      *)
OncePerFire == \A e \in Jobs \X Fires : starts[e] <= 1

(* The watermark of a job is past every fire it was started for: a later    *)
(* tick looks beyond that fire.  A fire reserved ahead of the watermark is  *)
(* found again by every tick, ignored, and hides all later fires.           *)
WatermarkCovers == \A e \in reserved : last[e[1]] # None /\ e[2] <= last[e[1]]

(* A job that has run before is not passed over: when a fire has elapsed,   *)
(* some later run follows it, whatever tick was missed, cut short or late.  *)
CatchesUp ==
    \A j \in Jobs, f \in Fires :
        (last[j] # None /\ now >= f) ~> (last[j] # None /\ last[j] >= f)
=============================================================================
