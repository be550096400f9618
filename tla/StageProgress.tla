--------------------------- MODULE StageProgress ---------------------------
(***************************************************************************)
(* One pipeline: how verdicts of jobs complete a stage, start the next     *)
(* one, lock the pipeline or trigger its downstream pipeline, while users  *)
(* trigger, rerun, pause and unlock it (lib/ex_gocd/pipelines.ex).         *)
(*                                                                         *)
(* complete_job_instance runs in the process that received the verdict: an *)
(* agent's channel, or the console activity monitor.  Triggers and reruns  *)
(* run in the process of the user's page.  Each is a sequence of database  *)
(* calls, and only the inserts of one stage and its jobs are transactions. *)
(***************************************************************************)
EXTENDS Naturals, FiniteSets

CONSTANTS
  NStages,       \* the stages, in the order of their ids
  JobName,
  JobsOf,        \* job names of each stage
  LockBehavior,  \* pipeline.lock_behavior
  Channel,       \* channel processes of the agents
  Monitor,       \* the console activity monitor, or empty if it is disabled
  User,          \* processes that trigger and rerun
  NoAgent,
  MaxCounter,    \* bound on pipeline instances
  MaxAttempt,    \* bound on the runs of one stage
  MaxOperatorCalls, \* bound on pause, unpause and unlock calls
  MaxCrashes     \* bound on handlers that die halfway

Worker == Channel \cup Monitor
StageNo == 1..NStages

\* A stage instance: pipeline counter, stage, stage counter.
Key == (1..MaxCounter) \X StageNo \X (1..MaxAttempt)

ASSUME StageAssumption ==
  /\ NStages \in Nat \ {0}
  /\ JobsOf \in [StageNo -> SUBSET JobName]
  /\ LockBehavior \in {"none", "lockOnFailure", "unlockWhenFinished"}

ASSUME ProcessAssumption ==
  /\ NoAgent \notin Worker
  /\ Channel \cap Monitor = {}

ASSUME BoundAssumption ==
  /\ MaxCounter \in Nat
  /\ MaxAttempt \in Nat \ {0}
  /\ MaxOperatorCalls \in Nat
  /\ MaxCrashes \in Nat

VARIABLES
  stage,       \* stage_instances rows
  job,         \* job_instances rows of each stage instance
  locked,      \* pipelines.locked
  paused,      \* pipelines.paused
  downstream,  \* instances of the downstream pipeline, by upstream counter
  worker,      \* progress of complete_job_instance in each process
  user,        \* progress of a trigger or a rerun
  reported,    \* history: jobs whose agent has delivered its verdict
  operatorCalls, crashes

rows == <<stage, job, locked, paused, downstream>>
bounds == <<operatorCalls, crashes>>
vars == <<rows, worker, user, reported, bounds>>

NoStage == [state |-> "None", result |-> "Unknown", latest |-> FALSE]
NoJob   == [state |-> "None", result |-> "Unknown", holder |-> NoAgent]

IdleWorker == [at |-> "idle", key |-> <<0, 0, 0>>, name |-> "", result |-> "Unknown",
               seen |-> "Unknown", verdict |-> "Unknown"]
IdleUser == [at |-> "idle", key |-> <<0, 0, 0>>, names |-> {}]

Init ==
  /\ stage = [k \in Key |-> NoStage]
  /\ job = [k \in Key |-> [n \in JobName |-> NoJob]]
  /\ locked = FALSE
  /\ paused = FALSE
  /\ downstream = [c \in 1..MaxCounter |-> 0]
  /\ worker = [w \in Worker |-> IdleWorker]
  /\ user = [u \in User |-> IdleUser]
  /\ reported = {}
  /\ operatorCalls = 0 /\ crashes = 0

-----------------------------------------------------------------------------
(* Queries                                                                 *)

Exists(k) == stage[k].state # "None"

Building(k) == stage[k].state = "Building"
Passed(k) == stage[k].state = "Completed" /\ stage[k].result = "Passed"

JobsIn(k) == {n \in JobName : job[k][n].state # "None"}

AllJobsCompleted(k) == \A n \in JobsIn(k) : job[k][n].state = "Completed"

FailedJobs(k) == {n \in JobsIn(k) : job[k][n].result \in {"Failed", "Cancelled"}}

Verdict(k) == IF FailedJobs(k) # {} THEN "Failed" ELSE "Passed"

InstanceExists(c) == \E k \in Key : k[1] = c /\ Exists(k)

\* pipeline_locked?
PipelineLocked ==
  CASE LockBehavior = "none" -> FALSE
    [] LockBehavior = "unlockWhenFinished" -> \E k \in Key : Building(k)
    [] LockBehavior = "lockOnFailure" -> locked \/ \E k \in Key : Building(k)

\* Mutant: only the newest instance is looked at.
NewestInstanceIfPassed ==
  {c \in 1..MaxCounter :
     /\ \A d \in 1..MaxCounter : InstanceExists(d) => d <= c
     /\ InstanceExists(c) /\ \A k \in Key : k[1] = c /\ Exists(k) => Passed(k)}

\* get_latest_passed_instance looks at every stage instance there is by now,
\* at earlier runs of a stage too.
PassedInstances ==
  {c \in 1..MaxCounter :
     InstanceExists(c) /\ \A k \in Key : k[1] = c /\ Exists(k) => Passed(k)}

\* Mutant: the stage starts as Scheduled.
InsertScheduledStage(k, names) ==
  /\ stage' = [stage EXCEPT ![k] =
       [state |-> "Scheduled", result |-> "Unknown", latest |-> TRUE]]
  /\ job' = [job EXCEPT ![k] = [n \in JobName |->
       IF n \in names THEN [NoJob EXCEPT !.state = "Scheduled"] ELSE NoJob]]

\* insert! of a stage instance and of its jobs, in one transaction.
InsertStage(k, names) ==
  /\ stage' = [stage EXCEPT ![k] =
       [state |-> "Building", result |-> "Unknown", latest |-> TRUE]]
  /\ job' = [job EXCEPT ![k] = [n \in JobName |->
       IF n \in names THEN [NoJob EXCEPT !.state = "Scheduled"] ELSE NoJob]]

-----------------------------------------------------------------------------
(* The scheduler and the agents, as far as this pipeline sees them         *)

AssignJob(k, n, c) ==
  /\ job[k][n].state = "Scheduled"
  /\ job' = [job EXCEPT ![k][n].state = "Assigned", ![k][n].holder = c]
  /\ UNCHANGED <<stage, locked, paused, downstream, worker, user, reported, bounds>>

\* complete_job_instance begins: it loads the job and its stage.
Load(w, k, n, result) ==
  worker' = [worker EXCEPT ![w] =
    [at |-> "loaded", key |-> k, name |-> n, result |-> result,
     seen |-> stage[k].result, verdict |-> "Unknown"]]

\* The agent's Completed report reaches its channel, once per job; the monitor
\* may have cancelled the job by then.
ReportVerdict(c, k, n) ==
  /\ worker[c].at = "idle"
  /\ job[k][n].holder = c
  /\ <<k, n>> \notin reported
  /\ reported' = reported \cup {<<k, n>>}
  /\ \E result \in {"Passed", "Failed"} : Load(c, k, n, result)
  /\ UNCHANGED <<rows, user, bounds>>

\* Mutant: the monitor misses runs of which nothing was heard.
PickReportedJob(m, k, n) ==
  /\ worker[m].at = "idle"
  /\ job[k][n].state = "Assigned" /\ <<k, n>> \in reported
  /\ worker' = [worker EXCEPT ![m] =
       [IdleWorker EXCEPT !.at = "picked", !.key = k, !.name = n]]
  /\ UNCHANGED <<rows, user, reported, bounds>>

\* The monitor found the active run of the job quiet for too long ...
PickQuietJob(m, k, n) ==
  /\ worker[m].at = "idle"
  /\ job[k][n].state = "Assigned"
  /\ worker' = [worker EXCEPT ![m] =
       [IdleWorker EXCEPT !.at = "picked", !.key = k, !.name = n]]
  /\ UNCHANGED <<rows, user, reported, bounds>>

\* ... and completes the job, whatever has happened to it since.
CancelQuietJob(m) ==
  /\ worker[m].at = "picked"
  /\ Load(m, worker[m].key, worker[m].name, "Cancelled")
  /\ UNCHANGED <<rows, user, reported, bounds>>

-----------------------------------------------------------------------------
(* complete_job_instance                                                   *)

Goto(w, place) == [worker EXCEPT ![w].at = place]
Finish(w) == [worker EXCEPT ![w] = IdleWorker]

CompleteJob(w) ==
  /\ worker[w].at = "loaded"
  /\ LET k == worker[w].key  n == worker[w].name IN
       job' = [job EXCEPT ![k][n].state = "Completed",
                          ![k][n].result = worker[w].result]
  /\ worker' = Goto(w, "written")
  /\ UNCHANGED <<stage, locked, paused, downstream, user, reported, bounds>>

\* Mutants: the stage completes only if all jobs passed; with the verdict of
\* the last job; as soon as one job is completed.
ReadPassedJobs(w) ==
  /\ worker[w].at = "written"
  /\ LET k == worker[w].key IN
       worker' = IF AllJobsCompleted(k) /\ FailedJobs(k) = {}
                 THEN [worker EXCEPT ![w].at = "decided", ![w].verdict = "Passed"]
                 ELSE Finish(w)
  /\ UNCHANGED <<rows, user, reported, bounds>>

ReadLastJob(w) ==
  /\ worker[w].at = "written"
  /\ worker' = IF AllJobsCompleted(worker[w].key)
               THEN [worker EXCEPT ![w].at = "decided", ![w].verdict = worker[w].result]
               ELSE Finish(w)
  /\ UNCHANGED <<rows, user, reported, bounds>>

ReadAnyJob(w) ==
  /\ worker[w].at = "written"
  /\ worker' = [worker EXCEPT ![w].at = "decided",
                              ![w].verdict = Verdict(worker[w].key)]
  /\ UNCHANGED <<rows, user, reported, bounds>>

\* maybe_complete_stage: all jobs of the stage are read back.
ReadJobs(w) ==
  /\ worker[w].at = "written"
  /\ LET k == worker[w].key IN
       worker' = IF AllJobsCompleted(k)
                 THEN [worker EXCEPT ![w].at = "decided", ![w].verdict = Verdict(k)]
                 ELSE Finish(w)
  /\ UNCHANGED <<rows, user, reported, bounds>>

\* The update is a changeset against the stage as it was loaded: a result that
\* equals the loaded one is not written.
CompleteStage(w) ==
  /\ worker[w].at = "decided"
  /\ LET k == worker[w].key  verdict == worker[w].verdict IN
       /\ stage' = [stage EXCEPT ![k].state = "Completed",
            ![k].result = IF verdict = worker[w].seen THEN @ ELSE verdict]
       /\ worker' =
            CASE verdict = "Passed" /\ k[2] < NStages -> Goto(w, "next")
              [] verdict = "Passed" /\ k[2] = NStages -> Goto(w, "downstream")
              [] verdict = "Failed" ->
                   IF LockBehavior = "lockOnFailure" THEN Goto(w, "lock") ELSE Finish(w)
  /\ UNCHANGED <<job, locked, paused, downstream, user, reported, bounds>>

NextKey(k) == <<k[1], k[2] + 1, 1>>

\* trigger_next_stage inserts run 1 of the next stage, whatever run this was
\* and whatever the approval type of the next stage is.
TriggerNextStage(w) ==
  /\ worker[w].at = "next"
  /\ LET next == NextKey(worker[w].key) IN
       /\ ~ Exists(next)
       /\ InsertStage(next, JobsOf[next[2]])
  /\ worker' = Finish(w)
  /\ UNCHANGED <<locked, paused, downstream, user, reported, bounds>>

\* If that run exists, insert! raises and the handler dies.
NextStageExists(w) ==
  /\ worker[w].at = "next"
  /\ Exists(NextKey(worker[w].key))
  /\ worker' = Finish(w)
  /\ UNCHANGED <<rows, user, reported, bounds>>

\* Mutant: the changeset is built and never saved.
ForgetLock(w) ==
  /\ worker[w].at = "lock"
  /\ worker' = Finish(w)
  /\ UNCHANGED <<rows, user, reported, bounds>>

LockPipeline(w) ==
  /\ worker[w].at = "lock"
  /\ locked' = TRUE
  /\ worker' = Finish(w)
  /\ UNCHANGED <<stage, job, paused, downstream, user, reported, bounds>>

\* The downstream pipeline is built from the latest passed instance, or not at
\* all if there is none.
TriggerDownstreams(w) ==
  /\ worker[w].at = "downstream"
  /\ \/ /\ PassedInstances = {}
        /\ UNCHANGED downstream
     \/ \E c \in PassedInstances :
          /\ \A d \in PassedInstances : d <= c
          /\ downstream' = [downstream EXCEPT ![c] = @ + 1]
  /\ worker' = Finish(w)
  /\ UNCHANGED <<stage, job, locked, paused, user, reported, bounds>>

\* A database call raises, and the process dies in the middle of its handler.
Crash(w) ==
  /\ crashes < MaxCrashes
  /\ worker[w].at # "idle"
  /\ crashes' = crashes + 1
  /\ worker' = Finish(w)
  /\ UNCHANGED <<rows, user, reported, operatorCalls>>

-----------------------------------------------------------------------------
(* trigger_pipeline                                                        *)

CheckTrigger(u) ==
  /\ user[u].at = "idle"
  /\ \E c \in 1..MaxCounter : ~ InstanceExists(c)
  /\ ~ paused /\ ~ PipelineLocked
  /\ user' = [user EXCEPT ![u].at = "checked"]
  /\ UNCHANGED <<rows, worker, reported, bounds>>

\* next_counter: one more than the largest there is.
ReadCounter(u) ==
  /\ user[u].at = "checked"
  /\ \E c \in 1..MaxCounter :
       /\ \A d \in 1..MaxCounter : InstanceExists(d) <=> d < c
       /\ user' = [user EXCEPT ![u].at = "insert", ![u].key = <<c, 1, 1>>,
                               ![u].names = JobsOf[1]]
  /\ UNCHANGED <<rows, worker, reported, bounds>>

-----------------------------------------------------------------------------
(* rerun_stage                                                             *)

Runs(c, s) == {k \in Key : k[1] = c /\ k[2] = s /\ Exists(k)}

\* The one run with the largest counter, if there is any run.
LatestRun(c, s) == {k \in Runs(c, s) : \A m \in Runs(c, s) : m[3] <= k[3]}

\* All jobs, those of the latest run that did not pass, or any list of names,
\* which covers the other two.
Selections(k) == SUBSET JobsOf[k[2]] \ {{}}

ReadLatestRun(u, c, s) ==
  /\ user[u].at = "idle"
  /\ \E k \in LatestRun(c, s) :
       /\ k[3] < MaxAttempt
       /\ \E names \in Selections(k) :
            user' = [user EXCEPT ![u] =
              [at |-> "mark", key |-> <<c, s, k[3] + 1>>, names |-> names]]
  /\ UNCHANGED <<rows, worker, reported, bounds>>

\* Mutant: earlier runs are not reset.
MarkNothing(u) ==
  /\ user[u].at = "mark"
  /\ user' = [user EXCEPT ![u].at = "insert"]
  /\ UNCHANGED <<rows, worker, reported, bounds>>

MarkNotLatest(u) ==
  /\ user[u].at = "mark"
  /\ stage' = [k \in Key |->
       IF k[1] = user[u].key[1] /\ k[2] = user[u].key[2]
       THEN [stage[k] EXCEPT !.latest = FALSE] ELSE stage[k]]
  /\ user' = [user EXCEPT ![u].at = "insert"]
  /\ UNCHANGED <<job, locked, paused, downstream, worker, reported, bounds>>

\* The transaction at the end of a trigger or a rerun; its insert! raises if
\* somebody else inserted the same counter.
InsertRun(u) ==
  /\ user[u].at = "insert"
  /\ IF Exists(user[u].key)
     THEN UNCHANGED <<stage, job>>
     ELSE InsertStage(user[u].key, user[u].names)
  /\ user' = [user EXCEPT ![u] = IdleUser]
  /\ UNCHANGED <<locked, paused, downstream, worker, reported, bounds>>

-----------------------------------------------------------------------------
(* pause_pipeline, unpause_pipeline, unlock_pipeline                       *)

OperatorCall ==
  /\ operatorCalls < MaxOperatorCalls
  /\ operatorCalls' = operatorCalls + 1
  /\ UNCHANGED <<stage, job, downstream, worker, user, reported, crashes>>

SetPaused ==
  /\ OperatorCall
  /\ paused' \in BOOLEAN
  /\ UNCHANGED locked

Unlock ==
  /\ OperatorCall
  /\ locked' = FALSE
  /\ UNCHANGED paused

-----------------------------------------------------------------------------
WorkerStep(w) ==
  \/ CompleteJob(w) \/ ReadJobs(w) \/ CompleteStage(w)
  \/ TriggerNextStage(w) \/ NextStageExists(w)
  \/ LockPipeline(w) \/ TriggerDownstreams(w)

UserStep(u) ==
  \/ CheckTrigger(u) \/ ReadCounter(u) \/ MarkNotLatest(u) \/ InsertRun(u)
  \/ \E c \in 1..MaxCounter, s \in StageNo : ReadLatestRun(u, c, s)

Next ==
  \/ \E k \in Key, n \in JobName, c \in Channel :
       AssignJob(k, n, c) \/ ReportVerdict(c, k, n)
  \/ \E k \in Key, n \in JobName, m \in Monitor : PickQuietJob(m, k, n)
  \/ \E m \in Monitor : CancelQuietJob(m)
  \/ \E w \in Worker : WorkerStep(w) \/ Crash(w)
  \/ \E u \in User : UserStep(u)
  \/ SetPaused \/ Unlock

Spec == Init /\ [][Next]_vars

-----------------------------------------------------------------------------
(* Safety                                                                  *)

Result == {"Unknown", "Passed", "Failed", "Cancelled"}

\* Every variable holds a value the rows and the processes can have.
TypeOK ==
  /\ stage \in [Key -> [state: {"None", "Building", "Completed"},
                        result: {"Unknown", "Passed", "Failed"}, latest: BOOLEAN]]
  /\ job \in [Key -> [JobName ->
       [state: {"None", "Scheduled", "Assigned", "Completed"},
        result: Result, holder: Worker \cup {NoAgent}]]]
  /\ locked \in BOOLEAN /\ paused \in BOOLEAN
  /\ downstream \in [1..MaxCounter -> Nat]
  /\ worker \in [Worker ->
       [at: {"idle", "picked", "loaded", "written", "decided", "next", "lock",
             "downstream"},
        key: Key \cup {<<0, 0, 0>>}, name: JobName \cup {""},
        result: Result, seen: Result, verdict: Result]]
  /\ user \in [User -> [at: {"idle", "checked", "mark", "insert"},
                        key: Key \cup {<<0, 0, 0>>}, names: SUBSET JobName]]
  /\ reported \subseteq Key \X JobName
  /\ operatorCalls \in 0..MaxOperatorCalls
  /\ crashes \in 0..MaxCrashes

At(w, places) == worker[w].at \in places

(***************************************************************************)
(* No completion is lost: when the last jobs of a stage complete at the    *)
(* same time in several processes, one of them has yet to complete the     *)
(* stage, or it is complete.                                               *)
(***************************************************************************)
NoLostCompletion ==
  crashes = 0 =>
    \A k \in Key :
      Building(k) /\ JobsIn(k) # {} /\ AllJobsCompleted(k) =>
        \E w \in Worker : worker[w].key = k /\ At(w, {"written", "decided"})

(***************************************************************************)
(* "Fails if any job fails": once nobody is working on a completed stage,  *)
(* it is Failed if and only if one of its jobs failed or was cancelled.    *)
(* True as long as only agents deliver verdicts; not with the monitor.     *)
(***************************************************************************)
VerdictMatchesJobs ==
  crashes = 0 =>
    \A k \in Key :
      /\ stage[k].state = "Completed"
      /\ \A w \in Worker : worker[w].key = k => ~ At(w, {"written", "decided"})
      => stage[k].result = Verdict(k)

(***************************************************************************)
(* What follows from a completed stage is not forgotten: after a pass the  *)
(* next stage was started, after a failure the pipeline was locked.        *)
(***************************************************************************)
CompletionIsFollowedUp ==
  crashes = 0 =>
    \A k \in Key :
      /\ stage[k].state = "Completed"
      /\ \A w \in Worker : worker[w].key = k => ~ At(w, {"decided", "next", "lock"})
      => /\ Passed(k) /\ k[2] < NStages => Exists(NextKey(k))
         /\ /\ ~ Passed(k) /\ LockBehavior = "lockOnFailure" /\ operatorCalls = 0
            => locked

(***************************************************************************)
(* "Stages run in order": a stage runs only if a run of the stage before   *)
(* it passed, and its jobs are all done.                                   *)
(***************************************************************************)
StagesRunInOrder ==
  \A k \in Key : Exists(k) /\ k[2] > 1 =>
    \E m \in 1..MaxAttempt :
      LET before == <<k[1], k[2] - 1, m>> IN Passed(before) /\ AllJobsCompleted(before)

(***************************************************************************)
(* However reruns of a stage overlap, at most one of its runs is marked as *)
(* the latest.                                                             *)
(***************************************************************************)
AtMostOneLatest ==
  \A k, m \in Key : k[1] = m[1] /\ k[2] = m[2] /\ stage[k].latest /\ stage[m].latest
                      => k = m

(***************************************************************************)
(* A pipeline with a lock does not run two instances at a time, which is   *)
(* what the concurrency locks of trigger_pipeline are for.  It does: the   *)
(* check and the insert are apart, and no stage is Building between the    *)
(* completion of one stage and the insert of the next.                     *)
(***************************************************************************)
OneInstanceAtATime ==
  LockBehavior # "none" =>
    \A k, m \in Key : Building(k) /\ Building(m) => k[1] = m[1]

(***************************************************************************)
(* An instance whose stages have all passed has reached the downstream     *)
(* pipeline, at this counter or a later one, although the stages of other  *)
(* instances come and go meanwhile.  (After a rerun of a failed stage it   *)
(* never does: get_latest_passed_instance still sees the failed run.)      *)
(***************************************************************************)
Rerun(c) == \E k \in Key : k[1] = c /\ k[3] > 1 /\ Exists(k)

PassReachesDownstream ==
  crashes = 0 /\ (\A w \in Worker : At(w, {"idle"})) =>
    \A c \in 1..MaxCounter : (\A s \in StageNo : Passed(<<c, s, 1>>)) /\ ~ Rerun(c) =>
      \E d \in c..MaxCounter : downstream[d] > 0

-----------------------------------------------------------------------------
(* Liveness.  Agents take the jobs, handlers run to their end, and the     *)
(* monitor finds every job whose agent does not answer.                    *)

Fairness ==
  /\ \A k \in Key, n \in JobName :
       /\ WF_vars(\E c \in Channel : AssignJob(k, n, c))
       /\ SF_vars(\E m \in Monitor : PickQuietJob(m, k, n))
  /\ \A m \in Monitor : WF_vars(CancelQuietJob(m))
  /\ \A w \in Worker : WF_vars(WorkerStep(w))

FairSpec == Spec /\ Fairness

(***************************************************************************)
(* A stage with jobs completes, although agents may never report.          *)
(***************************************************************************)
StageEnds ==
  \A k \in Key : Building(k) /\ JobsIn(k) # {} ~> stage[k].state = "Completed"
=============================================================================
