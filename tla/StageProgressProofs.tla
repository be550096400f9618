------------------------- MODULE StageProgressProofs -------------------------
(***************************************************************************)
(* Proofs about StageProgress, for every number of stages, jobs, agents,   *)
(* users and every bound.                                                  *)
(*                                                                         *)
(* Whatever the console activity monitor does:                             *)
(*   - StagesTypeCorrect: every state is well typed;                       *)
(*   - CompletionsNotLost: some process completes a stage whose jobs are   *)
(*     done;                                                               *)
(*   - OneLatestRun: overlapping reruns leave at most one latest run;      *)
(*   - CompletionsFollowedUp: a completed stage has started the next one   *)
(*     or has locked the pipeline.                                         *)
(* As long as only agents deliver verdicts (Monitor = {}):                 *)
(*   - StagesInOrder, VerdictsMatchJobs, PassesReachDownstream.            *)
(***************************************************************************)
EXTENDS StageProgress, TLAPS

-----------------------------------------------------------------------------
(* What each process knows in the middle of its handler.                   *)

WorkerFacts ==
  \A w \in Worker :
    /\ worker[w].at # "idle" => worker[w].key \in Key /\ worker[w].name \in JobName
    /\ At(w, {"decided", "next", "lock", "downstream"}) =>
         worker[w].verdict \in {"Passed", "Failed"}
    /\ worker[w].at = "next" => worker[w].key[2] < NStages

UserFacts ==
  \A u \in User : user[u].at \in {"mark", "insert"} => user[u].key \in Key

TypeInv == TypeOK /\ WorkerFacts /\ UserFacts

\* The types of one row, of one handler and of one page process.
StageRow == [state: {"None", "Building", "Completed"},
             result: {"Unknown", "Passed", "Failed"}, latest: BOOLEAN]

JobRow == [state: {"None", "Scheduled", "Assigned", "Completed"},
           result: Result, holder: Worker \cup {NoAgent}]

WorkerState ==
  [at: {"idle", "picked", "loaded", "written", "decided", "next", "lock",
        "downstream"},
   key: Key \cup {<<0, 0, 0>>}, name: JobName \cup {""},
   result: Result, seen: Result, verdict: Result]

UserState == [at: {"idle", "checked", "mark", "insert"},
              key: Key \cup {<<0, 0, 0>>}, names: SUBSET JobName]

LEMMA Types ==
  TypeOK <=>
    /\ stage \in [Key -> StageRow]
    /\ job \in [Key -> [JobName -> JobRow]]
    /\ locked \in BOOLEAN /\ paused \in BOOLEAN
    /\ downstream \in [1..MaxCounter -> Nat]
    /\ worker \in [Worker -> WorkerState]
    /\ user \in [User -> UserState]
    /\ reported \subseteq Key \X JobName
    /\ operatorCalls \in 0..MaxOperatorCalls
    /\ crashes \in 0..MaxCrashes
BY DEF TypeOK, StageRow, JobRow, WorkerState, UserState

LEMMA TypesAfter ==
  ASSUME stage' \in [Key -> StageRow],
         job' \in [Key -> [JobName -> JobRow]],
         locked' \in BOOLEAN, paused' \in BOOLEAN,
         downstream' \in [1..MaxCounter -> Nat],
         worker' \in [Worker -> WorkerState],
         user' \in [User -> UserState],
         reported' \subseteq Key \X JobName,
         operatorCalls' \in 0..MaxOperatorCalls,
         crashes' \in 0..MaxCrashes
  PROVE  TypeOK'
BY DEF TypeOK, StageRow, JobRow, WorkerState, UserState

-----------------------------------------------------------------------------
(* Jobs and handlers belong to stage instances that exist.                 *)

JobsBelongToStages ==
  \A k \in Key, n \in JobName :
    job[k][n].state # "None" \/ job[k][n].holder # NoAgent => Exists(k)

WorkersBelongToStages ==
  \A w \in Worker : worker[w].at # "idle" => Exists(worker[w].key)

WorkInv == JobsBelongToStages /\ WorkersBelongToStages

-----------------------------------------------------------------------------
(* Runs of a stage are numbered without gaps, and a user who is about to   *)
(* insert one knows that the one before it exists.                         *)

RunsWithoutGaps ==
  \A k, m \in Key :
    k[1] = m[1] /\ k[2] = m[2] /\ m[3] <= k[3] /\ Exists(k) => Exists(m)

RunBeforeExists ==
  \A u \in User : user[u].at \in {"mark", "insert"} =>
    LET k == user[u].key IN
      \/ k[3] = 1 /\ k[2] = 1 /\ user[u].at = "insert"
      \/ k[3] > 1 /\ Exists(<<k[1], k[2], k[3] - 1>>)

LatestExists == \A k \in Key : stage[k].latest => Exists(k)

\* Whoever is about to insert the next run has reset the ones before it.
ResetBeforeInsert ==
  \A u \in User, k \in Key :
    /\ user[u].at = "insert" /\ ~ Exists(user[u].key)
    /\ k[1] = user[u].key[1] /\ k[2] = user[u].key[2]
    => ~ stage[k].latest

LatestInv ==
  /\ RunsWithoutGaps
  /\ RunBeforeExists
  /\ LatestExists
  /\ ResetBeforeInsert
  /\ AtMostOneLatest

-----------------------------------------------------------------------------
(* A completion is followed up by the process that wrote the result the    *)
(* stage has now.                                                          *)

UndecidedUntilCompleted ==
  \A k \in Key : stage[k].state # "Completed" => stage[k].result = "Unknown"

SeenWhenCompleted ==
  \A w \in Worker : worker[w].at \notin {"idle", "picked"} =>
    worker[w].seen = "Unknown" \/ stage[worker[w].key].state = "Completed"

PassStartsNext ==
  \A k \in Key : Passed(k) /\ k[2] < NStages =>
    Exists(NextKey(k)) \/ \E w \in Worker : worker[w].key = k /\ At(w, {"next"})

FailureLocks ==
  LockBehavior = "lockOnFailure" /\ operatorCalls = 0 =>
    \A k \in Key : stage[k].state = "Completed" /\ ~ Passed(k) =>
      locked \/ \E w \in Worker : worker[w].key = k /\ At(w, {"lock"})

FollowUpInv ==
  /\ UndecidedUntilCompleted
  /\ SeenWhenCompleted
  /\ crashes = 0 => PassStartsNext /\ FailureLocks

-----------------------------------------------------------------------------
(* Without the monitor every job has one verdict, which the agent that     *)
(* holds it reports once.                                                  *)

HeldUntilReported ==
  \A k \in Key, n \in JobName :
    /\ job[k][n].holder # NoAgent => job[k][n].state \in {"Assigned", "Completed"}
    /\ job[k][n].state = "Completed" => <<k, n>> \in reported

OneReporter ==
  \A w \in Worker : worker[w].at = "loaded" =>
    /\ <<worker[w].key, worker[w].name>> \in reported
    /\ job[worker[w].key][worker[w].name].state = "Assigned"
    /\ worker[w].result \in {"Passed", "Failed"}
    /\ \A v \in Worker : /\ worker[v].at = "loaded"
                         /\ worker[v].key = worker[w].key
                         /\ worker[v].name = worker[w].name
                         => v = w

VerdictInv ==
  \A k \in Key : stage[k].state = "Completed" =>
    AllJobsCompleted(k) /\ stage[k].result = Verdict(k)

DecidersAgree ==
  \A w \in Worker :
    /\ worker[w].at # "picked"
    /\ worker[w].at # "idle" => worker[w].seen = "Unknown"
    /\ \A k \in Key : worker[w].key = k =>
         /\ At(w, {"decided", "next", "lock", "downstream"}) =>
              AllJobsCompleted(k) /\ worker[w].verdict = Verdict(k)
         /\ At(w, {"next", "downstream"}) => Passed(k)

OrderInv ==
  /\ HeldUntilReported
  /\ OneReporter
  /\ VerdictInv
  /\ DecidersAgree
  /\ StagesRunInOrder

\* The process that completed the last stage has yet to trigger, or it has.
PassTriggersDownstream ==
  crashes = 0 =>
    \A c \in 1..MaxCounter : (\A s \in StageNo : Passed(<<c, s, 1>>)) /\ ~ Rerun(c) =>
      \/ \E d \in c..MaxCounter : downstream[d] > 0
      \/ \E w \in Worker : At(w, {"downstream"}) /\ worker[w].key[1] = c


-----------------------------------------------------------------------------
(* Keys, and what the steps of a handler change.                           *)

LEMMA KeyFacts ==
  /\ \A c, s, n : <<c, s, n>> \in Key <=>
       c \in 1..MaxCounter /\ s \in StageNo /\ n \in 1..MaxAttempt
  /\ \A k \in Key : /\ k[1] \in 1..MaxCounter /\ k[1] \in Nat
                    /\ k[2] \in 1..NStages /\ k[2] \in Nat
                    /\ k[3] \in 1..MaxAttempt /\ k[3] \in Nat
                    /\ k = <<k[1], k[2], k[3]>>
  /\ <<0, 0, 0>> \notin Key
BY BoundAssumption, StageAssumption DEF Key, StageNo

LEMMA NextKeyFacts ==
  ASSUME NEW k \in Key, k[2] < NStages
  PROVE  /\ NextKey(k) \in Key
         /\ NextKey(k)[1] = k[1] /\ NextKey(k)[2] = k[2] + 1 /\ NextKey(k)[3] = 1
BY KeyFacts, BoundAssumption, StageAssumption DEF NextKey, StageNo

LEMMA RunBeforeFacts ==
  ASSUME NEW k \in Key, k[3] > 1, NEW p, p = <<k[1], k[2], k[3] - 1>>
  PROVE  p \in Key /\ p[1] = k[1] /\ p[2] = k[2] /\ p[3] = k[3] - 1
<1>1. k[3] - 1 \in 1..MaxAttempt
  BY KeyFacts, BoundAssumption
<1> QED BY <1>1, KeyFacts DEF StageNo

LEMMA WorkerMoves ==
  ASSUME TypeOK, NEW w \in Worker, NEW place, worker' = Goto(w, place)
  PROVE  /\ worker'[w].at = place
         /\ worker'[w].key = worker[w].key
         /\ worker'[w].name = worker[w].name
         /\ worker'[w].result = worker[w].result
         /\ worker'[w].seen = worker[w].seen
         /\ worker'[w].verdict = worker[w].verdict
         /\ \A v \in Worker \ {w} : worker'[v] = worker[v]
BY Types DEF WorkerState, Goto

LEMMA WorkerEnds ==
  ASSUME TypeOK, NEW w \in Worker, worker' = Finish(w)
  PROVE  /\ worker'[w].at = "idle"
         /\ \A v \in Worker \ {w} : worker'[v] = worker[v]
BY Types DEF Finish, IdleWorker

LEMMA WorkerLoads ==
  ASSUME TypeOK, NEW w \in Worker, NEW k, NEW n, NEW result, Load(w, k, n, result)
  PROVE  /\ worker'[w].at = "loaded"
         /\ worker'[w].key = k
         /\ worker'[w].name = n
         /\ worker'[w].result = result
         /\ worker'[w].seen = stage[k].result
         /\ \A v \in Worker \ {w} : worker'[v] = worker[v]
BY Types DEF Load

LEMMA WorkerPicks ==
  ASSUME TypeOK, NEW m \in Monitor, NEW k, NEW n, PickQuietJob(m, k, n)
  PROVE  /\ worker'[m].at = "picked"
         /\ worker'[m].key = k
         /\ \A v \in Worker \ {m} : worker'[v] = worker[v]
BY Types DEF PickQuietJob, IdleWorker, Worker

LEMMA WorkerReads ==
  ASSUME TypeOK, NEW w \in Worker, ReadJobs(w), NEW k, k = worker[w].key
  PROVE  /\ AllJobsCompleted(k) =>
              /\ worker'[w].at = "decided"
              /\ worker'[w].key = k
              /\ worker'[w].seen = worker[w].seen
              /\ worker'[w].verdict = Verdict(k)
         /\ ~ AllJobsCompleted(k) => worker'[w].at = "idle"
         /\ \A v \in Worker \ {w} : worker'[v] = worker[v]
<1>1. CASE AllJobsCompleted(k)
  <2>1. worker' = [worker EXCEPT ![w].at = "decided", ![w].verdict = Verdict(k)]
    BY <1>1 DEF ReadJobs
  <2> QED BY <1>1, <2>1, Types DEF WorkerState
<1>2. CASE ~ AllJobsCompleted(k)
  BY <1>2, WorkerEnds DEF ReadJobs
<1> QED BY <1>1, <1>2

\* One job row changes.
LEMMA JobRowChanges ==
  ASSUME TypeOK, NEW k \in Key, NEW n \in JobName, NEW row \in JobRow,
         job' = [job EXCEPT ![k] = [job[k] EXCEPT ![n] = row]]
  PROVE  /\ job' \in [Key -> [JobName -> JobRow]]
         /\ job'[k][n] = row
         /\ \A i \in JobName \ {n} : job'[k][i] = job[k][i]
         /\ \A m \in Key \ {k} : job'[m] = job[m]
<1> DEFINE jobs == [job[k] EXCEPT ![n] = row]
<1>1. job \in [Key -> [JobName -> JobRow]]
  BY Types
<1>2. /\ jobs \in [JobName -> JobRow]
      /\ jobs[n] = row
      /\ \A i \in JobName \ {n} : jobs[i] = job[k][i]
  BY <1>1
<1>3. job' = [job EXCEPT ![k] = jobs]
  OBVIOUS
<1> HIDE DEF jobs
<1>4. job' \in [Key -> [JobName -> JobRow]] /\ job'[k] = jobs
      /\ \A m \in Key \ {k} : job'[m] = job[m]
  BY <1>1, <1>2, <1>3
<1> QED BY <1>2, <1>4

LEMMA AssignEffect ==
  ASSUME TypeOK, NEW k \in Key, NEW n \in JobName, NEW c \in Channel, AssignJob(k, n, c)
  PROVE  /\ job' \in [Key -> [JobName -> JobRow]]
         /\ job'[k][n].state = "Assigned" /\ job'[k][n].holder = c
         /\ \A i \in JobName \ {n} : job'[k][i] = job[k][i]
         /\ \A m \in Key \ {k} : job'[m] = job[m]
<1> DEFINE row == [job[k][n] EXCEPT !.state = "Assigned", !.holder = c]
<1>1. job[k][n] \in JobRow /\ c \in Worker
  BY Types DEF Worker
<1>2. row \in JobRow /\ row.state = "Assigned" /\ row.holder = c
  BY <1>1 DEF JobRow
<1>3. job' = [job EXCEPT ![k] = [job[k] EXCEPT ![n] = row]]
  BY DEF AssignJob
<1> HIDE DEF row
<1> QED BY <1>2, <1>3, JobRowChanges

LEMMA CompleteJobEffect ==
  ASSUME TypeInv, NEW w \in Worker, CompleteJob(w),
         NEW k, k = worker[w].key, NEW n, n = worker[w].name
  PROVE  /\ k \in Key /\ n \in JobName
         /\ job' \in [Key -> [JobName -> JobRow]]
         /\ job'[k][n].state = "Completed"
         /\ job'[k][n].holder = job[k][n].holder
         /\ job'[k][n].result = worker[w].result
         /\ \A i \in JobName \ {n} : job'[k][i] = job[k][i]
         /\ \A m \in Key \ {k} : job'[m] = job[m]
<1> DEFINE row == [job[k][n] EXCEPT !.state = "Completed", !.result = worker[w].result]
<1>1. k \in Key /\ n \in JobName
  BY DEF CompleteJob, TypeInv, WorkerFacts
<1>2. job[k][n] \in JobRow /\ worker[w].result \in Result
  BY <1>1, Types DEF TypeInv, WorkerState
<1>3. /\ row \in JobRow /\ row.state = "Completed"
      /\ row.holder = job[k][n].holder /\ row.result = worker[w].result
  BY <1>2 DEF JobRow
<1>4. job' = [job EXCEPT ![k] = [job[k] EXCEPT ![n] = row]]
  BY DEF CompleteJob
<1> HIDE DEF row
<1>5. TypeOK
  BY DEF TypeInv
<1>6. /\ job' \in [Key -> [JobName -> JobRow]]
      /\ job'[k][n] = row
      /\ \A i \in JobName \ {n} : job'[k][i] = job[k][i]
      /\ \A m \in Key \ {k} : job'[m] = job[m]
  BY ONLY <1>1, <1>3, <1>4, <1>5, JobRowChanges
<1> QED BY <1>1, <1>3, <1>6

LEMMA CompleteStageEffect ==
  ASSUME TypeInv, NEW w \in Worker, CompleteStage(w),
         NEW k, k = worker[w].key, NEW verdict, verdict = worker[w].verdict
  PROVE  /\ k \in Key /\ verdict \in {"Passed", "Failed"}
         /\ stage' \in [Key -> StageRow]
         /\ stage'[k].state = "Completed"
         /\ stage'[k].result =
              IF verdict = worker[w].seen THEN stage[k].result ELSE verdict
         /\ stage'[k].latest = stage[k].latest
         /\ \A m \in Key \ {k} : stage'[m] = stage[m]
         /\ worker' = IF verdict = "Passed"
                      THEN Goto(w, IF k[2] < NStages THEN "next" ELSE "downstream")
                      ELSE IF LockBehavior = "lockOnFailure" THEN Goto(w, "lock")
                           ELSE Finish(w)
<1> DEFINE row == [stage[k] EXCEPT !.state = "Completed",
                    !.result = IF verdict = worker[w].seen THEN @ ELSE verdict]
<1>1. k \in Key /\ verdict \in {"Passed", "Failed"}
  BY DEF CompleteStage, TypeInv, WorkerFacts, At
<1>2. stage[k] \in StageRow
  BY <1>1, Types DEF TypeInv
<1>3. /\ row \in StageRow /\ row.state = "Completed" /\ row.latest = stage[k].latest
      /\ row.result = IF verdict = worker[w].seen THEN stage[k].result ELSE verdict
  BY <1>1, <1>2 DEF StageRow
<1>4. stage' = [stage EXCEPT ![k] = row]
  BY DEF CompleteStage
<1>5. worker' = IF verdict = "Passed"
                THEN Goto(w, IF k[2] < NStages THEN "next" ELSE "downstream")
                ELSE IF LockBehavior = "lockOnFailure" THEN Goto(w, "lock")
                     ELSE Finish(w)
  <2>1. k[2] \in Nat /\ k[2] <= NStages /\ NStages \in Nat
    BY <1>1, KeyFacts, StageAssumption
  <2>2. verdict = "Passed" /\ k[2] < NStages => worker' = Goto(w, "next")
    BY <2>1 DEF CompleteStage
  <2>3. verdict = "Passed" /\ ~ (k[2] < NStages) => worker' = Goto(w, "downstream")
    BY <2>1 DEF CompleteStage
  <2>4. verdict = "Failed" => worker' = IF LockBehavior = "lockOnFailure"
                                        THEN Goto(w, "lock") ELSE Finish(w)
    BY DEF CompleteStage
  <2> QED BY <1>1, <2>2, <2>3, <2>4
<1> HIDE DEF row
<1>6. stage \in [Key -> StageRow]
  BY Types DEF TypeInv
<1> QED BY <1>1, <1>3, <1>4, <1>5, <1>6

LEMMA InsertEffect ==
  ASSUME TypeOK, NEW k \in Key, NEW names, InsertStage(k, names)
  PROVE  /\ stage' \in [Key -> StageRow] /\ job' \in [Key -> [JobName -> JobRow]]
         /\ stage'[k] = [state |-> "Building", result |-> "Unknown", latest |-> TRUE]
         /\ \A m \in Key \ {k} : stage'[m] = stage[m] /\ job'[m] = job[m]
         /\ \A n \in JobName : /\ job'[k][n].state \in {"None", "Scheduled"}
                               /\ job'[k][n].holder = NoAgent
<1> DEFINE jobs == [n \in JobName |-> IF n \in names THEN [NoJob EXCEPT !.state = "Scheduled"]
                                      ELSE NoJob]
<1>1. \A n \in JobName : /\ jobs[n] \in JobRow
                         /\ jobs[n].state \in {"None", "Scheduled"}
                         /\ jobs[n].holder = NoAgent
  BY DEF NoJob, JobRow, Result
<1>2. jobs \in [JobName -> JobRow]
  BY <1>1
<1>3. job' = [job EXCEPT ![k] = jobs]
  BY DEF InsertStage
<1> HIDE DEF jobs
<1>4. stage \in [Key -> StageRow] /\ job \in [Key -> [JobName -> JobRow]]
  BY Types
<1>5. stage' \in [Key -> StageRow]
      /\ stage'[k] = [state |-> "Building", result |-> "Unknown", latest |-> TRUE]
      /\ \A m \in Key \ {k} : stage'[m] = stage[m]
  BY <1>4 DEF InsertStage, StageRow
<1>6. job' \in [Key -> [JobName -> JobRow]] /\ job'[k] = jobs
      /\ \A m \in Key \ {k} : job'[m] = job[m]
  BY <1>2, <1>3, <1>4
<1> QED BY <1>1, <1>5, <1>6

LEMMA MarkEffect ==
  ASSUME TypeOK, NEW u \in User, MarkNotLatest(u)
  PROVE  \A k \in Key :
           /\ stage'[k].state = stage[k].state
           /\ stage'[k].result = stage[k].result
           /\ stage'[k].latest =
                (stage[k].latest
                   /\ ~ (k[1] = user[u].key[1] /\ k[2] = user[u].key[2]))
BY Types DEF MarkNotLatest, StageRow

-----------------------------------------------------------------------------
(* Type correctness                                                        *)

LEMMA WorkerTypes ==
  ASSUME TypeInv, NEW w \in Worker, NEW x \in WorkerState,
         x.at # "idle" => x.key \in Key /\ x.name \in JobName,
         x.at \in {"decided", "next", "lock", "downstream"} =>
           x.verdict \in {"Passed", "Failed"},
         x.at = "next" => x.key[2] < NStages,
         worker' = [worker EXCEPT ![w] = x]
  PROVE  worker' \in [Worker -> WorkerState] /\ WorkerFacts'
BY Types DEF TypeInv, WorkerFacts, At

LEMMA GotoType ==
  ASSUME TypeInv, NEW w \in Worker, worker[w].at # "idle",
         NEW place \in {"written", "next", "lock", "downstream"}, worker' = Goto(w, place),
         place = "written" \/ worker[w].verdict \in {"Passed", "Failed"},
         place = "next" => worker[w].key[2] < NStages
  PROVE  worker' \in [Worker -> WorkerState] /\ WorkerFacts'
<1> DEFINE x == [worker[w] EXCEPT !.at = place]
<1>1. worker[w] \in WorkerState
  BY Types DEF TypeInv
<1>2. x \in WorkerState /\ x.at = place /\ x.key = worker[w].key
      /\ x.name = worker[w].name /\ x.verdict = worker[w].verdict
  BY <1>1 DEF WorkerState
<1>3. worker' = [worker EXCEPT ![w] = x]
  BY DEF Goto
<1>4. worker[w].key \in Key /\ worker[w].name \in JobName
  BY DEF TypeInv, WorkerFacts
<1> HIDE DEF x
<1> QED BY <1>2, <1>3, <1>4, WorkerTypes

LEMMA FinishType ==
  ASSUME TypeInv, NEW w \in Worker, worker' = Finish(w)
  PROVE  worker' \in [Worker -> WorkerState] /\ WorkerFacts'
<1>1. IdleWorker \in WorkerState /\ IdleWorker.at = "idle"
  BY DEF IdleWorker, WorkerState, Result
<1> QED BY <1>1, WorkerTypes DEF Finish

LEMMA LoadType ==
  ASSUME TypeInv, NEW w \in Worker, NEW k \in Key, NEW n \in JobName,
         NEW result \in Result, Load(w, k, n, result)
  PROVE  worker' \in [Worker -> WorkerState] /\ WorkerFacts'
<1> DEFINE x == [at |-> "loaded", key |-> k, name |-> n, result |-> result,
                 seen |-> stage[k].result, verdict |-> "Unknown"]
<1>1. stage[k].result \in Result
  BY Types DEF TypeInv, StageRow, Result
<1>2. x \in WorkerState /\ x.at = "loaded" /\ x.key = k /\ x.name = n
  BY <1>1 DEF WorkerState, Result
<1>3. worker' = [worker EXCEPT ![w] = x]
  BY DEF Load
<1> HIDE DEF x
<1> QED BY <1>2, <1>3, WorkerTypes

LEMMA UserTypes ==
  ASSUME TypeInv, NEW u \in User, NEW x \in UserState,
         x.at \in {"mark", "insert"} => x.key \in Key,
         user' = [user EXCEPT ![u] = x]
  PROVE  user' \in [User -> UserState] /\ UserFacts'
BY Types DEF TypeInv, UserFacts

LEMMA WorkerStepType ==
  ASSUME TypeInv, worker' \in [Worker -> WorkerState], WorkerFacts',
         UNCHANGED <<rows, user, operatorCalls>>,
         reported' \subseteq Key \X JobName, crashes' \in 0..MaxCrashes
  PROVE  TypeInv'
<1>1. UserFacts'
  BY DEF TypeInv, UserFacts
<1>2. TypeOK'
  BY Types, TypesAfter DEF TypeInv, rows
<1> QED BY <1>1, <1>2 DEF TypeInv

LEMMA RowStepType ==
  ASSUME TypeInv, worker' \in [Worker -> WorkerState], WorkerFacts',
         UNCHANGED <<user, reported, bounds, paused>>,
         stage' \in [Key -> StageRow], job' \in [Key -> [JobName -> JobRow]],
         locked' \in BOOLEAN, downstream' \in [1..MaxCounter -> Nat]
  PROVE  TypeInv'
<1>1. UserFacts'
  BY DEF TypeInv, UserFacts
<1>2. TypeOK'
  BY Types, TypesAfter DEF TypeInv, bounds
<1> QED BY <1>1, <1>2 DEF TypeInv

LEMMA UserStepType ==
  ASSUME TypeInv, UNCHANGED <<locked, paused, downstream, worker, reported, bounds>>,
         stage' \in [Key -> StageRow], job' \in [Key -> [JobName -> JobRow]],
         user' \in [User -> UserState], UserFacts'
  PROVE  TypeInv'
<1>1. WorkerFacts'
  BY DEF TypeInv, WorkerFacts, At
<1>2. TypeOK'
  BY Types, TypesAfter DEF TypeInv, bounds
<1> QED BY <1>1, <1>2 DEF TypeInv

LEMMA InitType == Init => TypeInv
<1> SUFFICES ASSUME Init PROVE TypeInv
  OBVIOUS
<1>1. IdleWorker \in WorkerState /\ IdleWorker.at = "idle"
  BY DEF IdleWorker, WorkerState, Result
<1>2. IdleUser \in UserState /\ IdleUser.at = "idle"
  BY DEF IdleUser, UserState
<1>3. NoStage \in StageRow /\ NoJob \in JobRow
  BY DEF NoStage, NoJob, StageRow, JobRow, Result
<1>4. TypeOK
  <2>1. /\ stage \in [Key -> StageRow] /\ job \in [Key -> [JobName -> JobRow]]
        /\ worker \in [Worker -> WorkerState] /\ user \in [User -> UserState]
    BY <1>1, <1>2, <1>3 DEF Init
  <2>2. /\ downstream \in [1..MaxCounter -> Nat] /\ locked \in BOOLEAN /\ paused \in BOOLEAN
        /\ reported = {} /\ operatorCalls \in 0..MaxOperatorCalls /\ crashes \in 0..MaxCrashes
    <3>1. 0 \in 0..MaxOperatorCalls /\ 0 \in 0..MaxCrashes /\ 0 \in Nat
      BY BoundAssumption
    <3> QED BY <3>1 DEF Init
  <2> QED BY <2>1, <2>2, Types
<1>5. WorkerFacts /\ UserFacts
  BY <1>1, <1>2 DEF Init, WorkerFacts, UserFacts, At
<1> QED BY <1>4, <1>5 DEF TypeInv

LEMMA ChannelStepType ==
  ASSUME TypeInv, NEW k \in Key, NEW n \in JobName, NEW c \in Channel,
         AssignJob(k, n, c) \/ ReportVerdict(c, k, n)
  PROVE  TypeInv'
<1>0. c \in Worker
  BY DEF Worker
<1>1. CASE AssignJob(k, n, c)
  <2>1. job' \in [Key -> [JobName -> JobRow]]
    BY <1>1, AssignEffect DEF TypeInv
  <2>2. WorkerFacts'
    BY <1>1 DEF AssignJob, TypeInv, WorkerFacts, At
  <2> QED BY <1>1, <2>1, <2>2, RowStepType, Types DEF AssignJob, TypeInv
<1>2. CASE ReportVerdict(c, k, n)
  <2>1. reported' \subseteq Key \X JobName
    BY <1>2, Types DEF ReportVerdict, TypeInv
  <2>2. PICK result \in {"Passed", "Failed"} : Load(c, k, n, result)
    BY <1>2 DEF ReportVerdict
  <2>3. worker' \in [Worker -> WorkerState] /\ WorkerFacts'
    BY <1>0, <2>2, LoadType DEF Result
  <2> QED BY <1>2, <2>1, <2>3, WorkerStepType, Types DEF ReportVerdict, TypeInv, bounds
<1> QED BY <1>1, <1>2

LEMMA MonitorStepType ==
  ASSUME TypeInv, NEW m \in Monitor,
         \/ \E k \in Key, n \in JobName : PickQuietJob(m, k, n)
         \/ CancelQuietJob(m)
  PROVE  TypeInv'
<1>0. m \in Worker
  BY DEF Worker
<1>1. ASSUME NEW k \in Key, NEW n \in JobName, PickQuietJob(m, k, n)
      PROVE  TypeInv'
  <2> DEFINE x == [IdleWorker EXCEPT !.at = "picked", !.key = k, !.name = n]
  <2>1. x \in WorkerState /\ x.at = "picked" /\ x.key = k /\ x.name = n
    BY DEF IdleWorker, WorkerState, Result
  <2>2. worker' = [worker EXCEPT ![m] = x]
    BY <1>1 DEF PickQuietJob
  <2> HIDE DEF x
  <2>3. worker' \in [Worker -> WorkerState] /\ WorkerFacts'
    BY <1>0, <2>1, <2>2, WorkerTypes
  <2> QED BY <1>1, <2>3, WorkerStepType, Types DEF PickQuietJob, TypeInv, bounds
<1>2. CASE CancelQuietJob(m)
  <2>1. worker[m].key \in Key /\ worker[m].name \in JobName
    BY <1>0, <1>2 DEF CancelQuietJob, TypeInv, WorkerFacts
  <2>2. worker' \in [Worker -> WorkerState] /\ WorkerFacts'
    BY <1>0, <1>2, <2>1, LoadType DEF CancelQuietJob, Result
  <2> QED BY <1>2, <2>2, WorkerStepType, Types DEF CancelQuietJob, TypeInv, bounds
<1> QED BY <1>1, <1>2

LEMMA CompletionType ==
  ASSUME TypeInv, NEW w \in Worker, CompleteJob(w) \/ ReadJobs(w) \/ CompleteStage(w)
  PROVE  TypeInv'
<1>1. CASE CompleteJob(w)
  <2>1. worker' \in [Worker -> WorkerState] /\ WorkerFacts'
    BY <1>1, GotoType DEF CompleteJob
  <2>2. job' \in [Key -> [JobName -> JobRow]]
    BY <1>1, CompleteJobEffect
  <2> QED BY <1>1, <2>1, <2>2, RowStepType, Types DEF CompleteJob, TypeInv
<1>2. CASE ReadJobs(w)
  <2>1. CASE AllJobsCompleted(worker[w].key)
    <3> DEFINE x == [worker[w] EXCEPT !.at = "decided", !.verdict = Verdict(worker[w].key)]
    <3>1. worker[w] \in WorkerState
      BY Types DEF TypeInv
    <3>2. Verdict(worker[w].key) \in {"Passed", "Failed"}
      BY DEF Verdict
    <3>3. /\ x \in WorkerState /\ x.at = "decided" /\ x.key = worker[w].key
          /\ x.name = worker[w].name /\ x.verdict \in {"Passed", "Failed"}
      BY <3>1, <3>2 DEF WorkerState, Result
    <3>4. worker' = [worker EXCEPT ![w] = x]
      BY <1>2, <2>1 DEF ReadJobs
    <3>5. worker[w].key \in Key /\ worker[w].name \in JobName
      BY <1>2 DEF ReadJobs, TypeInv, WorkerFacts
    <3> HIDE DEF x
    <3>6. worker' \in [Worker -> WorkerState] /\ WorkerFacts'
      BY <3>3, <3>4, <3>5, WorkerTypes
    <3> QED BY <1>2, <3>6, WorkerStepType, Types DEF ReadJobs, TypeInv, bounds
  <2>2. CASE ~ AllJobsCompleted(worker[w].key)
    <3>1. worker' \in [Worker -> WorkerState] /\ WorkerFacts'
      BY <1>2, <2>2, FinishType DEF ReadJobs
    <3> QED BY <1>2, <3>1, WorkerStepType, Types DEF ReadJobs, TypeInv, bounds
  <2> QED BY <2>1, <2>2
<1>3. CASE CompleteStage(w)
  <2>1. worker[w].verdict \in {"Passed", "Failed"} /\ worker[w].at # "idle"
    BY <1>3 DEF CompleteStage, TypeInv, WorkerFacts, At
  <2>2. \/ \E place \in {"next", "lock", "downstream"} :
             /\ worker' = Goto(w, place)
             /\ place = "next" => worker[w].key[2] < NStages
        \/ worker' = Finish(w)
    BY <1>3, CompleteStageEffect
  <2>3. worker' \in [Worker -> WorkerState] /\ WorkerFacts'
    BY <2>1, <2>2, GotoType, FinishType
  <2>4. stage' \in [Key -> StageRow]
    BY <1>3, CompleteStageEffect
  <2> QED BY <1>3, <2>3, <2>4, RowStepType, Types DEF CompleteStage, TypeInv
<1> QED BY <1>1, <1>2, <1>3

LEMMA FollowUpType ==
  ASSUME TypeInv, NEW w \in Worker,
         TriggerNextStage(w) \/ NextStageExists(w) \/ LockPipeline(w)
           \/ TriggerDownstreams(w) \/ Crash(w)
  PROVE  TypeInv'
<1>0. worker' \in [Worker -> WorkerState] /\ WorkerFacts'
  BY FinishType
     DEF TriggerNextStage, NextStageExists, LockPipeline, TriggerDownstreams, Crash
<1>1. CASE TriggerNextStage(w)
  <2>1. NextKey(worker[w].key) \in Key
    BY <1>1, NextKeyFacts DEF TriggerNextStage, TypeInv, WorkerFacts
  <2>2. stage' \in [Key -> StageRow] /\ job' \in [Key -> [JobName -> JobRow]]
    BY <1>1, <2>1, InsertEffect DEF TriggerNextStage, TypeInv
  <2> QED BY <1>0, <1>1, <2>2, RowStepType, Types DEF TriggerNextStage, TypeInv
<1>2. CASE NextStageExists(w)
  BY <1>0, <1>2, WorkerStepType, Types DEF NextStageExists, TypeInv, bounds
<1>3. CASE LockPipeline(w)
  BY <1>0, <1>3, RowStepType, Types DEF LockPipeline, TypeInv
<1>4. CASE TriggerDownstreams(w)
  <2>1. downstream' \in [1..MaxCounter -> Nat]
    <3>1. downstream \in [1..MaxCounter -> Nat]
      BY Types DEF TypeInv
    <3> QED BY <1>4, <3>1 DEF TriggerDownstreams, PassedInstances
  <2> QED BY <1>0, <1>4, <2>1, RowStepType, Types DEF TriggerDownstreams, TypeInv
<1>5. CASE Crash(w)
  <2>1. crashes' \in 0..MaxCrashes
    BY <1>5, BoundAssumption, Types DEF Crash, TypeInv
  <2> QED BY <1>0, <1>5, <2>1, WorkerStepType, Types DEF Crash, TypeInv
<1> QED BY <1>1, <1>2, <1>3, <1>4, <1>5

LEMMA UserType ==
  ASSUME TypeInv, NEW u \in User, UserStep(u)
  PROVE  TypeInv'
<1>0. user[u] \in UserState
  BY Types DEF TypeInv
<1>1. CASE CheckTrigger(u)
  <2> DEFINE x == [user[u] EXCEPT !.at = "checked"]
  <2>1. x \in UserState /\ x.at = "checked"
    BY <1>0 DEF UserState
  <2>2. user' = [user EXCEPT ![u] = x]
    BY <1>1 DEF CheckTrigger
  <2> HIDE DEF x
  <2>3. user' \in [User -> UserState] /\ UserFacts'
    BY <2>1, <2>2, UserTypes
  <2> QED BY <1>1, <2>3, UserStepType, Types DEF CheckTrigger, TypeInv, rows
<1>2. CASE ReadCounter(u)
  <2>1. PICK c \in 1..MaxCounter :
          user' = [user EXCEPT ![u].at = "insert", ![u].key = <<c, 1, 1>>,
                               ![u].names = JobsOf[1]]
    BY <1>2 DEF ReadCounter
  <2> DEFINE x == [user[u] EXCEPT !.at = "insert", !.key = <<c, 1, 1>>, !.names = JobsOf[1]]
  <2>2. <<c, 1, 1>> \in Key /\ JobsOf[1] \in SUBSET JobName
    BY KeyFacts, StageAssumption, BoundAssumption DEF StageNo
  <2>3. x \in UserState /\ x.at = "insert" /\ x.key = <<c, 1, 1>>
    BY <1>0, <2>2 DEF UserState
  <2>4. user' = [user EXCEPT ![u] = x]
    BY <2>1
  <2> HIDE DEF x
  <2>5. user' \in [User -> UserState] /\ UserFacts'
    BY <2>2, <2>3, <2>4, UserTypes
  <2> QED BY <1>2, <2>5, UserStepType, Types DEF ReadCounter, TypeInv, rows
<1>3. CASE MarkNotLatest(u)
  <2> DEFINE x == [user[u] EXCEPT !.at = "insert"]
  <2>1. x \in UserState /\ x.at = "insert" /\ x.key = user[u].key
    BY <1>0 DEF UserState
  <2>2. user' = [user EXCEPT ![u] = x]
    BY <1>3 DEF MarkNotLatest
  <2> HIDE DEF x
  <2>3. user[u].key \in Key
    BY <1>3 DEF MarkNotLatest, TypeInv, UserFacts
  <2>4. user' \in [User -> UserState] /\ UserFacts'
    BY <2>1, <2>2, <2>3, UserTypes
  <2>5. \A k \in Key : [stage[k] EXCEPT !.latest = FALSE] \in StageRow /\ stage[k] \in StageRow
    BY Types DEF TypeInv, StageRow
  <2>6. stage' \in [Key -> StageRow]
    BY <1>3, <2>5 DEF MarkNotLatest
  <2> QED BY <1>3, <2>4, <2>6, UserStepType, Types DEF MarkNotLatest, TypeInv
<1>4. CASE InsertRun(u)
  <2>1. IdleUser \in UserState /\ IdleUser.at = "idle"
    BY DEF IdleUser, UserState
  <2>2. user' \in [User -> UserState] /\ UserFacts'
    BY <1>4, <2>1, UserTypes DEF InsertRun
  <2>3. user[u].key \in Key /\ TypeOK
    BY <1>4 DEF InsertRun, TypeInv, UserFacts
  <2>4. stage' \in [Key -> StageRow] /\ job' \in [Key -> [JobName -> JobRow]]
    BY <1>4, <2>3, InsertEffect, Types DEF InsertRun
  <2> QED BY <1>4, <2>2, <2>4, UserStepType DEF InsertRun
<1>5. ASSUME NEW c \in 1..MaxCounter, NEW s \in StageNo, ReadLatestRun(u, c, s)
      PROVE  TypeInv'
  <2>1. PICK k \in LatestRun(c, s) : /\ k[3] < MaxAttempt
               /\ \E names \in Selections(k) :
                    user' = [user EXCEPT ![u] =
                      [at |-> "mark", key |-> <<c, s, k[3] + 1>>, names |-> names]]
    BY <1>5 DEF ReadLatestRun
  <2>2. k \in Key /\ k[2] = s
    BY DEF LatestRun, Runs
  <2>3. <<c, s, k[3] + 1>> \in Key
    BY <2>1, <2>2, KeyFacts, BoundAssumption
  <2>4. Selections(k) \subseteq SUBSET JobName
    BY <2>2, KeyFacts, StageAssumption DEF Selections
  <2>5. PICK names \in Selections(k) :
          user' = [user EXCEPT ![u] =
                      [at |-> "mark", key |-> <<c, s, k[3] + 1>>, names |-> names]]
    BY <2>1
  <2>6. [at |-> "mark", key |-> <<c, s, k[3] + 1>>, names |-> names] \in UserState
    BY <2>3, <2>4, <2>5 DEF UserState
  <2>7. user' \in [User -> UserState] /\ UserFacts'
    BY <2>3, <2>5, <2>6, UserTypes
  <2> QED BY <1>5, <2>7, UserStepType, Types DEF ReadLatestRun, TypeInv, rows
<1> QED BY <1>1, <1>2, <1>3, <1>4, <1>5 DEF UserStep

LEMMA OperatorType ==
  ASSUME TypeInv, SetPaused \/ Unlock
  PROVE  TypeInv'
<1>1. WorkerFacts' /\ UserFacts'
  BY DEF SetPaused, Unlock, OperatorCall, TypeInv, WorkerFacts, UserFacts, At
<1>2. paused' \in BOOLEAN /\ locked' \in BOOLEAN
  BY Types DEF SetPaused, Unlock, TypeInv
<1>3. operatorCalls' \in 0..MaxOperatorCalls
  BY Types, BoundAssumption DEF SetPaused, Unlock, OperatorCall, TypeInv
<1>4. TypeOK'
  BY <1>2, <1>3, Types, TypesAfter DEF SetPaused, Unlock, OperatorCall, TypeInv
<1> QED BY <1>1, <1>4 DEF TypeInv

LEMMA StutterType == TypeInv /\ UNCHANGED vars => TypeInv'
BY DEF TypeInv, TypeOK, WorkerFacts, UserFacts, At, vars, rows, bounds

LEMMA NextType == TypeInv /\ [Next]_vars => TypeInv'
BY ChannelStepType, MonitorStepType, CompletionType, FollowUpType, UserType,
   OperatorType, StutterType DEF Next, WorkerStep

(***************************************************************************)
(* Every state of the rows, of the handlers and of the pages is well       *)
(* typed; the completed stage has a verdict, not the result of one job.    *)
(***************************************************************************)
THEOREM StagesTypeCorrect == Spec => []TypeOK
<1>1. TypeInv => TypeOK
  BY DEF TypeInv
<1> QED BY <1>1, InitType, NextType, PTL DEF Spec

-----------------------------------------------------------------------------
(* Jobs and handlers stay with stage instances that exist                  *)

LEMMA InitWork == Init => WorkInv
<1>1. NoJob.state = "None" /\ NoJob.holder = NoAgent /\ IdleWorker.at = "idle"
  BY DEF NoJob, IdleWorker
<1>2. Init => JobsBelongToStages
  BY <1>1 DEF Init, JobsBelongToStages
<1>3. Init => WorkersBelongToStages
  BY <1>1 DEF Init, WorkersBelongToStages
<1> QED BY <1>2, <1>3 DEF WorkInv

\* Nothing moves to a stage instance that does not exist.
LEMMA WorkFrame ==
  ASSUME WorkInv, \A k \in Key : Exists(k) => Exists(k)',
         UNCHANGED job,
         \A w \in Worker : worker'[w].at # "idle" =>
           worker[w].at # "idle" /\ worker'[w].key = worker[w].key,
         TypeInv
  PROVE  WorkInv'
<1>1. JobsBelongToStages'
  BY DEF WorkInv, JobsBelongToStages
<1>2. WorkersBelongToStages'
  BY DEF WorkInv, WorkersBelongToStages, TypeInv, WorkerFacts
<1> QED BY <1>1, <1>2 DEF WorkInv

LEMMA ChannelStepWork ==
  ASSUME TypeInv, WorkInv, NEW k \in Key, NEW n \in JobName, NEW c \in Channel,
         AssignJob(k, n, c) \/ ReportVerdict(c, k, n)
  PROVE  WorkInv'
<1>0. c \in Worker /\ c # NoAgent /\ TypeOK
  BY ProcessAssumption DEF Worker, TypeInv
<1>1. CASE AssignJob(k, n, c)
  <2>1. Exists(k)
    BY <1>1 DEF AssignJob, WorkInv, JobsBelongToStages
  <2>2. JobsBelongToStages'
    <3>1. /\ \A i \in JobName \ {n} : job'[k][i] = job[k][i]
          /\ \A m \in Key \ {k} : job'[m] = job[m]
      BY <1>0, <1>1, AssignEffect
    <3>2. UNCHANGED stage
      BY <1>1 DEF AssignJob
    <3> QED BY <2>1, <3>1, <3>2 DEF WorkInv, JobsBelongToStages, Exists
  <2>3. WorkersBelongToStages'
    BY <1>1 DEF AssignJob, WorkInv, WorkersBelongToStages, Exists
  <2> QED BY <2>2, <2>3 DEF WorkInv
<1>2. CASE ReportVerdict(c, k, n)
  <2>1. Exists(k)
    BY <1>0, <1>2 DEF ReportVerdict, WorkInv, JobsBelongToStages
  <2>2. UNCHANGED <<stage, job>>
    BY <1>2 DEF ReportVerdict, rows
  <2>3. worker'[c].key = k /\ \A v \in Worker \ {c} : worker'[v] = worker[v]
    BY <1>0, <1>2, WorkerLoads DEF ReportVerdict
  <2> QED BY <2>1, <2>2, <2>3
          DEF WorkInv, JobsBelongToStages, WorkersBelongToStages, Exists
<1> QED BY <1>1, <1>2

LEMMA MonitorStepWork ==
  ASSUME TypeInv, WorkInv, NEW m \in Monitor,
         \/ \E k \in Key, n \in JobName : PickQuietJob(m, k, n)
         \/ CancelQuietJob(m)
  PROVE  WorkInv'
<1>0. m \in Worker /\ TypeOK
  BY DEF Worker, TypeInv
<1>1. ASSUME NEW k \in Key, NEW n \in JobName, PickQuietJob(m, k, n)
      PROVE  WorkInv'
  <2>1. Exists(k)
    BY <1>1 DEF PickQuietJob, WorkInv, JobsBelongToStages
  <2>2. UNCHANGED <<stage, job>>
    BY <1>1 DEF PickQuietJob, rows
  <2>3. worker'[m].key = k /\ \A v \in Worker \ {m} : worker'[v] = worker[v]
    BY <1>0, <1>1, WorkerPicks
  <2> QED BY <2>1, <2>2, <2>3
          DEF WorkInv, JobsBelongToStages, WorkersBelongToStages, Exists
<1>2. CASE CancelQuietJob(m)
  <2>1. worker'[m].key = worker[m].key /\ \A v \in Worker \ {m} : worker'[v] = worker[v]
    BY <1>0, <1>2, WorkerLoads DEF CancelQuietJob
  <2>2. worker[m].at # "idle" /\ UNCHANGED <<stage, job>>
    BY <1>2 DEF CancelQuietJob, rows
  <2> QED BY <2>1, <2>2, WorkFrame DEF Exists
<1> QED BY <1>1, <1>2

LEMMA WorkerStepWork ==
  ASSUME TypeInv, WorkInv, NEW w \in Worker, WorkerStep(w) \/ Crash(w)
  PROVE  WorkInv'
<1>0. TypeOK
  BY DEF TypeInv
<1>1. CASE CompleteJob(w)
  <2> DEFINE k == worker[w].key
             n == worker[w].name
  <2>1. Exists(k)
    BY <1>1 DEF CompleteJob, WorkInv, WorkersBelongToStages
  <2>2. /\ worker'[w].key = k /\ \A v \in Worker \ {w} : worker'[v] = worker[v]
        /\ UNCHANGED stage
    BY <1>0, <1>1, WorkerMoves DEF CompleteJob
  <2>3. /\ k \in Key
        /\ \A i \in JobName \ {n} : job'[k][i] = job[k][i]
        /\ \A m \in Key \ {k} : job'[m] = job[m]
    BY <1>1, CompleteJobEffect
  <2> HIDE DEF k, n
  <2>4. JobsBelongToStages'
    BY <2>1, <2>2, <2>3 DEF WorkInv, JobsBelongToStages, Exists
  <2>5. WorkersBelongToStages'
    BY <2>1, <2>2 DEF WorkInv, WorkersBelongToStages, Exists
  <2> QED BY <2>4, <2>5 DEF WorkInv
<1>2. CASE ReadJobs(w)
  <2>1. UNCHANGED <<stage, job>> /\ worker[w].at # "idle"
    BY <1>2 DEF ReadJobs, rows
  <2>2. /\ worker'[w].at # "idle" => worker'[w].key = worker[w].key
        /\ \A v \in Worker \ {w} : worker'[v] = worker[v]
    BY <1>0, <1>2, WorkerReads
  <2> QED BY <2>1, <2>2, WorkFrame DEF Exists
<1>3. CASE CompleteStage(w)
  <2>1. UNCHANGED job /\ worker[w].at # "idle"
    BY <1>3 DEF CompleteStage
  <2>2. \/ \E place : worker' = Goto(w, place)
        \/ worker' = Finish(w)
    BY <1>3, CompleteStageEffect
  <2>3. /\ worker'[w].at # "idle" => worker'[w].key = worker[w].key
        /\ \A v \in Worker \ {w} : worker'[v] = worker[v]
    BY <1>0, <2>2, WorkerMoves, WorkerEnds
  <2>4. \A k \in Key : Exists(k) => Exists(k)'
    BY <1>3, CompleteStageEffect DEF Exists
  <2> QED BY <2>1, <2>3, <2>4, WorkFrame
<1>4. CASE TriggerNextStage(w)
  <2> DEFINE next == NextKey(worker[w].key)
  <2>1. next \in Key /\ InsertStage(next, JobsOf[next[2]]) /\ worker' = Finish(w)
    BY <1>4, NextKeyFacts DEF TriggerNextStage, TypeInv, WorkerFacts
  <2> HIDE DEF next
  <2>2. /\ stage'[next] = [state |-> "Building", result |-> "Unknown", latest |-> TRUE]
        /\ \A m \in Key \ {next} : stage'[m] = stage[m] /\ job'[m] = job[m]
    BY <1>0, <2>1, InsertEffect
  <2>3. worker'[w].at = "idle" /\ \A v \in Worker \ {w} : worker'[v] = worker[v]
    BY <1>0, <2>1, WorkerEnds
  <2>4. JobsBelongToStages'
    BY <2>2 DEF WorkInv, JobsBelongToStages, Exists
  <2>5. WorkersBelongToStages'
    BY <2>2, <2>3 DEF WorkInv, WorkersBelongToStages, Exists, TypeInv, WorkerFacts
  <2> QED BY <2>4, <2>5 DEF WorkInv
<1>5. CASE NextStageExists(w) \/ LockPipeline(w) \/ TriggerDownstreams(w) \/ Crash(w)
  <2>1. UNCHANGED <<stage, job>> /\ worker' = Finish(w)
    BY <1>5 DEF NextStageExists, LockPipeline, TriggerDownstreams, Crash, rows
  <2>2. worker'[w].at = "idle" /\ \A v \in Worker \ {w} : worker'[v] = worker[v]
    BY <1>0, <2>1, WorkerEnds
  <2> QED BY <2>1, <2>2, WorkFrame DEF Exists
<1> QED BY <1>1, <1>2, <1>3, <1>4, <1>5 DEF WorkerStep

LEMMA UserWork ==
  ASSUME TypeInv, WorkInv, NEW u \in User, UserStep(u)
  PROVE  WorkInv'
<1>0. TypeOK
  BY DEF TypeInv
<1>1. CASE UNCHANGED <<stage, job, worker>>
  BY <1>1, WorkFrame DEF Exists
<1>2. CASE MarkNotLatest(u)
  BY <1>0, <1>2, MarkEffect, WorkFrame DEF MarkNotLatest, Exists
<1>3. CASE InsertRun(u) /\ ~ Exists(user[u].key)
  <2>1. user[u].key \in Key /\ InsertStage(user[u].key, user[u].names) /\ UNCHANGED worker
    BY <1>3 DEF InsertRun, TypeInv, UserFacts
  <2> DEFINE k == user[u].key
  <2>2. /\ stage'[k] = [state |-> "Building", result |-> "Unknown", latest |-> TRUE]
        /\ \A m \in Key \ {k} : stage'[m] = stage[m] /\ job'[m] = job[m]
    BY <1>0, <2>1, InsertEffect
  <2> HIDE DEF k
  <2>3. JobsBelongToStages'
    BY <2>2 DEF WorkInv, JobsBelongToStages, Exists
  <2>4. WorkersBelongToStages'
    BY <2>1, <2>2 DEF WorkInv, WorkersBelongToStages, Exists, TypeInv, WorkerFacts
  <2> QED BY <2>3, <2>4 DEF WorkInv
<1>4. \/ UNCHANGED <<stage, job, worker>>
      \/ MarkNotLatest(u)
      \/ InsertRun(u) /\ ~ Exists(user[u].key)
  BY DEF UserStep, CheckTrigger, ReadCounter, InsertRun, ReadLatestRun, rows
<1> QED BY <1>1, <1>2, <1>3, <1>4

LEMMA NextWork == TypeInv /\ WorkInv /\ [Next]_vars => WorkInv'
<1>1. ASSUME TypeInv, WorkInv, SetPaused \/ Unlock \/ UNCHANGED vars
      PROVE  WorkInv'
  <2>1. UNCHANGED <<stage, job, worker>>
    BY <1>1 DEF SetPaused, Unlock, OperatorCall, vars, rows
  <2> QED BY <1>1, <2>1, WorkFrame DEF Exists
<1> QED BY <1>1, ChannelStepWork, MonitorStepWork, WorkerStepWork, UserWork DEF Next

-----------------------------------------------------------------------------
(* At most one run of a stage is the latest                                *)

LEMMA InitLatest == Init => LatestInv
<1> SUFFICES ASSUME Init PROVE LatestInv
  OBVIOUS
<1>1. \A k \in Key : ~ Exists(k) /\ ~ stage[k].latest
  BY DEF Init, NoStage, Exists
<1>2. \A u \in User : user[u].at = "idle"
  BY DEF Init, IdleUser
<1> QED BY <1>1, <1>2
        DEF LatestInv, RunsWithoutGaps, RunBeforeExists, LatestExists, ResetBeforeInsert,
            AtMostOneLatest

\* Completing a stage instance that exists changes nothing here.
LEMMA LatestFrame ==
  ASSUME TypeInv, LatestInv, UNCHANGED user,
         \A k \in Key : Exists(k)' = Exists(k) /\ stage'[k].latest = stage[k].latest
  PROVE  LatestInv'
<1>1. RunsWithoutGaps' /\ LatestExists' /\ AtMostOneLatest'
  BY DEF LatestInv, RunsWithoutGaps, LatestExists, AtMostOneLatest
<1>2. RunBeforeExists'
  <2>1. ASSUME NEW u \in User, user[u].at \in {"mark", "insert"}, NEW k, k = user[u].key,
               k[3] > 1
        PROVE  <<k[1], k[2], k[3] - 1>> \in Key
    BY <2>1, RunBeforeFacts DEF TypeInv, UserFacts
  <2> QED BY <2>1 DEF LatestInv, RunBeforeExists
<1>3. ResetBeforeInsert'
  BY DEF LatestInv, ResetBeforeInsert, TypeInv, UserFacts
<1> QED BY <1>1, <1>2, <1>3 DEF LatestInv

\* Before the first run of a stage there are no runs.
LEMMA NoRunBeforeFirst ==
  ASSUME RunsWithoutGaps, NEW k \in Key, k[3] = 1, ~ Exists(k),
         NEW m \in Key, m[1] = k[1], m[2] = k[2]
  PROVE  ~ Exists(m)
BY KeyFacts DEF RunsWithoutGaps

\* A run is inserted next to runs that are not the latest ones, and the run
\* before it exists unless it is the first.
LEMMA InsertLatest ==
  ASSUME TypeInv, LatestInv, NEW k \in Key, NEW names, InsertStage(k, names), ~ Exists(k),
         \A m \in Key : m[1] = k[1] /\ m[2] = k[2] => ~ stage[m].latest,
         \A m \in Key : m[1] = k[1] /\ m[2] = k[2] /\ m[3] < k[3] => Exists(m),
         \A u \in User : user'[u].at \in {"mark", "insert"} => user'[u] = user[u]
  PROVE  LatestInv'
<1>1. /\ stage'[k].latest /\ Exists(k)'
      /\ \A m \in Key \ {k} : stage'[m] = stage[m]
  BY InsertEffect DEF TypeInv, Exists
<1>2. \A m \in Key : Exists(m)' <=> Exists(m) \/ m = k
  BY <1>1 DEF Exists
<1>3. RunsWithoutGaps'
  <2> SUFFICES ASSUME NEW i \in Key, NEW m \in Key, i[1] = m[1], i[2] = m[2], m[3] <= i[3],
                      Exists(i)'
               PROVE  Exists(m)'
    BY DEF RunsWithoutGaps
  <2>1. CASE i = k
    BY <1>2, <2>1, KeyFacts
  <2>2. CASE i # k
    BY <1>2, <2>2 DEF LatestInv, RunsWithoutGaps
  <2> QED BY <2>1, <2>2
<1>4. LatestExists'
  BY <1>1, <1>2 DEF LatestInv, LatestExists
<1>5. AtMostOneLatest'
  BY <1>1 DEF LatestInv, AtMostOneLatest
<1>6. RunBeforeExists'
  <2>1. ASSUME NEW u \in User, user'[u].at \in {"mark", "insert"}, NEW i, i = user[u].key,
               i[3] > 1
        PROVE  <<i[1], i[2], i[3] - 1>> \in Key
    BY <2>1, RunBeforeFacts DEF TypeInv, UserFacts
  <2> QED BY <1>2, <2>1 DEF LatestInv, RunBeforeExists
<1>7. ResetBeforeInsert'
  <2> SUFFICES ASSUME NEW u \in User, NEW m \in Key,
                      user'[u].at = "insert", stage'[user'[u].key].state = "None",
                      m[1] = user'[u].key[1], m[2] = user'[u].key[2], stage'[m].latest
               PROVE  FALSE
    BY DEF ResetBeforeInsert, Exists
  <2> DEFINE i == user[u].key
  <2>1. user'[u] = user[u] /\ i \in Key
    BY DEF TypeInv, UserFacts
  <2>2. ~ Exists(i) /\ i # k
    BY <1>1, <1>2, <2>1 DEF Exists
  <2>3. m = k
    BY <1>1, <2>1, <2>2 DEF LatestInv, ResetBeforeInsert
  <2>4. \/ i[3] = 1 /\ i[2] = 1
        \/ i[3] > 1 /\ Exists(<<i[1], i[2], i[3] - 1>>)
    BY <2>1 DEF LatestInv, RunBeforeExists
  <2>5. i[1] = k[1] /\ i[2] = k[2]
    BY <2>1, <2>3
  <2> HIDE DEF i
  <2>6. CASE i[3] < k[3]
    BY <2>1, <2>2, <2>5, <2>6
  <2>7. CASE i[3] = k[3]
    BY <2>1, <2>2, <2>5, <2>7, KeyFacts
  <2>8. CASE i[3] > k[3]
    <3> DEFINE p == <<i[1], i[2], i[3] - 1>>
    <3>1. i[3] > 1 /\ p \in Key /\ k[3] <= p[3] /\ p[1] = k[1] /\ p[2] = k[2]
      BY <2>1, <2>5, <2>8, KeyFacts, RunBeforeFacts
    <3>2. Exists(p)
      BY <2>4, <3>1
    <3> HIDE DEF p
    <3> QED BY <3>1, <3>2 DEF LatestInv, RunsWithoutGaps
  <2>9. i[3] \in Nat /\ k[3] \in Nat
    BY <2>1, KeyFacts
  <2> QED BY <2>6, <2>7, <2>8, <2>9
<1> QED BY <1>3, <1>4, <1>5, <1>6, <1>7 DEF LatestInv

LEMMA WorkerStepLatest ==
  ASSUME TypeInv, WorkInv, LatestInv, NEW w \in Worker, WorkerStep(w) \/ Crash(w)
  PROVE  LatestInv'
<1>1. CASE TriggerNextStage(w)
  <2> DEFINE next == NextKey(worker[w].key)
  <2>1. /\ next \in Key /\ next[3] = 1 /\ ~ Exists(next) /\ UNCHANGED user
        /\ InsertStage(next, JobsOf[next[2]])
    BY <1>1, NextKeyFacts DEF TriggerNextStage, TypeInv, WorkerFacts
  <2> HIDE DEF next
  <2>2. \A m \in Key : m[1] = next[1] /\ m[2] = next[2] => ~ Exists(m)
    BY <2>1, NoRunBeforeFirst DEF LatestInv
  <2>3. \A m \in Key : m[1] = next[1] /\ m[2] = next[2] => ~ stage[m].latest
    BY <2>2 DEF LatestInv, LatestExists
  <2>4. \A m \in Key : ~ (m[3] < next[3])
    BY <2>1, KeyFacts
  <2> QED BY <2>1, <2>3, <2>4, InsertLatest
<1>2. CASE CompleteStage(w)
  <2>1. Exists(worker[w].key)
    BY <1>2 DEF CompleteStage, WorkInv, WorkersBelongToStages
  <2> QED BY <1>2, <2>1, CompleteStageEffect, LatestFrame DEF CompleteStage, Exists
<1>3. CASE ~ TriggerNextStage(w) /\ ~ CompleteStage(w)
  <2>1. UNCHANGED <<stage, user>>
    BY <1>3 DEF WorkerStep, CompleteJob, ReadJobs, NextStageExists, LockPipeline,
                TriggerDownstreams, Crash, rows
  <2> QED BY <2>1, LatestFrame DEF Exists
<1> QED BY <1>1, <1>2, <1>3

\* A user comes to know which run to insert, or forgets it.
LEMMA UserKnowsLatest ==
  ASSUME TypeInv, LatestInv, NEW u \in User,
         \A k \in Key : Exists(k)' = Exists(k) /\ (stage'[k].latest => stage[k].latest),
         \A v \in User \ {u} : user'[v] = user[v],
         NEW i, i = user'[u].key,
         user'[u].at \in {"mark", "insert"} =>
           \/ i[3] = 1 /\ i[2] = 1 /\ user'[u].at = "insert"
           \/ i[3] > 1 /\ <<i[1], i[2], i[3] - 1>> \in Key
                /\ Exists(<<i[1], i[2], i[3] - 1>>),
         user'[u].at = "insert" =>
           \A k \in Key : k[1] = i[1] /\ k[2] = i[2] => ~ stage'[k].latest
  PROVE  LatestInv'
<1>1. RunsWithoutGaps' /\ LatestExists' /\ AtMostOneLatest'
  BY DEF LatestInv, RunsWithoutGaps, LatestExists, AtMostOneLatest
<1>2. RunBeforeExists'
  <2> SUFFICES ASSUME NEW v \in User, user'[v].at \in {"mark", "insert"},
                      NEW j, j = user'[v].key
               PROVE  \/ j[3] = 1 /\ j[2] = 1 /\ user'[v].at = "insert"
                      \/ j[3] > 1 /\ Exists(<<j[1], j[2], j[3] - 1>>)'
    BY DEF RunBeforeExists
  <2>1. CASE v = u
    BY <2>1
  <2>2. CASE v # u
    <3>1. j = user[v].key /\ j \in Key /\ user[v].at = user'[v].at
      BY <2>2 DEF TypeInv, UserFacts
    <3>2. j[3] > 1 => <<j[1], j[2], j[3] - 1>> \in Key
      BY <3>1, RunBeforeFacts
    <3> QED BY <3>1, <3>2 DEF LatestInv, RunBeforeExists
  <2> QED BY <2>1, <2>2
<1>3. ResetBeforeInsert'
  <2> SUFFICES ASSUME NEW v \in User, NEW k \in Key,
                      user'[v].at = "insert", stage'[user'[v].key].state = "None",
                      k[1] = user'[v].key[1], k[2] = user'[v].key[2]
               PROVE  ~ stage'[k].latest
    BY DEF ResetBeforeInsert, Exists
  <2>1. CASE v = u
    BY <2>1
  <2>2. CASE v # u
    <3>1. user'[v] = user[v] /\ user[v].key \in Key
      BY <2>2 DEF TypeInv, UserFacts
    <3>2. ~ Exists(user[v].key)
      BY <3>1 DEF Exists
    <3> QED BY <3>1, <3>2 DEF LatestInv, ResetBeforeInsert
  <2> QED BY <2>1, <2>2
<1> QED BY <1>1, <1>2, <1>3 DEF LatestInv

LEMMA UserLatest ==
  ASSUME TypeInv, LatestInv, NEW u \in User, UserStep(u)
  PROVE  LatestInv'
<1>0. TypeOK /\ user \in [User -> UserState] /\ user[u] \in UserState
  BY Types DEF TypeInv
<1>1. CASE CheckTrigger(u)
  <2>1. user'[u].at = "checked" /\ \A v \in User \ {u} : user'[v] = user[v]
    BY <1>0, <1>1 DEF CheckTrigger, UserState
  <2>2. UNCHANGED stage
    BY <1>1 DEF CheckTrigger, rows
  <2> QED BY <2>1, <2>2, UserKnowsLatest DEF Exists
<1>2. CASE ReadCounter(u)
  <2>1. PICK c \in 1..MaxCounter :
          /\ \A d \in 1..MaxCounter : InstanceExists(d) <=> d < c
          /\ user' = [user EXCEPT ![u].at = "insert", ![u].key = <<c, 1, 1>>,
                               ![u].names = JobsOf[1]]
    BY <1>2 DEF ReadCounter
  <2>2. user'[u].at = "insert" /\ user'[u].key = <<c, 1, 1>>
        /\ \A v \in User \ {u} : user'[v] = user[v]
    BY <1>0, <2>1 DEF UserState
  <2>3. \A k \in Key : k[1] = c => ~ Exists(k)
    BY <2>1, BoundAssumption DEF InstanceExists
  <2>4. UNCHANGED stage
    BY <1>2 DEF ReadCounter, rows
  <2>5. \A k \in Key : k[1] = c => ~ stage'[k].latest
    BY <2>3, <2>4 DEF LatestInv, LatestExists
  <2> DEFINE i == <<c, 1, 1>>
  <2>6. i[1] = c /\ i[2] = 1 /\ i[3] = 1 /\ user'[u].key = i
    BY <2>2
  <2> HIDE DEF i
  <2>7. \A k \in Key : Exists(k)' = Exists(k) /\ (stage'[k].latest => stage[k].latest)
    BY <2>4 DEF Exists
  <2> QED BY <2>2, <2>5, <2>6, <2>7, UserKnowsLatest
<1>3. CASE MarkNotLatest(u)
  <2> DEFINE i == user[u].key
  <2>1. user'[u].at = "insert" /\ user'[u].key = i
        /\ \A v \in User \ {u} : user'[v] = user[v]
    BY <1>0, <1>3 DEF MarkNotLatest, UserState
  <2>2. i \in Key /\ user[u].at = "mark"
    BY <1>3 DEF MarkNotLatest, TypeInv, UserFacts
  <2>3. i[3] > 1 /\ Exists(<<i[1], i[2], i[3] - 1>>)
    BY <2>2 DEF LatestInv, RunBeforeExists
  <2>4. <<i[1], i[2], i[3] - 1>> \in Key
    BY <2>2, <2>3, RunBeforeFacts
  <2>5. \A k \in Key : Exists(k)' = Exists(k) /\ (stage'[k].latest => stage[k].latest)
    BY <1>0, <1>3, MarkEffect DEF Exists
  <2>6. \A k \in Key : k[1] = i[1] /\ k[2] = i[2] => ~ stage'[k].latest
    BY <1>0, <1>3, MarkEffect
  <2> HIDE DEF i
  <2> QED BY <2>1, <2>3, <2>4, <2>5, <2>6, UserKnowsLatest
<1>4. CASE InsertRun(u)
  <2> DEFINE k == user[u].key
  <2>1. user'[u].at = "idle" /\ \A v \in User \ {u} : user'[v] = user[v]
    BY <1>0, <1>4 DEF InsertRun, IdleUser
  <2>2. CASE Exists(k)
    <3>1. UNCHANGED stage
      BY <1>4, <2>2 DEF InsertRun
    <3> QED BY <2>1, <3>1, UserKnowsLatest DEF Exists
  <2>3. CASE ~ Exists(k)
    <3>1. k \in Key /\ user[u].at = "insert" /\ InsertStage(k, user[u].names)
      BY <1>4, <2>3 DEF InsertRun, TypeInv, UserFacts
    <3>2. \A m \in Key : m[1] = k[1] /\ m[2] = k[2] => ~ stage[m].latest
      BY <2>3, <3>1 DEF LatestInv, ResetBeforeInsert
    <3>3. \A v \in User : user'[v].at \in {"mark", "insert"} => user'[v] = user[v]
      BY <2>1
    <3>4. \A m \in Key : m[1] = k[1] /\ m[2] = k[2] /\ m[3] < k[3] => Exists(m)
      <4>0. RunBeforeExists /\ user[u].at \in {"mark", "insert"}
        BY <3>1 DEF LatestInv
      <4>1. k[3] = 1 \/ (k[3] > 1 /\ Exists(<<k[1], k[2], k[3] - 1>>))
        BY <4>0 DEF RunBeforeExists
      <4> HIDE DEF k
      <4>2. CASE k[3] = 1
        BY <4>2, KeyFacts
      <4>3. CASE k[3] > 1 /\ Exists(<<k[1], k[2], k[3] - 1>>)
        <5> DEFINE p == <<k[1], k[2], k[3] - 1>>
        <5>1. p \in Key /\ p[1] = k[1] /\ p[2] = k[2] /\ p[3] = k[3] - 1
          BY <3>1, <4>3, RunBeforeFacts
        <5>2. \A m \in Key : m[3] < k[3] => m[3] <= p[3]
          BY <3>1, <5>1, KeyFacts
        <5>3. Exists(p)
          BY <4>3
        <5> HIDE DEF p
        <5> QED BY <5>1, <5>2, <5>3 DEF LatestInv, RunsWithoutGaps
      <4> QED BY <4>1, <4>2, <4>3
    <3> HIDE DEF k
    <3> QED BY <2>3, <3>1, <3>2, <3>3, <3>4, InsertLatest
  <2> QED BY <2>2, <2>3
<1>5. ASSUME NEW c \in 1..MaxCounter, NEW s \in StageNo, ReadLatestRun(u, c, s)
      PROVE  LatestInv'
  <2>1. PICK k \in LatestRun(c, s) : /\ k[3] < MaxAttempt
               /\ \E names \in Selections(k) :
                    user' = [user EXCEPT ![u] =
                      [at |-> "mark", key |-> <<c, s, k[3] + 1>>, names |-> names]]
    BY <1>5 DEF ReadLatestRun
  <2>2. k \in Key /\ k = <<c, s, k[3]>> /\ k[3] \in Nat /\ k[3] >= 1 /\ Exists(k)
    BY KeyFacts DEF LatestRun, Runs
  <2>3. user'[u].at = "mark" /\ user'[u].key = <<c, s, k[3] + 1>>
        /\ \A v \in User \ {u} : user'[v] = user[v]
    BY <1>0, <2>1
  <2>4. UNCHANGED stage
    BY <1>5 DEF ReadLatestRun, rows
  <2> DEFINE i == <<c, s, k[3] + 1>>
  <2>5. i[3] > 1 /\ <<i[1], i[2], i[3] - 1>> = k
    BY <2>2
  <2> HIDE DEF i
  <2>6. user'[u].key = i
    BY <2>3 DEF i
  <2> QED BY <2>2, <2>3, <2>4, <2>5, <2>6, UserKnowsLatest DEF Exists
<1> QED BY <1>1, <1>2, <1>3, <1>4, <1>5 DEF UserStep

LEMMA NextLatest == TypeInv /\ WorkInv /\ LatestInv /\ [Next]_vars => LatestInv'
<1>1. ASSUME TypeInv, LatestInv,
             \/ \E k \in Key, n \in JobName, c \in Channel :
                  AssignJob(k, n, c) \/ ReportVerdict(c, k, n)
             \/ \E k \in Key, n \in JobName, m \in Monitor : PickQuietJob(m, k, n)
             \/ \E m \in Monitor : CancelQuietJob(m)
             \/ SetPaused \/ Unlock \/ UNCHANGED vars
      PROVE  LatestInv'
  <2>1. UNCHANGED <<stage, user>>
    BY <1>1 DEF AssignJob, ReportVerdict, PickQuietJob, CancelQuietJob, SetPaused, Unlock,
                OperatorCall, vars, rows
  <2> QED BY <1>1, <2>1, LatestFrame DEF Exists
<1> QED BY <1>1, WorkerStepLatest, UserLatest DEF Next

(***************************************************************************)
(* However many users rerun a stage at the same time, whatever runs their  *)
(* transactions are refused, at most one run of it is the latest.          *)
(***************************************************************************)
THEOREM OneLatestRun == Spec => []AtMostOneLatest
<1>1. Init => TypeInv /\ WorkInv /\ LatestInv
  BY InitType, InitWork, InitLatest
<1>2. TypeInv /\ WorkInv /\ LatestInv /\ [Next]_vars => (TypeInv /\ WorkInv /\ LatestInv)'
  BY NextType, NextWork, NextLatest
<1>3. LatestInv => AtMostOneLatest
  BY DEF LatestInv
<1> QED BY <1>1, <1>2, <1>3, PTL DEF Spec

-----------------------------------------------------------------------------
(* No completion is lost                                                   *)

\* What is read from the jobs of a stage depends on nothing else.
LEMMA JobsFrame ==
  ASSUME NEW k, job'[k] = job[k]
  PROVE  /\ JobsIn(k)' = JobsIn(k)
         /\ AllJobsCompleted(k)' = AllJobsCompleted(k)
         /\ Verdict(k)' = Verdict(k)
BY DEF JobsIn, AllJobsCompleted, FailedJobs, Verdict

\* An unfinished job stops a stage from completing.
LEMMA UnfinishedJob ==
  ASSUME NEW k, NEW n \in JobName, job[k][n].state \in {"Scheduled", "Assigned"}
  PROVE  ~ AllJobsCompleted(k)
BY DEF AllJobsCompleted, JobsIn

\* New jobs are all unfinished.
LEMMA InsertedJobs ==
  ASSUME TypeOK, NEW k \in Key, NEW names, InsertStage(k, names)
  PROVE  JobsIn(k)' # {} => ~ AllJobsCompleted(k)'
BY InsertEffect DEF JobsIn, AllJobsCompleted

LEMMA CompletionFrame ==
  ASSUME NoLostCompletion, crashes' = 0 => crashes = 0,
         \A k \in Key : Building(k)' /\ JobsIn(k)' # {} /\ AllJobsCompleted(k)' =>
           Building(k) /\ job'[k] = job[k],
         \A w \in Worker : At(w, {"written", "decided"}) =>
           At(w, {"written", "decided"})' /\ worker'[w].key = worker[w].key
  PROVE  NoLostCompletion'
<1> SUFFICES ASSUME crashes = 0, NEW k \in Key,
                    Building(k)', JobsIn(k)' # {}, AllJobsCompleted(k)'
             PROVE  \E w \in Worker : worker'[w].key = k /\ At(w, {"written", "decided"})'
  BY DEF NoLostCompletion
<1>1. Building(k) /\ JobsIn(k) # {} /\ AllJobsCompleted(k)
  BY JobsFrame
<1> QED BY <1>1 DEF NoLostCompletion

LEMMA ChannelStepCompletion ==
  ASSUME TypeInv, NoLostCompletion, NEW k \in Key, NEW n \in JobName, NEW c \in Channel,
         AssignJob(k, n, c) \/ ReportVerdict(c, k, n)
  PROVE  NoLostCompletion'
<1>0. c \in Worker /\ TypeOK
  BY DEF Worker, TypeInv
<1>1. CASE AssignJob(k, n, c)
  <2>1. UNCHANGED <<stage, worker, crashes>>
    BY <1>1 DEF AssignJob, bounds
  <2>2. job'[k][n].state = "Assigned" /\ \A m \in Key \ {k} : job'[m] = job[m]
    BY <1>0, <1>1, AssignEffect
  <2>3. ~ AllJobsCompleted(k)'
    BY <2>2 DEF AllJobsCompleted, JobsIn
  <2> QED BY <2>1, <2>2, <2>3, CompletionFrame DEF Building, At
<1>2. CASE ReportVerdict(c, k, n)
  <2>1. UNCHANGED <<stage, job, crashes>> /\ worker[c].at = "idle"
    BY <1>2 DEF ReportVerdict, rows, bounds
  <2>2. \A v \in Worker \ {c} : worker'[v] = worker[v]
    BY <1>0, <1>2, WorkerLoads DEF ReportVerdict
  <2> QED BY <2>1, <2>2, CompletionFrame DEF Building, At
<1> QED BY <1>1, <1>2

LEMMA MonitorStepCompletion ==
  ASSUME TypeInv, NoLostCompletion, NEW m \in Monitor,
         \/ \E k \in Key, n \in JobName : PickQuietJob(m, k, n)
         \/ CancelQuietJob(m)
  PROVE  NoLostCompletion'
<1>0. m \in Worker /\ TypeOK
  BY DEF Worker, TypeInv
<1>1. UNCHANGED <<stage, job, crashes>> /\ worker[m].at \in {"idle", "picked"}
  BY DEF PickQuietJob, CancelQuietJob, rows, bounds
<1>2. \A v \in Worker \ {m} : worker'[v] = worker[v]
  BY <1>0, WorkerLoads, WorkerPicks DEF CancelQuietJob
<1> QED BY <1>1, <1>2, CompletionFrame DEF Building, At

LEMMA WorkerStepCompletion ==
  ASSUME TypeInv, NoLostCompletion, NEW w \in Worker, WorkerStep(w) \/ Crash(w)
  PROVE  NoLostCompletion'
<1>0. TypeOK
  BY DEF TypeInv
<1>1. CASE CompleteJob(w)
  <2> DEFINE key == worker[w].key
  <2>1. UNCHANGED <<stage, crashes>> /\ worker[w].at = "loaded"
    BY <1>1 DEF CompleteJob, bounds
  <2>2. /\ worker'[w].at = "written" /\ worker'[w].key = key
        /\ \A v \in Worker \ {w} : worker'[v] = worker[v]
    BY <1>0, <1>1, WorkerMoves DEF CompleteJob
  <2>3. \A m \in Key \ {key} : job'[m] = job[m]
    BY <1>1, CompleteJobEffect
  <2> HIDE DEF key
  <2> SUFFICES ASSUME crashes = 0, NEW k \in Key,
                      Building(k)', JobsIn(k)' # {}, AllJobsCompleted(k)'
               PROVE  \E v \in Worker : worker'[v].key = k /\ At(v, {"written", "decided"})'
    BY <2>1 DEF NoLostCompletion
  <2>4. CASE k = key
    BY <2>2, <2>4 DEF At
  <2>5. CASE k # key
    <3>1. Building(k) /\ JobsIn(k) # {} /\ AllJobsCompleted(k)
      BY <2>1, <2>3, <2>5, JobsFrame DEF Building
    <3>2. PICK v \in Worker : worker[v].key = k /\ At(v, {"written", "decided"})
      BY <3>1 DEF NoLostCompletion
    <3> QED BY <2>1, <2>2, <3>2 DEF At
  <2> QED BY <2>4, <2>5
<1>2. CASE ReadJobs(w)
  <2> DEFINE key == worker[w].key
  <2>1. UNCHANGED <<stage, job, crashes>>
    BY <1>2 DEF ReadJobs, rows, bounds
  <2>2. /\ AllJobsCompleted(key) => worker'[w].at = "decided" /\ worker'[w].key = key
        /\ \A v \in Worker \ {w} : worker'[v] = worker[v]
    BY <1>0, <1>2, WorkerReads
  <2> SUFFICES ASSUME crashes = 0, NEW k \in Key,
                      Building(k)', JobsIn(k)' # {}, AllJobsCompleted(k)'
               PROVE  \E v \in Worker : worker'[v].key = k /\ At(v, {"written", "decided"})'
    BY <2>1 DEF NoLostCompletion
  <2>3. Building(k) /\ JobsIn(k) # {} /\ AllJobsCompleted(k)
    BY <2>1, JobsFrame DEF Building
  <2>4. PICK v \in Worker : worker[v].key = k /\ At(v, {"written", "decided"})
    BY <2>3 DEF NoLostCompletion
  <2>5. worker'[v].key = k /\ At(v, {"written", "decided"})'
    BY <2>2, <2>3, <2>4 DEF At
  <2> QED BY <2>5
<1>3. CASE CompleteStage(w)
  <2>1. UNCHANGED <<job, crashes>>
    BY <1>3 DEF CompleteStage, bounds
  <2>2. /\ worker[w].key \in Key
        /\ stage'[worker[w].key].state = "Completed"
        /\ \A m \in Key \ {worker[w].key} : stage'[m] = stage[m]
    BY <1>3, CompleteStageEffect
  <2>3. \/ \E place : worker' = Goto(w, place)
        \/ worker' = Finish(w)
    BY <1>3, CompleteStageEffect
  <2>4. \A v \in Worker \ {w} : worker'[v] = worker[v]
    BY <1>0, <2>3, WorkerMoves, WorkerEnds
  <2> SUFFICES ASSUME crashes = 0, NEW k \in Key,
                      Building(k)', JobsIn(k)' # {}, AllJobsCompleted(k)'
               PROVE  \E v \in Worker : worker'[v].key = k /\ At(v, {"written", "decided"})'
    BY <2>1 DEF NoLostCompletion
  <2>5. k # worker[w].key /\ Building(k)
    BY <2>2 DEF Building
  <2>6. JobsIn(k) # {} /\ AllJobsCompleted(k)
    BY <2>1, JobsFrame
  <2>7. PICK v \in Worker : worker[v].key = k /\ At(v, {"written", "decided"})
    BY <2>5, <2>6 DEF NoLostCompletion
  <2> QED BY <2>4, <2>5, <2>7 DEF At
<1>4. CASE TriggerNextStage(w)
  <2>1. PICK next \in Key : InsertStage(next, JobsOf[next[2]])
    BY <1>4, NextKeyFacts DEF TriggerNextStage, TypeInv, WorkerFacts
  <2>0. worker' = Finish(w) /\ UNCHANGED crashes /\ worker[w].at = "next"
    BY <1>4 DEF TriggerNextStage, bounds
  <2>2. \A m \in Key \ {next} : stage'[m] = stage[m] /\ job'[m] = job[m]
    BY <1>0, <2>1, InsertEffect
  <2>3. JobsIn(next)' # {} => ~ AllJobsCompleted(next)'
    BY <1>0, <2>1, InsertedJobs
  <2>4. \A v \in Worker \ {w} : worker'[v] = worker[v]
    BY <1>0, <2>0, WorkerEnds
  <2> QED BY <2>0, <2>1, <2>2, <2>3, <2>4, CompletionFrame DEF Building, At
<1>5. CASE NextStageExists(w) \/ LockPipeline(w) \/ TriggerDownstreams(w)
  <2>1. /\ UNCHANGED <<stage, job, crashes>> /\ worker' = Finish(w)
        /\ worker[w].at \in {"next", "lock", "downstream"}
    BY <1>5 DEF NextStageExists, LockPipeline, TriggerDownstreams, rows, bounds
  <2>2. \A v \in Worker \ {w} : worker'[v] = worker[v]
    BY <1>0, <2>1, WorkerEnds
  <2> QED BY <2>1, <2>2, CompletionFrame DEF Building, At
<1>6. CASE Crash(w)
  <2>1. crashes' # 0
    BY <1>0, <1>6, Types DEF Crash
  <2> QED BY <2>1 DEF NoLostCompletion
<1> QED BY <1>1, <1>2, <1>3, <1>4, <1>5, <1>6 DEF WorkerStep

LEMMA UserCompletion ==
  ASSUME TypeInv, NoLostCompletion, NEW u \in User, UserStep(u)
  PROVE  NoLostCompletion'
<1>0. TypeOK /\ UNCHANGED <<worker, crashes>>
  BY DEF TypeInv, UserStep, CheckTrigger, ReadCounter, InsertRun, ReadLatestRun,
         MarkNotLatest, bounds
<1>1. CASE UNCHANGED <<stage, job>>
  BY <1>0, <1>1, CompletionFrame DEF Building, At
<1>2. CASE MarkNotLatest(u)
  <2>1. \A k \in Key : stage'[k].state = stage[k].state /\ job' = job
    BY <1>0, <1>2, MarkEffect DEF MarkNotLatest
  <2> QED BY <1>0, <2>1, CompletionFrame DEF Building, At
<1>3. CASE InsertRun(u) /\ ~ Exists(user[u].key)
  <2>1. PICK k \in Key : InsertStage(k, user[u].names)
    BY <1>3 DEF InsertRun, TypeInv, UserFacts
  <2>2. \A m \in Key \ {k} : stage'[m] = stage[m] /\ job'[m] = job[m]
    BY <1>0, <2>1, InsertEffect
  <2>3. JobsIn(k)' # {} => ~ AllJobsCompleted(k)'
    BY <1>0, <2>1, InsertedJobs
  <2> QED BY <1>0, <2>1, <2>2, <2>3, CompletionFrame DEF Building, At
<1>4. \/ UNCHANGED <<stage, job>>
      \/ MarkNotLatest(u)
      \/ InsertRun(u) /\ ~ Exists(user[u].key)
  BY DEF UserStep, CheckTrigger, ReadCounter, InsertRun, ReadLatestRun, rows
<1> QED BY <1>1, <1>2, <1>3, <1>4

LEMMA NextCompletion == TypeInv /\ NoLostCompletion /\ [Next]_vars => NoLostCompletion'
<1>1. ASSUME NoLostCompletion, SetPaused \/ Unlock \/ UNCHANGED vars
      PROVE  NoLostCompletion'
  <2>1. UNCHANGED <<stage, job, worker, crashes>>
    BY <1>1 DEF SetPaused, Unlock, OperatorCall, vars, rows, bounds
  <2> QED BY <1>1, <2>1, CompletionFrame DEF Building, At
<1> QED BY <1>1, ChannelStepCompletion, MonitorStepCompletion, WorkerStepCompletion,
           UserCompletion DEF Next

(***************************************************************************)
(* When the jobs of a stage are done, the stage is complete or a process   *)
(* that will complete it is still at work: of two verdicts written at the  *)
(* same time, each reads the other or is read by it.                       *)
(***************************************************************************)
THEOREM CompletionsNotLost == Spec => []NoLostCompletion
<1>1. Init => NoLostCompletion
  BY DEF Init, NoLostCompletion, Building, NoStage
<1>2. TypeInv /\ NoLostCompletion /\ [Next]_vars => (TypeInv /\ NoLostCompletion)'
  BY NextType, NextCompletion
<1> QED BY <1>1, <1>2, InitType, PTL DEF Spec

-----------------------------------------------------------------------------
(* A completed stage is followed up                                        *)

LEMMA InitFollowUp == Init => FollowUpInv
<1> SUFFICES ASSUME Init PROVE FollowUpInv
  OBVIOUS
<1>1. /\ \A k \in Key : stage[k].state = "None" /\ stage[k].result = "Unknown"
      /\ \A w \in Worker : worker[w].at = "idle"
  BY DEF Init, NoStage, IdleWorker
<1> QED BY <1>1
        DEF FollowUpInv, UndecidedUntilCompleted, SeenWhenCompleted, PassStartsNext,
            FailureLocks, Passed

\* The results stay as they are, and so does who has to follow them up.
LEMMA FollowUpFrame ==
  ASSUME TypeInv, FollowUpInv,
         \A k \in Key : stage'[k].state = stage[k].state /\ stage'[k].result = stage[k].result,
         \A w \in Worker : worker'[w].at \notin {"idle", "picked"} =>
           \/ /\ worker[w].at \notin {"idle", "picked"}
              /\ worker'[w].key = worker[w].key /\ worker'[w].seen = worker[w].seen
           \/ /\ worker'[w].key \in Key
              /\ worker'[w].seen = stage[worker'[w].key].result,
         \A w \in Worker : worker[w].at \in {"next", "lock"} => worker'[w] = worker[w],
         crashes' = crashes,
         operatorCalls' = 0 => operatorCalls = 0 /\ (locked => locked')
  PROVE  FollowUpInv'
<1>1. UndecidedUntilCompleted'
  BY DEF FollowUpInv, UndecidedUntilCompleted
<1>2. SeenWhenCompleted'
  BY DEF FollowUpInv, UndecidedUntilCompleted, SeenWhenCompleted, TypeInv, WorkerFacts
<1>3. ASSUME PassStartsNext PROVE PassStartsNext'
  <2> SUFFICES ASSUME NEW k \in Key, Passed(k)', k[2] < NStages
               PROVE  \/ Exists(NextKey(k))'
                      \/ \E w \in Worker : worker'[w].key = k /\ At(w, {"next"})'
    BY DEF PassStartsNext
  <2>1. NextKey(k) \in Key /\ Passed(k)
    BY NextKeyFacts DEF Passed
  <2> QED BY <1>3, <2>1 DEF PassStartsNext, Exists, At, NextKey
<1>4. ASSUME FailureLocks PROVE FailureLocks'
  <2> SUFFICES ASSUME LockBehavior = "lockOnFailure", operatorCalls' = 0, NEW k \in Key,
                      stage'[k].state = "Completed", ~ Passed(k)'
               PROVE  locked' \/ \E w \in Worker : worker'[w].key = k /\ At(w, {"lock"})'
    BY DEF FailureLocks
  <2>1. stage[k].state = "Completed" /\ ~ Passed(k)
    BY DEF Passed
  <2> QED BY <1>4, <2>1 DEF FailureLocks, At
<1> QED BY <1>1, <1>2, <1>3, <1>4 DEF FollowUpInv

LEMMA ChannelStepFollowUp ==
  ASSUME TypeInv, FollowUpInv, NEW k \in Key, NEW n \in JobName, NEW c \in Channel,
         AssignJob(k, n, c) \/ ReportVerdict(c, k, n)
  PROVE  FollowUpInv'
<1>0. c \in Worker /\ TypeOK
  BY DEF Worker, TypeInv
<1>1. CASE AssignJob(k, n, c)
  <2>1. UNCHANGED <<stage, worker, locked, crashes, operatorCalls>>
    BY <1>1 DEF AssignJob, bounds
  <2> QED BY <2>1, FollowUpFrame
<1>2. CASE ReportVerdict(c, k, n)
  <2>1. UNCHANGED <<stage, locked, crashes, operatorCalls>> /\ worker[c].at = "idle"
    BY <1>2 DEF ReportVerdict, rows, bounds
  <2>2. /\ worker'[c].key = k /\ worker'[c].seen = stage[k].result
        /\ \A v \in Worker \ {c} : worker'[v] = worker[v]
    BY <1>0, <1>2, WorkerLoads DEF ReportVerdict
  <2> QED BY <2>1, <2>2, FollowUpFrame
<1> QED BY <1>1, <1>2

LEMMA MonitorStepFollowUp ==
  ASSUME TypeInv, FollowUpInv, NEW m \in Monitor,
         \/ \E k \in Key, n \in JobName : PickQuietJob(m, k, n)
         \/ CancelQuietJob(m)
  PROVE  FollowUpInv'
<1>0. m \in Worker /\ TypeOK
  BY DEF Worker, TypeInv
<1>1. UNCHANGED <<stage, locked, crashes, operatorCalls>> /\ worker[m].at \in {"idle", "picked"}
  BY DEF PickQuietJob, CancelQuietJob, rows, bounds
<1>2. CASE \E k \in Key, n \in JobName : PickQuietJob(m, k, n)
  <2>1. worker'[m].at = "picked" /\ \A v \in Worker \ {m} : worker'[v] = worker[v]
    BY <1>0, <1>2, WorkerPicks
  <2> QED BY <1>1, <2>1, FollowUpFrame
<1>3. CASE CancelQuietJob(m)
  <2>1. worker[m].key \in Key
    BY <1>0, <1>3 DEF CancelQuietJob, TypeInv, WorkerFacts
  <2>2. /\ worker'[m].key = worker[m].key /\ worker'[m].seen = stage[worker[m].key].result
        /\ \A v \in Worker \ {m} : worker'[v] = worker[v]
    BY <1>0, <1>3, WorkerLoads DEF CancelQuietJob
  <2> QED BY <1>1, <2>1, <2>2, FollowUpFrame
<1> QED BY <1>2, <1>3

LEMMA CompleteStageFollowUp ==
  ASSUME TypeInv, FollowUpInv, NEW w \in Worker, CompleteStage(w)
  PROVE  FollowUpInv'
<1>0. PICK key \in Key, verdict \in {"Passed", "Failed"} :
        key = worker[w].key /\ verdict = worker[w].verdict
  BY CompleteStageEffect
<1>1. /\ stage'[key].state = "Completed"
      /\ stage'[key].result = IF verdict = worker[w].seen THEN stage[key].result ELSE verdict
      /\ \A m \in Key \ {key} : stage'[m] = stage[m]
      /\ worker' = IF verdict = "Passed"
                   THEN Goto(w, IF key[2] < NStages THEN "next" ELSE "downstream")
                   ELSE IF LockBehavior = "lockOnFailure" THEN Goto(w, "lock") ELSE Finish(w)
  BY <1>0, CompleteStageEffect
<1>2. /\ worker[w].at = "decided" /\ UNCHANGED <<locked, operatorCalls, crashes>>
      /\ worker[w].seen = "Unknown" \/ stage[key].state = "Completed"
  BY <1>0 DEF CompleteStage, bounds, FollowUpInv, SeenWhenCompleted
<1>3. /\ \A v \in Worker \ {w} : worker'[v] = worker[v]
      /\ worker'[w].at = "idle" \/ (worker'[w].key = key /\ worker'[w].seen = worker[w].seen)
      /\ verdict = "Passed" /\ key[2] < NStages => worker'[w].at = "next" /\ worker'[w].key = key
      /\ verdict = "Failed" /\ LockBehavior = "lockOnFailure" =>
           worker'[w].at = "lock" /\ worker'[w].key = key
  <2>1. TypeOK
    BY DEF TypeInv
  <2>2. CASE verdict = "Passed"
    <3>1. \E place : /\ worker' = Goto(w, place)
                     /\ key[2] < NStages => place = "next"
      BY <1>1, <2>2
    <3> QED BY <1>0, <2>1, <2>2, <3>1, WorkerMoves
  <2>3. CASE verdict = "Failed" /\ LockBehavior = "lockOnFailure"
    BY <1>0, <1>1, <2>1, <2>3, WorkerMoves
  <2>4. CASE verdict = "Failed" /\ LockBehavior # "lockOnFailure"
    BY <1>1, <2>1, <2>4, WorkerEnds
  <2> QED BY <2>2, <2>3, <2>4
<1>4. UndecidedUntilCompleted'
  BY <1>1 DEF FollowUpInv, UndecidedUntilCompleted
<1>5. SeenWhenCompleted'
  BY <1>0, <1>1, <1>2, <1>3 DEF FollowUpInv, SeenWhenCompleted, TypeInv, WorkerFacts
\* If the result stays as it was, the stage was complete and somebody else follows up.
<1>6. verdict = worker[w].seen => stage[key].state = "Completed"
  BY <1>2
<1>7. ASSUME PassStartsNext PROVE PassStartsNext'
  <2> SUFFICES ASSUME NEW k \in Key, Passed(k)', k[2] < NStages
               PROVE  \/ Exists(NextKey(k))'
                      \/ \E v \in Worker : worker'[v].key = k /\ At(v, {"next"})'
    BY DEF PassStartsNext
  <2>1. NextKey(k) \in Key
    BY NextKeyFacts
  <2>2. CASE k = key /\ verdict = "Passed"
    BY <1>3, <2>2 DEF At
  <2>3. CASE k # key \/ verdict # "Passed"
    <3>1. Passed(k)
      BY <1>1, <1>6, <2>3 DEF Passed
    <3>2. Exists(NextKey(k)) \/ \E v \in Worker : worker[v].key = k /\ At(v, {"next"})
      BY <1>7, <3>1 DEF PassStartsNext
    <3>3. Exists(NextKey(k)) => Exists(NextKey(k))'
      BY <1>1, <2>1 DEF Exists, NextKey
    <3> QED BY <1>2, <1>3, <3>2, <3>3 DEF At
  <2> QED BY <2>2, <2>3
<1>8. ASSUME FailureLocks PROVE FailureLocks'
  <2> SUFFICES ASSUME LockBehavior = "lockOnFailure", operatorCalls' = 0, NEW k \in Key,
                      stage'[k].state = "Completed", ~ Passed(k)'
               PROVE  locked' \/ \E v \in Worker : worker'[v].key = k /\ At(v, {"lock"})'
    BY DEF FailureLocks
  <2>1. CASE k = key /\ verdict = "Failed"
    BY <1>3, <2>1 DEF At
  <2>2. CASE k # key \/ verdict # "Failed"
    <3>1. stage[k].state = "Completed" /\ ~ Passed(k)
      BY <1>1, <1>6, <2>2 DEF Passed
    <3>2. locked \/ \E v \in Worker : worker[v].key = k /\ At(v, {"lock"})
      BY <1>2, <1>8, <3>1 DEF FailureLocks
    <3> QED BY <1>2, <1>3, <3>2 DEF At
  <2> QED BY <2>1, <2>2
<1> QED BY <1>2, <1>4, <1>5, <1>7, <1>8 DEF FollowUpInv

\* A stage instance is inserted by a process that has nothing else to follow up
\* than the stage before it.
LEMMA InsertFollowUp ==
  ASSUME TypeInv, FollowUpInv, NEW k \in Key, NEW names, InsertStage(k, names), ~ Exists(k),
         WorkersBelongToStages,
         \A w \in Worker : \/ worker'[w] = worker[w]
                           \/ /\ worker'[w].at = "idle"
                              /\ worker[w].at = "next" /\ k = NextKey(worker[w].key),
         UNCHANGED <<locked, operatorCalls, crashes>>
  PROVE  FollowUpInv'
<1>1. /\ stage'[k].state = "Building" /\ stage'[k].result = "Unknown"
      /\ \A m \in Key \ {k} : stage'[m] = stage[m]
  BY InsertEffect DEF TypeInv
<1>2. UndecidedUntilCompleted'
  BY <1>1 DEF FollowUpInv, UndecidedUntilCompleted
<1>3. SeenWhenCompleted'
  <2>1. \A w \in Worker : worker[w].at # "idle" =>
          worker[w].key \in Key /\ worker[w].key # k
    BY DEF WorkersBelongToStages, TypeInv, WorkerFacts
  <2> QED BY <1>1, <2>1 DEF FollowUpInv, SeenWhenCompleted
<1>4. ASSUME PassStartsNext PROVE PassStartsNext'
  <2> SUFFICES ASSUME NEW m \in Key, Passed(m)', m[2] < NStages
               PROVE  \/ Exists(NextKey(m))'
                      \/ \E w \in Worker : worker'[w].key = m /\ At(w, {"next"})'
    BY DEF PassStartsNext
  <2>1. NextKey(m) \in Key /\ Passed(m)
    BY <1>1, NextKeyFacts DEF Passed
  <2>2. Exists(NextKey(m)) \/ \E w \in Worker : worker[w].key = m /\ At(w, {"next"})
    BY <1>4, <2>1 DEF PassStartsNext
  <2>3. Exists(NextKey(m)) \/ NextKey(m) = k => Exists(NextKey(m))'
    BY <1>1, <2>1 DEF Exists, NextKey
  <2> QED BY <2>2, <2>3 DEF At
<1>5. ASSUME FailureLocks PROVE FailureLocks'
  <2> SUFFICES ASSUME LockBehavior = "lockOnFailure", operatorCalls' = 0, NEW m \in Key,
                      stage'[m].state = "Completed", ~ Passed(m)'
               PROVE  locked' \/ \E w \in Worker : worker'[w].key = m /\ At(w, {"lock"})'
    BY DEF FailureLocks
  <2>1. stage[m].state = "Completed" /\ ~ Passed(m)
    BY <1>1 DEF Passed
  <2> QED BY <1>5, <2>1 DEF FailureLocks, At
<1> QED BY <1>2, <1>3, <1>4, <1>5 DEF FollowUpInv

LEMMA WorkerStepFollowUp ==
  ASSUME TypeInv, WorkInv, FollowUpInv, NEW w \in Worker, WorkerStep(w) \/ Crash(w)
  PROVE  FollowUpInv'
<1>0. TypeOK
  BY DEF TypeInv
<1>1. CASE CompleteJob(w)
  <2>1. UNCHANGED <<stage, locked, crashes, operatorCalls>> /\ worker[w].at = "loaded"
    BY <1>1 DEF CompleteJob, bounds
  <2>2. /\ worker'[w].key = worker[w].key /\ worker'[w].seen = worker[w].seen
        /\ \A v \in Worker \ {w} : worker'[v] = worker[v]
    BY <1>0, <1>1, WorkerMoves DEF CompleteJob
  <2> QED BY <2>1, <2>2, FollowUpFrame
<1>2. CASE ReadJobs(w)
  <2>1. UNCHANGED <<stage, locked, crashes, operatorCalls>> /\ worker[w].at = "written"
    BY <1>2 DEF ReadJobs, rows, bounds
  <2>2. /\ \/ worker'[w].at = "idle"
           \/ worker'[w].key = worker[w].key /\ worker'[w].seen = worker[w].seen
        /\ \A v \in Worker \ {w} : worker'[v] = worker[v]
    BY <1>0, <1>2, WorkerReads
  <2> QED BY <2>1, <2>2, FollowUpFrame
<1>3. CASE CompleteStage(w)
  BY <1>3, CompleteStageFollowUp
<1>4. CASE TriggerNextStage(w)
  <2>1. PICK next \in Key : /\ InsertStage(next, JobsOf[next[2]]) /\ ~ Exists(next)
                            /\ next = NextKey(worker[w].key)
    BY <1>4, NextKeyFacts DEF TriggerNextStage, TypeInv, WorkerFacts
  <2>2. /\ worker[w].at = "next" /\ worker' = Finish(w)
        /\ UNCHANGED <<locked, crashes, operatorCalls>>
    BY <1>4 DEF TriggerNextStage, bounds
  <2>3. worker'[w].at = "idle" /\ \A v \in Worker \ {w} : worker'[v] = worker[v]
    BY <1>0, <2>2, WorkerEnds
  <2> QED BY <2>1, <2>2, <2>3, InsertFollowUp DEF WorkInv
<1>5. CASE NextStageExists(w) \/ LockPipeline(w)
  <2>1. /\ UNCHANGED <<stage, crashes, operatorCalls>> /\ worker' = Finish(w)
        /\ locked => locked'
        /\ \/ worker[w].at = "next" /\ Exists(NextKey(worker[w].key))
           \/ worker[w].at = "lock" /\ locked'
    BY <1>5 DEF NextStageExists, LockPipeline, rows, bounds
  <2>2. worker'[w].at = "idle" /\ \A v \in Worker \ {w} : worker'[v] = worker[v]
    BY <1>0, <2>1, WorkerEnds
  <2>3. UndecidedUntilCompleted' /\ SeenWhenCompleted'
    BY <2>1, <2>2 DEF FollowUpInv, UndecidedUntilCompleted, SeenWhenCompleted
  <2>4. ASSUME PassStartsNext PROVE PassStartsNext'
    BY <2>1, <2>2, <2>4 DEF PassStartsNext, Passed, Exists, At, NextKey
  <2>5. ASSUME FailureLocks PROVE FailureLocks'
    BY <2>1, <2>2, <2>5 DEF FailureLocks, Passed, At
  <2> QED BY <2>1, <2>3, <2>4, <2>5 DEF FollowUpInv
<1>6. CASE TriggerDownstreams(w)
  <2>1. /\ UNCHANGED <<stage, locked, crashes, operatorCalls>> /\ worker' = Finish(w)
        /\ worker[w].at = "downstream"
    BY <1>6 DEF TriggerDownstreams, bounds
  <2>2. worker'[w].at = "idle" /\ \A v \in Worker \ {w} : worker'[v] = worker[v]
    BY <1>0, <2>1, WorkerEnds
  <2> QED BY <2>1, <2>2, FollowUpFrame
<1>7. CASE Crash(w)
  <2>1. crashes' # 0 /\ UNCHANGED stage /\ worker' = Finish(w)
    BY <1>0, <1>7, Types DEF Crash, rows
  <2>2. worker'[w].at = "idle" /\ \A v \in Worker \ {w} : worker'[v] = worker[v]
    BY <1>0, <2>1, WorkerEnds
  <2> QED BY <2>1, <2>2 DEF FollowUpInv, UndecidedUntilCompleted, SeenWhenCompleted
<1> QED BY <1>1, <1>2, <1>3, <1>4, <1>5, <1>6, <1>7 DEF WorkerStep

LEMMA UserFollowUp ==
  ASSUME TypeInv, WorkInv, FollowUpInv, NEW u \in User, UserStep(u)
  PROVE  FollowUpInv'
<1>0. TypeOK /\ UNCHANGED <<worker, locked, operatorCalls, crashes>>
  BY DEF TypeInv, UserStep, CheckTrigger, ReadCounter, InsertRun, ReadLatestRun,
         MarkNotLatest, bounds, rows
<1>1. CASE UNCHANGED stage
  BY <1>0, <1>1, FollowUpFrame
<1>2. CASE MarkNotLatest(u)
  BY <1>0, <1>2, MarkEffect, FollowUpFrame
<1>3. CASE InsertRun(u) /\ ~ Exists(user[u].key)
  <2>1. PICK k \in Key : InsertStage(k, user[u].names) /\ ~ Exists(k)
    BY <1>3 DEF InsertRun, TypeInv, UserFacts
  <2> QED BY <1>0, <2>1, InsertFollowUp DEF WorkInv
<1>4. UNCHANGED stage \/ MarkNotLatest(u) \/ (InsertRun(u) /\ ~ Exists(user[u].key))
  BY DEF UserStep, CheckTrigger, ReadCounter, InsertRun, ReadLatestRun, rows
<1> QED BY <1>1, <1>2, <1>3, <1>4

LEMMA NextFollowUp == TypeInv /\ WorkInv /\ FollowUpInv /\ [Next]_vars => FollowUpInv'
<1>1. ASSUME TypeInv, FollowUpInv, SetPaused \/ Unlock \/ UNCHANGED vars
      PROVE  FollowUpInv'
  <2>1. UNCHANGED <<stage, worker, crashes>>
    BY <1>1 DEF SetPaused, Unlock, OperatorCall, vars, rows, bounds
  <2>2. operatorCalls' = 0 => operatorCalls = 0 /\ (locked => locked')
    BY <1>1, Types DEF SetPaused, Unlock, OperatorCall, vars, rows, bounds, TypeInv
  <2> QED BY <1>1, <2>1, <2>2, FollowUpFrame
<1> QED BY <1>1, ChannelStepFollowUp, MonitorStepFollowUp, WorkerStepFollowUp,
           UserFollowUp DEF Next

(***************************************************************************)
(* After a pass the next stage was started and after a failure the         *)
(* pipeline was locked, although agents and the monitor may write          *)
(* different results of the same stage one after the other.                *)
(***************************************************************************)
THEOREM CompletionsFollowedUp == Spec => []CompletionIsFollowedUp
<1>1. Init => TypeInv /\ WorkInv /\ FollowUpInv
  BY InitType, InitWork, InitFollowUp
<1>2. TypeInv /\ WorkInv /\ FollowUpInv /\ [Next]_vars => (TypeInv /\ WorkInv /\ FollowUpInv)'
  BY NextType, NextWork, NextFollowUp
<1>3. FollowUpInv => CompletionIsFollowedUp
  BY DEF FollowUpInv, PassStartsNext, FailureLocks, CompletionIsFollowedUp, At
<1> QED BY <1>1, <1>2, <1>3, PTL DEF Spec

-----------------------------------------------------------------------------
(* Without the monitor: verdicts match and stages run in order             *)

LEMMA InitOrder == Init => OrderInv
<1> SUFFICES ASSUME Init PROVE OrderInv
  OBVIOUS
<1>1. /\ \A k \in Key : stage[k].state = "None"
      /\ \A w \in Worker : worker[w].at = "idle"
  BY DEF Init, NoStage, IdleWorker
<1>2. \A k \in Key, n \in JobName : job[k][n].state = "None" /\ job[k][n].holder = NoAgent
  BY DEF Init, NoJob
<1>3. HeldUntilReported
  BY <1>2 DEF HeldUntilReported
<1> QED BY <1>1, <1>3
        DEF OrderInv, OneReporter, VerdictInv, DecidersAgree, StagesRunInOrder, At, Exists

\* Processes that finish, or whose next step is not recorded here.
LEMMA OrderFrame ==
  ASSUME TypeInv, OrderInv, UNCHANGED <<job, reported>>,
         \A k \in Key : stage'[k].state = stage[k].state /\ stage'[k].result = stage[k].result,
         \A w \in Worker : worker'[w] = worker[w] \/ worker'[w].at = "idle"
  PROVE  OrderInv'
<1>1. \A k \in Key : /\ AllJobsCompleted(k)' = AllJobsCompleted(k)
                     /\ Verdict(k)' = Verdict(k)
                     /\ Passed(k)' = Passed(k) /\ Exists(k)' = Exists(k)
  BY JobsFrame DEF Passed, Exists
<1>2. HeldUntilReported'
  BY DEF OrderInv, HeldUntilReported
<1>3. OneReporter'
  BY DEF OrderInv, OneReporter
<1>4. VerdictInv'
  BY <1>1 DEF OrderInv, VerdictInv
<1>5. DecidersAgree'
  BY <1>1 DEF OrderInv, DecidersAgree, At
<1>6. StagesRunInOrder'
  <2> SUFFICES ASSUME NEW k \in Key, Exists(k)', k[2] > 1
               PROVE  \E m \in 1..MaxAttempt :
                        LET before == <<k[1], k[2] - 1, m>>
                        IN  Passed(before)' /\ AllJobsCompleted(before)'
    BY DEF StagesRunInOrder
  <2>1. PICK m \in 1..MaxAttempt : /\ Passed(<<k[1], k[2] - 1, m>>)
                                   /\ AllJobsCompleted(<<k[1], k[2] - 1, m>>)
    BY <1>1 DEF OrderInv, StagesRunInOrder
  <2>2. <<k[1], k[2] - 1, m>> \in Key
    BY KeyFacts, StageAssumption DEF StageNo
  <2> QED BY <1>1, <2>1, <2>2
<1> QED BY <1>2, <1>3, <1>4, <1>5, <1>6 DEF OrderInv

LEMMA StageBeforeFacts ==
  ASSUME NEW k \in Key, k[2] > 1, NEW m \in 1..MaxAttempt
  PROVE  <<k[1], k[2] - 1, m>> \in Key
<1>1. k[2] - 1 \in StageNo
  BY KeyFacts, StageAssumption DEF StageNo
<1> QED BY <1>1, KeyFacts

\* A stage that has passed with all its jobs done stays so, and what runs after
\* it stays in order.
LEMMA OrderStays ==
  ASSUME OrderInv, \A k \in Key : Exists(k)' => Exists(k),
         \A k \in Key : Passed(k) /\ AllJobsCompleted(k) =>
           Passed(k)' /\ AllJobsCompleted(k)'
  PROVE  StagesRunInOrder'
<1> SUFFICES ASSUME NEW k \in Key, Exists(k)', k[2] > 1
             PROVE  \E m \in 1..MaxAttempt : /\ Passed(<<k[1], k[2] - 1, m>>)'
                                             /\ AllJobsCompleted(<<k[1], k[2] - 1, m>>)'
  BY DEF StagesRunInOrder
<1>1. PICK m \in 1..MaxAttempt : /\ Passed(<<k[1], k[2] - 1, m>>)
                                 /\ AllJobsCompleted(<<k[1], k[2] - 1, m>>)
  BY DEF OrderInv, StagesRunInOrder
<1> QED BY <1>1, StageBeforeFacts

\* One unfinished job of a stage changes.
LEMMA UnfinishedJobChanges ==
  ASSUME TypeInv, OrderInv, NEW k \in Key, NEW n \in JobName,
         job[k][n].state \in {"Scheduled", "Assigned"},
         \A m \in Key \ {k} : job'[m] = job[m], UNCHANGED stage
  PROVE  /\ stage[k].state # "Completed"
         /\ \A w \in Worker : worker[w].key = k =>
              ~ At(w, {"decided", "next", "lock", "downstream"})
         /\ VerdictInv'
         /\ \A m \in Key \ {k} : /\ AllJobsCompleted(m)' = AllJobsCompleted(m)
                                 /\ Verdict(m)' = Verdict(m)
         /\ \A m \in Key : Passed(m)' = Passed(m)
         /\ StagesRunInOrder'
<1>1. ~ AllJobsCompleted(k)
  BY UnfinishedJob
<1>2. stage[k].state # "Completed"
  BY <1>1 DEF OrderInv, VerdictInv
<1>3. \A w \in Worker : worker[w].key = k =>
        ~ At(w, {"decided", "next", "lock", "downstream"})
  BY <1>1 DEF OrderInv, DecidersAgree
<1>4. \A m \in Key \ {k} : /\ AllJobsCompleted(m)' = AllJobsCompleted(m)
                           /\ Verdict(m)' = Verdict(m)
  BY JobsFrame
<1>5. VerdictInv'
  BY <1>2, <1>4 DEF OrderInv, VerdictInv
<1>6. \A m \in Key : Passed(m)' = Passed(m) /\ Exists(m)' = Exists(m)
  BY DEF Passed, Exists
<1>7. StagesRunInOrder'
  BY <1>1, <1>4, <1>6, OrderStays
<1> QED BY <1>2, <1>3, <1>4, <1>5, <1>6, <1>7

LEMMA ChannelStepOrder ==
  ASSUME TypeInv, FollowUpInv, OrderInv, NEW k \in Key, NEW n \in JobName, NEW c \in Channel,
         AssignJob(k, n, c) \/ ReportVerdict(c, k, n)
  PROVE  OrderInv'
<1>0. c \in Worker /\ c # NoAgent /\ TypeOK
  BY ProcessAssumption DEF Worker, TypeInv
<1>1. CASE AssignJob(k, n, c)
  <2>1. UNCHANGED <<stage, worker, reported>> /\ job[k][n].state = "Scheduled"
    BY <1>1 DEF AssignJob
  <2>2. /\ job'[k][n].state = "Assigned"
        /\ \A i \in JobName \ {n} : job'[k][i] = job[k][i]
        /\ \A m \in Key \ {k} : job'[m] = job[m]
    BY <1>0, <1>1, AssignEffect
  <2>3. /\ \A w \in Worker : worker[w].key = k =>
             ~ At(w, {"decided", "next", "lock", "downstream"})
        /\ VerdictInv' /\ StagesRunInOrder'
        /\ \A m \in Key \ {k} : /\ AllJobsCompleted(m)' = AllJobsCompleted(m)
                                /\ Verdict(m)' = Verdict(m)
        /\ \A m \in Key : Passed(m)' = Passed(m)
    BY <2>1, <2>2, UnfinishedJobChanges
  <2>4. HeldUntilReported'
    <3> SUFFICES ASSUME NEW m \in Key, NEW i \in JobName
                 PROVE  /\ job'[m][i].holder # NoAgent =>
                             job'[m][i].state \in {"Assigned", "Completed"}
                        /\ job'[m][i].state = "Completed" => <<m, i>> \in reported
      BY <2>1 DEF HeldUntilReported
    <3>1. CASE m = k /\ i = n
      BY <2>2, <3>1
    <3>2. CASE ~ (m = k /\ i = n)
      <4>1. job'[m][i] = job[m][i]
        BY <2>2, <3>2
      <4> QED BY <4>1 DEF OrderInv, HeldUntilReported
    <3> QED BY <3>1, <3>2
  <2>5. OneReporter'
    <3>1. \A w \in Worker : worker[w].at = "loaded" =>
            worker[w].key \in Key /\ worker[w].name \in JobName
      BY DEF TypeInv, WorkerFacts
    <3>2. \A w \in Worker : worker[w].at = "loaded" =>
            job'[worker[w].key][worker[w].name].state = "Assigned"
      <4> SUFFICES ASSUME NEW w \in Worker, worker[w].at = "loaded",
                          NEW m \in Key, m = worker[w].key,
                          NEW i \in JobName, i = worker[w].name
                   PROVE  job'[m][i].state = "Assigned"
        BY <3>1
      <4>1. job[m][i].state = "Assigned"
        BY DEF OrderInv, OneReporter
      <4>2. (m = k /\ i = n) \/ job'[m][i] = job[m][i]
        BY <2>2
      <4> QED BY <2>2, <4>1, <4>2
    <3> QED BY <2>1, <3>2 DEF OrderInv, OneReporter
  <2>6. DecidersAgree'
    BY <2>1, <2>3 DEF OrderInv, DecidersAgree, At
  <2> QED BY <2>3, <2>4, <2>5, <2>6 DEF OrderInv
<1>2. CASE ReportVerdict(c, k, n)
  <2>1. /\ UNCHANGED <<stage, job>> /\ worker[c].at = "idle"
        /\ <<k, n>> \notin reported /\ reported' = reported \cup {<<k, n>>}
    BY <1>2 DEF ReportVerdict, rows
  <2>2. PICK result \in {"Passed", "Failed"} : Load(c, k, n, result)
    BY <1>2 DEF ReportVerdict
  <2>3. /\ worker'[c].at = "loaded" /\ worker'[c].key = k /\ worker'[c].name = n
        /\ worker'[c].result = result /\ worker'[c].seen = stage[k].result
        /\ \A v \in Worker \ {c} : worker'[v] = worker[v]
    BY <1>0, <2>2, WorkerLoads
  <2>4. job[k][n].state = "Assigned"
    BY <1>0, <1>2, <2>1 DEF ReportVerdict, OrderInv, HeldUntilReported
  <2>5. stage[k].result = "Unknown"
    <3>1. ~ AllJobsCompleted(k)
      BY <2>4, UnfinishedJob
    <3>2. stage[k].state # "Completed"
      BY <3>1 DEF OrderInv, VerdictInv
    <3> QED BY <3>2 DEF FollowUpInv, UndecidedUntilCompleted
  <2>6. \A m \in Key : /\ AllJobsCompleted(m)' = AllJobsCompleted(m)
                       /\ Verdict(m)' = Verdict(m)
                       /\ Passed(m)' = Passed(m) /\ Exists(m)' = Exists(m)
    BY <2>1, JobsFrame DEF Passed, Exists
  <2>7. HeldUntilReported'
    BY <2>1 DEF OrderInv, HeldUntilReported
  <2>8. OneReporter'
    <3>1. \A w \in Worker \ {c} : worker[w].at = "loaded" =>
            <<worker[w].key, worker[w].name>> # <<k, n>>
      BY <2>1 DEF OrderInv, OneReporter
    <3>2. \A w \in Worker \ {c} : worker[w].at = "loaded" =>
            ~ (worker[w].key = k /\ worker[w].name = n)
      BY <3>1
    <3> QED BY <2>1, <2>3, <2>4, <3>2 DEF OrderInv, OneReporter
  <2>9. VerdictInv'
    BY <2>1, <2>6 DEF OrderInv, VerdictInv
  <2>10. DecidersAgree'
    BY <2>3, <2>5, <2>6 DEF OrderInv, DecidersAgree, At
  <2>11. StagesRunInOrder'
    BY <2>6, OrderStays
  <2> QED BY <2>7, <2>8, <2>9, <2>10, <2>11 DEF OrderInv
<1> QED BY <1>1, <1>2

LEMMA CompleteJobOrder ==
  ASSUME TypeInv, OrderInv, NEW w \in Worker, CompleteJob(w)
  PROVE  OrderInv'
<1>1. PICK k \in Key, n \in JobName : k = worker[w].key /\ n = worker[w].name
  BY CompleteJobEffect
<1>2. /\ job'[k][n].state = "Completed"
      /\ job'[k][n].holder = job[k][n].holder
      /\ \A i \in JobName \ {n} : job'[k][i] = job[k][i]
      /\ \A m \in Key \ {k} : job'[m] = job[m]
  BY <1>1, CompleteJobEffect
<1>3. worker[w].at = "loaded" /\ UNCHANGED <<stage, reported>>
  BY DEF CompleteJob
<1>4. /\ worker'[w].at = "written" /\ worker'[w].seen = worker[w].seen
      /\ \A v \in Worker \ {w} : worker'[v] = worker[v]
  BY WorkerMoves DEF CompleteJob, TypeInv
<1>5. /\ job[k][n].state = "Assigned" /\ <<k, n>> \in reported
      /\ \A v \in Worker \ {w} : worker[v].at = "loaded" =>
           ~ (worker[v].key = k /\ worker[v].name = n)
  BY <1>1, <1>3 DEF OrderInv, OneReporter
<1>6. /\ \A v \in Worker : worker[v].key = k =>
           ~ At(v, {"decided", "next", "lock", "downstream"})
      /\ VerdictInv' /\ StagesRunInOrder'
      /\ \A m \in Key \ {k} : /\ AllJobsCompleted(m)' = AllJobsCompleted(m)
                              /\ Verdict(m)' = Verdict(m)
      /\ \A m \in Key : Passed(m)' = Passed(m)
  BY <1>2, <1>3, <1>5, UnfinishedJobChanges
<1>7. HeldUntilReported'
  <2> SUFFICES ASSUME NEW m \in Key, NEW i \in JobName
               PROVE  /\ job'[m][i].holder # NoAgent =>
                           job'[m][i].state \in {"Assigned", "Completed"}
                      /\ job'[m][i].state = "Completed" => <<m, i>> \in reported
    BY <1>3 DEF HeldUntilReported
  <2>1. CASE m = k /\ i = n
    BY <1>2, <1>5, <2>1
  <2>2. CASE ~ (m = k /\ i = n)
    <3>1. job'[m][i] = job[m][i]
      BY <1>2, <2>2
    <3> QED BY <3>1 DEF OrderInv, HeldUntilReported
  <2> QED BY <2>1, <2>2
<1>8. OneReporter'
  <2>1. \A v \in Worker : worker'[v].at = "loaded" =>
          v # w /\ worker[v].key \in Key /\ worker[v].name \in JobName
    BY <1>4 DEF TypeInv, WorkerFacts
  <2>2. \A v \in Worker \ {w} : worker[v].at = "loaded" =>
          job'[worker[v].key][worker[v].name] = job[worker[v].key][worker[v].name]
    BY <1>2, <1>4, <1>5, <2>1
  <2> QED BY <1>3, <1>4, <2>1, <2>2 DEF OrderInv, OneReporter
<1>9. DecidersAgree'
  BY <1>3, <1>4, <1>6 DEF OrderInv, DecidersAgree, At
<1> QED BY <1>6, <1>7, <1>8, <1>9 DEF OrderInv

LEMMA ReadJobsOrder ==
  ASSUME TypeInv, OrderInv, NEW w \in Worker, ReadJobs(w)
  PROVE  OrderInv'
<1>1. UNCHANGED <<stage, job, reported>> /\ worker[w].at = "written"
  BY DEF ReadJobs, rows
<1>2. PICK k \in Key : k = worker[w].key
  BY <1>1 DEF TypeInv, WorkerFacts
<1>3. /\ AllJobsCompleted(k) => /\ worker'[w].at = "decided" /\ worker'[w].key = k
                                /\ worker'[w].seen = worker[w].seen
                                /\ worker'[w].verdict = Verdict(k)
      /\ ~ AllJobsCompleted(k) => worker'[w].at = "idle"
      /\ \A v \in Worker \ {w} : worker'[v] = worker[v]
  BY <1>2, WorkerReads DEF TypeInv
<1>4. \A m \in Key : /\ AllJobsCompleted(m)' = AllJobsCompleted(m)
                     /\ Verdict(m)' = Verdict(m)
                     /\ Passed(m)' = Passed(m) /\ Exists(m)' = Exists(m)
  BY <1>1, JobsFrame DEF Passed, Exists
<1>5. HeldUntilReported'
  BY <1>1 DEF OrderInv, HeldUntilReported
<1>6. OneReporter'
  BY <1>1, <1>3 DEF OrderInv, OneReporter
<1>7. VerdictInv'
  BY <1>1, <1>4 DEF OrderInv, VerdictInv
<1>8. DecidersAgree'
  BY <1>1, <1>3, <1>4 DEF OrderInv, DecidersAgree, At
<1>9. StagesRunInOrder'
  BY <1>4, OrderStays
<1> QED BY <1>5, <1>6, <1>7, <1>8, <1>9 DEF OrderInv

LEMMA CompleteStageOrder ==
  ASSUME TypeInv, WorkInv, OrderInv, NEW w \in Worker, CompleteStage(w)
  PROVE  OrderInv'
<1>1. PICK k \in Key, verdict \in {"Passed", "Failed"} :
        k = worker[w].key /\ verdict = worker[w].verdict
  BY CompleteStageEffect
<1>2. worker[w].at = "decided" /\ UNCHANGED <<job, reported>>
  BY DEF CompleteStage
<1>3. AllJobsCompleted(k) /\ verdict = Verdict(k) /\ worker[w].seen = "Unknown"
  BY <1>1, <1>2 DEF OrderInv, DecidersAgree, At
<1>4. /\ stage'[k].state = "Completed" /\ stage'[k].result = verdict
      /\ \A m \in Key \ {k} : stage'[m] = stage[m]
      /\ worker' = IF verdict = "Passed"
                   THEN Goto(w, IF k[2] < NStages THEN "next" ELSE "downstream")
                   ELSE IF LockBehavior = "lockOnFailure" THEN Goto(w, "lock") ELSE Finish(w)
  BY <1>1, <1>3, CompleteStageEffect
<1>5. /\ \A v \in Worker \ {w} : worker'[v] = worker[v]
      /\ worker'[w].at \in {"idle", "next", "downstream", "lock"}
      /\ worker'[w].at \in {"next", "downstream"} => verdict = "Passed"
      /\ worker'[w].at # "idle" => /\ worker'[w].key = k /\ worker'[w].verdict = verdict
                                   /\ worker'[w].seen = "Unknown"
  <2>1. TypeOK
    BY DEF TypeInv
  <2>2. CASE verdict = "Passed"
    <3>1. \E place \in {"next", "downstream"} : worker' = Goto(w, place)
      BY <1>4, <2>2
    <3> QED BY <1>1, <1>3, <2>1, <2>2, <3>1, WorkerMoves
  <2>3. CASE verdict = "Failed" /\ LockBehavior = "lockOnFailure"
    <3>1. worker' = Goto(w, "lock")
      BY <1>4, <2>3
    <3>2. /\ worker'[w].at = "lock" /\ worker'[w].key = k /\ worker'[w].verdict = verdict
          /\ worker'[w].seen = "Unknown" /\ \A v \in Worker \ {w} : worker'[v] = worker[v]
      BY <1>1, <1>3, <2>1, <3>1, WorkerMoves
    <3> QED BY <2>3, <3>2
  <2>4. CASE verdict = "Failed" /\ LockBehavior # "lockOnFailure"
    BY <1>4, <2>1, <2>4, WorkerEnds
  <2> QED BY <2>2, <2>3, <2>4
<1>6. \A m \in Key : /\ AllJobsCompleted(m)' = AllJobsCompleted(m)
                     /\ Verdict(m)' = Verdict(m)
  BY <1>2, JobsFrame
<1>7. \A m \in Key : Passed(m) => Passed(m)'
  <2>1. Passed(k) => verdict = "Passed"
    BY <1>3 DEF OrderInv, VerdictInv, Passed
  <2> QED BY <1>4, <2>1 DEF Passed
<1>8. \A m \in Key : Exists(m)' => Exists(m)
  <2>1. Exists(k)
    BY <1>1, <1>2 DEF WorkInv, WorkersBelongToStages
  <2> QED BY <1>4, <2>1 DEF Exists
<1>9. HeldUntilReported'
  BY <1>2 DEF OrderInv, HeldUntilReported
<1>10. OneReporter'
  BY <1>2, <1>5 DEF OrderInv, OneReporter
<1>11. VerdictInv'
  BY <1>3, <1>4, <1>6 DEF OrderInv, VerdictInv
<1>12. DecidersAgree'
  <2> SUFFICES ASSUME NEW v \in Worker
               PROVE  /\ worker'[v].at # "picked"
                      /\ worker'[v].at # "idle" => worker'[v].seen = "Unknown"
                      /\ \A m \in Key : worker'[v].key = m =>
                           /\ At(v, {"decided", "next", "lock", "downstream"})' =>
                                AllJobsCompleted(m)' /\ worker'[v].verdict = Verdict(m)'
                           /\ At(v, {"next", "downstream"})' => Passed(m)'
    BY DEF DecidersAgree
  <2>1. CASE v = w
    BY <1>3, <1>4, <1>5, <1>6, <2>1 DEF At, Passed
  <2>2. CASE v # w
    BY <1>5, <1>6, <1>7, <2>2 DEF OrderInv, DecidersAgree, At
  <2> QED BY <2>1, <2>2
<1>13. StagesRunInOrder'
  BY <1>6, <1>7, <1>8, OrderStays
<1> QED BY <1>9, <1>10, <1>11, <1>12, <1>13 DEF OrderInv

\* A stage instance is inserted whose stage before has passed.
LEMMA InsertOrder ==
  ASSUME TypeInv, WorkInv, OrderInv, NEW k \in Key, NEW names, InsertStage(k, names),
         ~ Exists(k), UNCHANGED reported,
         \A w \in Worker : worker'[w] = worker[w] \/ worker'[w].at = "idle",
         k[2] > 1 => \E m \in 1..MaxAttempt : /\ Passed(<<k[1], k[2] - 1, m>>)
                                              /\ AllJobsCompleted(<<k[1], k[2] - 1, m>>)
  PROVE  OrderInv'
<1>1. /\ stage'[k].state = "Building"
      /\ \A m \in Key \ {k} : stage'[m] = stage[m] /\ job'[m] = job[m]
      /\ \A n \in JobName : job'[k][n].state \in {"None", "Scheduled"}
                            /\ job'[k][n].holder = NoAgent
  BY InsertEffect DEF TypeInv
<1>2. \A m \in Key \ {k} : /\ AllJobsCompleted(m)' = AllJobsCompleted(m)
                           /\ Verdict(m)' = Verdict(m)
                           /\ Passed(m)' = Passed(m) /\ Exists(m)' = Exists(m)
  BY <1>1, JobsFrame DEF Passed, Exists
<1>3. \A w \in Worker : worker'[w].at # "idle" =>
        worker'[w] = worker[w] /\ worker[w].key \in Key /\ worker[w].key # k
          /\ worker[w].name \in JobName
  BY DEF WorkInv, WorkersBelongToStages, TypeInv, WorkerFacts
<1>4. HeldUntilReported'
  BY <1>1 DEF OrderInv, HeldUntilReported
<1>5. OneReporter'
  BY <1>1, <1>3 DEF OrderInv, OneReporter
<1>6. VerdictInv'
  BY <1>1, <1>2 DEF OrderInv, VerdictInv
<1>7. DecidersAgree'
  BY <1>2, <1>3 DEF OrderInv, DecidersAgree, At
<1>8. StagesRunInOrder'
  <2> SUFFICES ASSUME NEW i \in Key, Exists(i)', i[2] > 1
               PROVE  \E m \in 1..MaxAttempt : /\ Passed(<<i[1], i[2] - 1, m>>)'
                                               /\ AllJobsCompleted(<<i[1], i[2] - 1, m>>)'
    BY DEF StagesRunInOrder
  <2>1. PICK m \in 1..MaxAttempt : /\ Passed(<<i[1], i[2] - 1, m>>)
                                   /\ AllJobsCompleted(<<i[1], i[2] - 1, m>>)
    BY <1>2 DEF OrderInv, StagesRunInOrder
  <2>2. <<i[1], i[2] - 1, m>> \in Key /\ <<i[1], i[2] - 1, m>> # k
    BY <2>1, StageBeforeFacts DEF Passed, Exists
  <2> QED BY <1>2, <2>1, <2>2
<1> QED BY <1>4, <1>5, <1>6, <1>7, <1>8 DEF OrderInv

LEMMA WorkerStepOrder ==
  ASSUME TypeInv, WorkInv, OrderInv, NEW w \in Worker, WorkerStep(w) \/ Crash(w)
  PROVE  OrderInv'
<1>1. CASE CompleteJob(w) \/ ReadJobs(w) \/ CompleteStage(w)
  BY <1>1, CompleteJobOrder, ReadJobsOrder, CompleteStageOrder
<1>2. CASE TriggerNextStage(w)
  <2>1. PICK next \in Key : /\ InsertStage(next, JobsOf[next[2]]) /\ ~ Exists(next)
                            /\ next = NextKey(worker[w].key)
    BY <1>2, NextKeyFacts DEF TriggerNextStage, TypeInv, WorkerFacts
  <2>2. worker[w].at = "next" /\ worker' = Finish(w) /\ UNCHANGED reported
    BY <1>2 DEF TriggerNextStage
  <2>3. worker'[w].at = "idle" /\ \A v \in Worker \ {w} : worker'[v] = worker[v]
    BY <2>2, WorkerEnds DEF TypeInv
  <2>4. PICK before \in Key : before = worker[w].key
    BY <2>2 DEF TypeInv, WorkerFacts
  <2>5. Passed(before) /\ AllJobsCompleted(before)
    BY <2>2, <2>4 DEF OrderInv, DecidersAgree, At
  <2>6. before[3] \in 1..MaxAttempt /\ before = <<next[1], next[2] - 1, before[3]>>
    BY <2>1, <2>4, KeyFacts DEF NextKey
  <2>7. \E m \in 1..MaxAttempt : /\ Passed(<<next[1], next[2] - 1, m>>)
                                 /\ AllJobsCompleted(<<next[1], next[2] - 1, m>>)
    BY <2>5, <2>6
  <2> QED BY <2>1, <2>2, <2>3, <2>7, InsertOrder
<1>3. CASE NextStageExists(w) \/ LockPipeline(w) \/ TriggerDownstreams(w) \/ Crash(w)
  <2>1. UNCHANGED <<stage, job, reported>> /\ worker' = Finish(w)
    BY <1>3 DEF NextStageExists, LockPipeline, TriggerDownstreams, Crash, rows
  <2>2. worker'[w].at = "idle" /\ \A v \in Worker \ {w} : worker'[v] = worker[v]
    BY <2>1, WorkerEnds DEF TypeInv
  <2> QED BY <2>1, <2>2, OrderFrame
<1> QED BY <1>1, <1>2, <1>3 DEF WorkerStep

LEMMA UserOrder ==
  ASSUME TypeInv, WorkInv, LatestInv, OrderInv, NEW u \in User, UserStep(u)
  PROVE  OrderInv'
<1>0. TypeOK /\ UNCHANGED <<worker, reported>>
  BY DEF TypeInv, UserStep, CheckTrigger, ReadCounter, InsertRun, ReadLatestRun,
         MarkNotLatest
<1>1. CASE UNCHANGED <<stage, job>>
  BY <1>0, <1>1, OrderFrame
<1>2. CASE MarkNotLatest(u)
  BY <1>0, <1>2, MarkEffect, OrderFrame DEF MarkNotLatest
<1>3. CASE InsertRun(u) /\ ~ Exists(user[u].key)
  <2>1. PICK k \in Key : InsertStage(k, user[u].names) /\ ~ Exists(k) /\ k = user[u].key
    BY <1>3 DEF InsertRun, TypeInv, UserFacts
  <2>2. \/ k[3] = 1 /\ k[2] = 1
        \/ k[3] > 1 /\ Exists(<<k[1], k[2], k[3] - 1>>)
    BY <1>3, <2>1 DEF InsertRun, LatestInv, RunBeforeExists
  <2>3. k[2] > 1 => \E m \in 1..MaxAttempt : /\ Passed(<<k[1], k[2] - 1, m>>)
                                             /\ AllJobsCompleted(<<k[1], k[2] - 1, m>>)
    <3> SUFFICES ASSUME k[2] > 1
                 PROVE  \E m \in 1..MaxAttempt : /\ Passed(<<k[1], k[2] - 1, m>>)
                                                 /\ AllJobsCompleted(<<k[1], k[2] - 1, m>>)
      OBVIOUS
    <3>1. PICK p \in Key : p[1] = k[1] /\ p[2] = k[2] /\ Exists(p)
      BY <2>2, RunBeforeFacts
    <3>2. \E m \in 1..MaxAttempt : /\ Passed(<<p[1], p[2] - 1, m>>)
                                   /\ AllJobsCompleted(<<p[1], p[2] - 1, m>>)
      BY <3>1 DEF OrderInv, StagesRunInOrder
    <3> QED BY <3>1, <3>2
  <2> QED BY <1>0, <2>1, <2>3, InsertOrder
<1>4. \/ UNCHANGED <<stage, job>>
      \/ MarkNotLatest(u)
      \/ InsertRun(u) /\ ~ Exists(user[u].key)
  BY DEF UserStep, CheckTrigger, ReadCounter, InsertRun, ReadLatestRun, rows
<1> QED BY <1>1, <1>2, <1>3, <1>4

AllInv == TypeInv /\ WorkInv /\ LatestInv /\ FollowUpInv

LEMMA NextOrder ==
  ASSUME Monitor = {}, AllInv, OrderInv, [Next]_vars
  PROVE  OrderInv'
<1>1. TypeInv /\ WorkInv /\ LatestInv /\ FollowUpInv
  BY DEF AllInv
<1>2. ASSUME SetPaused \/ Unlock \/ UNCHANGED vars
      PROVE  OrderInv'
  <2>1. UNCHANGED <<stage, job, worker, reported>>
    BY <1>2 DEF SetPaused, Unlock, OperatorCall, vars, rows
  <2> QED BY <1>1, <2>1, OrderFrame
<1> QED BY <1>1, <1>2, ChannelStepOrder, WorkerStepOrder, UserOrder DEF Next

-----------------------------------------------------------------------------
(* Theorems about the order of the stages and their verdicts.              *)

LEMMA InitAll == Init => AllInv
BY InitType, InitWork, InitLatest, InitFollowUp DEF AllInv

LEMMA NextAll == AllInv /\ [Next]_vars => AllInv'
BY NextType, NextWork, NextLatest, NextFollowUp DEF AllInv

(***************************************************************************)
(* A stage runs only if a run of the stage before it passed and its jobs   *)
(* are done, as long as only agents deliver verdicts.                      *)
(***************************************************************************)
THEOREM StagesInOrder ==
  ASSUME Monitor = {}
  PROVE  Spec => []StagesRunInOrder
<1>1. Init => AllInv /\ OrderInv
  BY InitAll, InitOrder
<1>2. AllInv /\ OrderInv /\ [Next]_vars => (AllInv /\ OrderInv)'
  BY NextAll, NextOrder
<1>3. OrderInv => StagesRunInOrder
  BY DEF OrderInv
<1> QED BY <1>1, <1>2, <1>3, PTL DEF Spec

(***************************************************************************)
(* A completed stage has failed if and only if one of its jobs has, as     *)
(* long as only agents deliver verdicts.                                   *)
(***************************************************************************)
THEOREM VerdictsMatchJobs ==
  ASSUME Monitor = {}
  PROVE  Spec => []VerdictMatchesJobs
<1>1. Init => AllInv /\ OrderInv
  BY InitAll, InitOrder
<1>2. AllInv /\ OrderInv /\ [Next]_vars => (AllInv /\ OrderInv)'
  BY NextAll, NextOrder
<1>3. OrderInv => VerdictMatchesJobs
  BY DEF OrderInv, VerdictInv, VerdictMatchesJobs
<1> QED BY <1>1, <1>2, <1>3, PTL DEF Spec

-----------------------------------------------------------------------------
(* An instance that has passed reaches the downstream pipeline.            *)

LEMMA InitPass == Init => PassTriggersDownstream
<1> SUFFICES ASSUME Init, NEW c \in 1..MaxCounter, \A s \in StageNo : Passed(<<c, s, 1>>)
             PROVE  FALSE
  BY DEF PassTriggersDownstream
<1>1. 1 \in StageNo /\ 1 \in 1..MaxAttempt
  BY StageAssumption, BoundAssumption DEF StageNo
<1>2. <<c, 1, 1>> \in Key
  BY <1>1, KeyFacts
<1>3. ~ Passed(<<c, 1, 1>>)
  BY <1>2 DEF Init, NoStage, Passed
<1> QED BY <1>1, <1>3

\* Nobody passes and nobody who was about to trigger is disturbed.
LEMMA PassFrame ==
  ASSUME PassTriggersDownstream, crashes' = crashes, UNCHANGED downstream,
         \A k \in Key : Exists(k) => Exists(k)',
         \A k \in Key : Passed(k)' => Passed(k),
         \A w \in Worker : worker[w].at = "downstream" => worker'[w] = worker[w]
  PROVE  PassTriggersDownstream'
<1>1. \A c \in 1..MaxCounter, s \in StageNo : <<c, s, 1>> \in Key
  BY KeyFacts, BoundAssumption
<1>2. \A c \in 1..MaxCounter : Rerun(c) => Rerun(c)'
  BY DEF Rerun
<1>3. \A c \in 1..MaxCounter :
        (\A s \in StageNo : Passed(<<c, s, 1>>)') => (\A s \in StageNo : Passed(<<c, s, 1>>))
  BY <1>1
<1> QED BY <1>2, <1>3 DEF PassTriggersDownstream, At

LEMMA CompleteStagePass ==
  ASSUME TypeInv, WorkInv, OrderInv, PassTriggersDownstream, NEW w \in Worker, CompleteStage(w)
  PROVE  PassTriggersDownstream'
<1>1. PICK k \in Key, verdict \in {"Passed", "Failed"} :
        k = worker[w].key /\ verdict = worker[w].verdict
  BY CompleteStageEffect
<1>2. worker[w].at = "decided" /\ UNCHANGED <<downstream, crashes>>
  BY DEF CompleteStage, bounds
<1>3. /\ stage'[k].state = "Completed"
      /\ \A m \in Key \ {k} : stage'[m] = stage[m]
      /\ worker' = IF verdict = "Passed"
                   THEN Goto(w, IF k[2] < NStages THEN "next" ELSE "downstream")
                   ELSE IF LockBehavior = "lockOnFailure" THEN Goto(w, "lock") ELSE Finish(w)
  BY <1>1, CompleteStageEffect
<1>4. Exists(k)
  BY <1>1, <1>2 DEF WorkInv, WorkersBelongToStages
<1>5. \A m \in Key : Exists(m)' = Exists(m)
  BY <1>3, <1>4 DEF Exists
<1>6. \A m \in Key \ {k} : Passed(m)' = Passed(m)
  BY <1>3 DEF Passed
<1>7. \A c \in 1..MaxCounter : Rerun(c)' = Rerun(c)
  BY <1>5 DEF Rerun
<1>8. \A v \in Worker : worker[v].at = "downstream" => worker'[v] = worker[v]
  <2>1. CASE verdict = "Passed"
    <3>1. \E place \in {"next", "downstream"} : worker' = Goto(w, place)
      BY <1>3, <2>1
    <3> QED BY <1>2, <3>1, WorkerMoves DEF TypeInv
  <2>2. CASE verdict = "Failed" /\ LockBehavior = "lockOnFailure"
    <3>1. worker' = Goto(w, "lock")
      BY <1>3, <2>2
    <3> QED BY <1>2, <3>1, WorkerMoves DEF TypeInv
  <2>3. CASE verdict = "Failed" /\ LockBehavior # "lockOnFailure"
    <3>1. worker' = Finish(w)
      BY <1>3, <2>3
    <3> QED BY <1>2, <3>1, WorkerEnds DEF TypeInv
  <2> QED BY <2>1, <2>2, <2>3
<1>9. CASE Passed(k)' => Passed(k)
  BY <1>2, <1>5, <1>6, <1>8, <1>9, PassFrame
<1>10. CASE Passed(k)' /\ ~ Passed(k)
  <2> SUFFICES ASSUME crashes' = 0, NEW c \in 1..MaxCounter,
                      \A s \in StageNo : Passed(<<c, s, 1>>)', ~ Rerun(c)
               PROVE  \/ \E d \in c..MaxCounter : downstream[d] > 0
                      \/ \E v \in Worker : At(v, {"downstream"})' /\ worker'[v].key[1] = c
    BY <1>2, <1>7 DEF PassTriggersDownstream
  <2>1. \A s \in StageNo : <<c, s, 1>> \in Key
    BY KeyFacts, BoundAssumption
  <2>2. CASE \A s \in StageNo : <<c, s, 1>> # k
    <3>1. \A s \in StageNo : Passed(<<c, s, 1>>)
      BY <1>6, <2>1, <2>2
    <3> QED BY <1>2, <1>8, <3>1 DEF PassTriggersDownstream, At
  <2>3. CASE \E s \in StageNo : <<c, s, 1>> = k
    <3>1. PICK s \in StageNo : <<c, s, 1>> = k
      BY <2>3
    <3>2. k[1] = c /\ k[2] = s /\ s \in Nat /\ s <= NStages /\ NStages \in Nat
      BY <3>1, StageAssumption DEF StageNo
    \* A later stage that has passed had this one before it.
    <3>3. ~ s < NStages
      <4> SUFFICES ASSUME s < NStages PROVE FALSE
        OBVIOUS
      <4> DEFINE later == <<c, s + 1, 1>>
      <4>1. s + 1 \in StageNo
        BY <3>2 DEF StageNo
      <4>2. later \in Key /\ later # k /\ later[1] = c /\ later[2] = s + 1
        BY <2>1, <3>1, <3>2, <4>1
      <4>3. Passed(later)
        BY <1>6, <4>1, <4>2
      <4>4. Exists(later) /\ later[2] > 1 /\ later[2] - 1 = s
        BY <3>2, <4>2, <4>3 DEF Passed, Exists, StageNo
      <4>5. PICK m \in 1..MaxAttempt : Passed(<<c, s, m>>)
        BY <4>2, <4>4 DEF OrderInv, StagesRunInOrder
      <4>6. <<c, s, m>> \in Key /\ Exists(<<c, s, m>>)
        BY <4>5, KeyFacts DEF Passed, Exists
      <4>7. m = 1
        BY <4>6, BoundAssumption DEF Rerun
      <4> QED BY <1>10, <3>1, <4>5, <4>7
    <3>4. verdict = "Passed"
      <4> SUFFICES ASSUME verdict = "Failed" PROVE FALSE
        OBVIOUS
      <4>1. worker[w].seen = "Unknown"
        BY <1>2 DEF OrderInv, DecidersAgree
      <4>2. stage'[k].result = "Failed"
        BY <1>1, <4>1, CompleteStageEffect
      <4> QED BY <1>10, <4>2 DEF Passed
    <3>5. worker' = Goto(w, "downstream")
      BY <1>3, <3>2, <3>3, <3>4
    <3>6. worker'[w].at = "downstream" /\ worker'[w].key = k
      BY <1>1, <3>5, WorkerMoves DEF TypeInv
    <3> QED BY <3>2, <3>6 DEF At
  <2> QED BY <2>2, <2>3
<1> QED BY <1>9, <1>10

\* The instance is there to be built from, although it may not be the latest.
LEMMA PassedInstance ==
  ASSUME NEW c \in 1..MaxCounter, \A s \in StageNo : Passed(<<c, s, 1>>), ~ Rerun(c)
  PROVE  c \in PassedInstances
<1>1. 1 \in StageNo /\ 1 \in 1..MaxAttempt
  BY StageAssumption, BoundAssumption DEF StageNo
<1>2. <<c, 1, 1>> \in Key /\ Exists(<<c, 1, 1>>)
  BY <1>1, KeyFacts DEF Passed, Exists
<1>3. ASSUME NEW k \in Key, k[1] = c, Exists(k)
      PROVE  Passed(k)
  <2>1. k[3] = 1
    BY <1>3, KeyFacts DEF Rerun
  <2>2. k = <<c, k[2], 1>> /\ k[2] \in StageNo
    BY <1>3, <2>1, KeyFacts DEF StageNo
  <2> QED BY <2>2
<1> QED BY <1>2, <1>3 DEF PassedInstances, InstanceExists

LEMMA TriggerDownstreamsPass ==
  ASSUME TypeInv, PassTriggersDownstream, NEW w \in Worker, TriggerDownstreams(w)
  PROVE  PassTriggersDownstream'
<1> SUFFICES ASSUME crashes = 0, NEW c \in 1..MaxCounter,
                    \A s \in StageNo : Passed(<<c, s, 1>>), ~ Rerun(c)
             PROVE  \/ \E d \in c..MaxCounter : downstream'[d] > 0
                    \/ \E v \in Worker : At(v, {"downstream"})' /\ worker'[v].key[1] = c
  BY DEF PassTriggersDownstream, TriggerDownstreams, bounds, Passed, Rerun, Exists
<1>1. PICK e \in PassedInstances : /\ \A d \in PassedInstances : d <= e
                                   /\ downstream' = [downstream EXCEPT ![e] = @ + 1]
  BY PassedInstance DEF TriggerDownstreams
<1>2. e \in 1..MaxCounter /\ c <= e
  BY <1>1, PassedInstance DEF PassedInstances
<1>3. downstream[e] \in Nat /\ downstream'[e] = downstream[e] + 1
  BY <1>1, <1>2, Types DEF TypeInv
<1> QED BY <1>2, <1>3

LEMMA InsertPass ==
  ASSUME TypeInv, PassTriggersDownstream, NEW k \in Key, NEW names, InsertStage(k, names),
         UNCHANGED <<crashes, downstream>>,
         \A w \in Worker : worker[w].at = "downstream" => worker'[w] = worker[w]
  PROVE  PassTriggersDownstream'
<1>1. /\ stage'[k].state = "Building"
      /\ \A m \in Key \ {k} : stage'[m] = stage[m]
  BY InsertEffect DEF TypeInv
<1>2. \A m \in Key : (Exists(m) => Exists(m)') /\ (Passed(m)' => Passed(m))
  BY <1>1 DEF Exists, Passed
<1> QED BY <1>2, PassFrame

LEMMA WorkerStepPass ==
  ASSUME TypeInv, WorkInv, OrderInv, PassTriggersDownstream, NEW w \in Worker,
         WorkerStep(w) \/ Crash(w)
  PROVE  PassTriggersDownstream'
<1>1. CASE CompleteStage(w) \/ TriggerDownstreams(w)
  BY <1>1, CompleteStagePass, TriggerDownstreamsPass
<1>2. CASE CompleteJob(w)
  <2>1. /\ UNCHANGED <<stage, crashes, downstream>> /\ worker[w].at = "loaded"
        /\ worker' = Goto(w, "written")
    BY <1>2 DEF CompleteJob, bounds
  <2>2. \A v \in Worker : worker[v].at = "downstream" => worker'[v] = worker[v]
    BY <2>1, WorkerMoves DEF TypeInv
  <2> QED BY <2>1, <2>2, PassFrame DEF Passed, Exists
<1>3. CASE ReadJobs(w)
  <2>1. UNCHANGED <<stage, crashes, downstream>> /\ worker[w].at = "written"
    BY <1>3 DEF ReadJobs, bounds, rows
  <2>2. \A v \in Worker : worker[v].at = "downstream" => worker'[v] = worker[v]
    BY <1>3, <2>1, WorkerReads DEF TypeInv
  <2> QED BY <2>1, <2>2, PassFrame DEF Passed, Exists
<1>4. CASE TriggerNextStage(w)
  <2>1. PICK next \in Key : InsertStage(next, JobsOf[next[2]])
    BY <1>4, NextKeyFacts DEF TriggerNextStage, TypeInv, WorkerFacts
  <2>2. /\ UNCHANGED <<crashes, downstream>> /\ worker[w].at = "next"
        /\ worker' = Finish(w)
    BY <1>4 DEF TriggerNextStage, bounds
  <2>3. \A v \in Worker : worker[v].at = "downstream" => worker'[v] = worker[v]
    BY <2>2, WorkerEnds DEF TypeInv
  <2> QED BY <2>1, <2>2, <2>3, InsertPass
<1>5. CASE NextStageExists(w) \/ LockPipeline(w)
  <2>1. /\ UNCHANGED <<stage, crashes, downstream>> /\ worker[w].at # "downstream"
        /\ worker' = Finish(w)
    BY <1>5 DEF NextStageExists, LockPipeline, bounds, rows
  <2>2. \A v \in Worker : worker[v].at = "downstream" => worker'[v] = worker[v]
    BY <2>1, WorkerEnds DEF TypeInv
  <2> QED BY <2>1, <2>2, PassFrame DEF Passed, Exists
<1>6. CASE Crash(w)
  <2>1. crashes' # 0
    BY <1>6, Types DEF Crash, TypeInv
  <2> QED BY <2>1 DEF PassTriggersDownstream
<1> QED BY <1>1, <1>2, <1>3, <1>4, <1>5, <1>6 DEF WorkerStep

LEMMA UserPass ==
  ASSUME TypeInv, PassTriggersDownstream, NEW u \in User, UserStep(u)
  PROVE  PassTriggersDownstream'
<1>0. TypeOK /\ UNCHANGED <<worker, downstream, crashes>>
  BY DEF TypeInv, UserStep, CheckTrigger, ReadCounter, InsertRun, ReadLatestRun,
         MarkNotLatest, rows, bounds
<1>1. CASE UNCHANGED stage
  BY <1>0, <1>1, PassFrame DEF Passed, Exists
<1>2. CASE MarkNotLatest(u)
  <2>1. \A k \in Key : Exists(k)' = Exists(k) /\ Passed(k)' = Passed(k)
    BY <1>0, <1>2, MarkEffect DEF Passed, Exists
  <2> QED BY <1>0, <2>1, PassFrame
<1>3. CASE InsertRun(u) /\ ~ Exists(user[u].key)
  <2>1. PICK k \in Key : InsertStage(k, user[u].names)
    BY <1>3 DEF InsertRun, TypeInv, UserFacts
  <2> QED BY <1>0, <2>1, InsertPass
<1>4. UNCHANGED stage \/ MarkNotLatest(u) \/ (InsertRun(u) /\ ~ Exists(user[u].key))
  BY DEF UserStep, CheckTrigger, ReadCounter, InsertRun, ReadLatestRun, rows
<1> QED BY <1>1, <1>2, <1>3, <1>4

LEMMA NextPass ==
  ASSUME Monitor = {}, AllInv, OrderInv, PassTriggersDownstream, [Next]_vars
  PROVE  PassTriggersDownstream'
<1>1. TypeInv /\ WorkInv
  BY DEF AllInv
<1>2. ASSUME NEW k \in Key, NEW n \in JobName, NEW c \in Channel,
             AssignJob(k, n, c) \/ ReportVerdict(c, k, n)
      PROVE  PassTriggersDownstream'
  <2>1. UNCHANGED <<stage, crashes, downstream>>
    BY <1>2 DEF AssignJob, ReportVerdict, rows, bounds
  <2>2. c \in Worker
    BY DEF Worker
  <2>3. \A v \in Worker : worker[v].at = "downstream" => worker'[v] = worker[v]
    <3>1. CASE AssignJob(k, n, c)
      BY <3>1 DEF AssignJob
    <3>2. CASE ReportVerdict(c, k, n)
      <4>1. PICK result : Load(c, k, n, result) /\ worker[c].at = "idle"
        BY <3>2 DEF ReportVerdict
      <4> QED BY <1>1, <2>2, <4>1, WorkerLoads DEF TypeInv
    <3> QED BY <1>2, <3>1, <3>2
  <2> QED BY <2>1, <2>3, PassFrame DEF Passed, Exists
<1>3. ASSUME SetPaused \/ Unlock \/ UNCHANGED vars
      PROVE  PassTriggersDownstream'
  <2>1. UNCHANGED <<stage, worker, downstream, crashes>>
    BY <1>3 DEF SetPaused, Unlock, OperatorCall, vars, rows, bounds
  <2> QED BY <2>1, PassFrame DEF Passed, Exists
<1> QED BY <1>1, <1>2, <1>3, WorkerStepPass, UserPass DEF Next

(***************************************************************************)
(* An instance that passed without reruns has been the reason for an       *)
(* instance of the downstream pipeline, at its counter or a later one, as  *)
(* long as only agents deliver verdicts.                                   *)
(***************************************************************************)
THEOREM PassesReachDownstream ==
  ASSUME Monitor = {}
  PROVE  Spec => []PassReachesDownstream
<1>1. Init => AllInv /\ OrderInv /\ PassTriggersDownstream
  BY InitAll, InitOrder, InitPass
<1>2. AllInv /\ OrderInv /\ PassTriggersDownstream /\ [Next]_vars =>
        (AllInv /\ OrderInv /\ PassTriggersDownstream)'
  BY NextAll, NextOrder, NextPass
<1>3. PassTriggersDownstream => PassReachesDownstream
  BY DEF PassTriggersDownstream, PassReachesDownstream, At
<1> QED BY <1>1, <1>2, <1>3, PTL DEF Spec
=============================================================================
