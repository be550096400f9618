---------------------------- MODULE MaterialFlow ----------------------------
(***************************************************************************)
(* How commits become pipeline instances: the material poller              *)
(* (lib/ex_gocd/materials/poller.ex), the agents' channels that trigger    *)
(* downstream pipelines and the users' pages all run trigger_pipeline      *)
(* (lib/ex_gocd/pipelines.ex), which reads one material after the other,   *)
(* has the fan-in resolver compare what it read                            *)
(* (lib/ex_gocd/pipelines/fan_in_resolver.ex), and inserts an instance.    *)
(*                                                                         *)
(* The configuration is fixed and has no cycles.  Of the completion of a   *)
(* stage this module has the last part: a process that has found all jobs  *)
(* done writes the verdict and acts on it, and others may do the same.     *)
(* StageProgress has the jobs, and the locks.                              *)
(***************************************************************************)
EXTENDS Naturals, Sequences, FiniteSets, Functions, SequencesExt

CONSTANTS
  NPipelines,
  Git,            \* git materials
  GitsOf,         \* git materials of each pipeline
  UpstreamsOf,    \* pipelines each pipeline depends on
  NStages,        \* number of stages of each pipeline
  Poller, User,   \* processes
  Channel,        \* processes that complete stages: agents' channels, the monitor
  MaxRevision,    \* bound on the commits of a repository
  MaxRuns,        \* bound on the runs of a stage
  MaxInputs       \* bound on pushes, triggers and reruns by users, pauses and
                  \* unpauses, and completions of what is complete

Pipeline == 1..NPipelines
Process == Poller \cup Channel \cup User

ASSUME GraphAssumption ==
  /\ NPipelines \in Nat \ {0}
  /\ Git \cap Pipeline = {}
  /\ GitsOf \in [Pipeline -> SUBSET Git]
  /\ \A p \in Pipeline : UpstreamsOf[p] \subseteq 1..(p - 1)
  /\ NStages \in [Pipeline -> Nat \ {0}]

ASSUME ProcessAssumption ==
  Poller \cap Channel = {} /\ Poller \cap User = {} /\ Channel \cap User = {}

ASSUME BoundAssumption ==
  MaxRevision \in Nat /\ MaxRuns \in Nat \ {0} /\ MaxInputs \in Nat

VARIABLES
  head,      \* the revision each branch points to, as git ls-remote says
  mods,      \* modifications rows, ordered by modified_time and id
  inst,      \* pipeline instances by counter, with the runs of their stages and
             \* their material revisions
  paused,    \* pipelines.paused
  proc,      \* progress of each process
  saved,     \* history: modifications the poller saved
  dropped,   \* history: pipelines that missed a trigger
  passes,    \* history: how often the last stage of a pipeline was passed
  rewritten, \* history: runs of stages that got a second verdict
  userTriggers,  \* history: number of triggers of a pipeline by users
  inputs
rows == <<mods, inst, paused>>
history == <<saved, dropped, passes, rewritten>>
counters == <<userTriggers, inputs>>
vars == <<head, rows, proc, history, counters>>

Commit == 1..MaxRevision
HEAD == MaxRevision + 1   \* "HEAD", recorded if git fails
Revision == Commit \cup {HEAD}

Materials(p) == GitsOf[p] \cup UpstreamsOf[p]
PipelinesOf(g) == {p \in Pipeline : g \in GitsOf[p]}
Downstreams(p) == {q \in Pipeline : p \in UpstreamsOf[q]}

\* A run of a stage of p: stage and stage counter.
RunsOf(p) == (1..NStages[p]) \X (1..MaxRuns)

Idle == [at |-> "idle", queue |-> {}, pipeline |-> 1, unread |-> {},
         proposed |-> <<>>, counter |-> 0, git |-> "none", rev |-> HEAD,
         known |-> 0, run |-> <<1, 1>>, seen |-> "None"]

\* A material may have been polled before, for pipelines that are not modelled.
Init ==
  /\ head \in [Git -> Commit]
  /\ mods \in [Git -> {[k \in 1..n |-> k] : n \in 0..MaxRevision}]
  /\ inst = [p \in Pipeline |-> <<>>]
  /\ paused = {}
  /\ proc = [x \in Process |-> Idle]
  /\ saved = {} /\ dropped = {}
  /\ passes = [p \in Pipeline |-> 0] /\ rewritten = {}
  /\ userTriggers = [p \in Pipeline |-> 0] /\ inputs = 0

-----------------------------------------------------------------------------
(* The fan-in resolver: the git revisions at the end of all paths          *)

LeavesOf[p \in Pipeline] ==
  [n \in DOMAIN inst[p] |->
     UNION {IF m \in Git THEN {<<m, inst[p][n].revs[m]>>}
            ELSE LeavesOf[m][inst[p][n].revs[m]] : m \in DOMAIN inst[p][n].revs}]

\* Mutant: only the git materials of the pipeline itself are compared.
DirectLeaves(proposed) == {<<m, proposed[m]>> : m \in DOMAIN proposed \cap Git}

Leaves(proposed) ==
  UNION {IF m \in Git THEN {<<m, proposed[m]>>} ELSE LeavesOf[m][proposed[m]] :
           m \in DOMAIN proposed}

Consistent(leaves) == \A l, k \in leaves : l[1] = k[1] => l = k

-----------------------------------------------------------------------------
(* trigger_pipeline, by any process x.  Its queue holds the pipelines that *)
(* are still to be triggered, in an order the database chooses.            *)

\* The process goes on to trigger these pipelines, and is idle without any.
Enqueue(x, pipelines) ==
  [proc EXCEPT ![x] = IF pipelines = {} THEN Idle
                      ELSE [Idle EXCEPT !.at = "trigger", !.queue = pipelines]]

NextTrigger(x) == Enqueue(x, proc[x].queue)

\* A pipeline that misses a trigger may keep all pipelines below it waiting.
Below[p \in Pipeline] ==
  Downstreams(p) \cup UNION {Below[q] : q \in Downstreams(p)}

Drop(ps) == dropped' = dropped \cup ps \cup UNION {Below[p] : p \in ps}

\* An exception ends the process, and with it the rest of its queue.
Raise(x) ==
  /\ proc' = [proc EXCEPT ![x] = Idle]
  /\ Drop(proc[x].queue \cup {proc[x].pipeline})
  /\ UNCHANGED <<head, rows, saved, passes, rewritten, counters>>

TakePipeline(x) ==
  /\ proc[x].at = "trigger"
  /\ \E p \in proc[x].queue \ paused :
       proc' = [proc EXCEPT ![x] =
         [Idle EXCEPT !.at = "read", !.queue = proc[x].queue \ {p}, !.pipeline = p,
                      !.unread = Materials(p)]]
  /\ UNCHANGED <<head, rows, history, counters>>

RefusePaused(x) ==
  /\ proc[x].at = "trigger"
  /\ \E p \in proc[x].queue \cap paused :
       /\ proc' = Enqueue(x, proc[x].queue \ {p})
       /\ Drop({p})
  /\ UNCHANGED <<head, rows, saved, passes, rewritten, counters>>

Propose(x, m, value) ==
  [proc EXCEPT ![x].at = "read",
               ![x].unread = @ \ {m},
               ![x].proposed = [k \in DOMAIN @ \cup {m} |-> IF k = m THEN value ELSE @[k]]]

ReadModification(x, g) ==
  /\ proc[x].at = "read" /\ g \in proc[x].unread \cap Git
  /\ mods[g] # <<>>
  /\ proc' = Propose(x, g, Last(mods[g]))
  /\ UNCHANGED <<head, rows, history, counters>>

\* No modification yet: get_or_create_latest_modification asks git ...
AskGit(x, g) ==
  /\ proc[x].at = "read" /\ g \in proc[x].unread \cap Git
  /\ mods[g] = <<>>
  /\ \E rev \in {head[g], HEAD} :
       proc' = [proc EXCEPT ![x].at = "create", ![x].git = g, ![x].rev = rev]
  /\ UNCHANGED <<head, rows, history, counters>>

\* ... and records the answer,
CreateModification(x) ==
  /\ proc[x].at = "create"
  /\ LET g == proc[x].git  rev == proc[x].rev IN
       /\ rev \notin Range(mods[g])
       /\ mods' = [mods EXCEPT ![g] = Append(@, rev)]
       /\ proc' = Propose(x, g, rev)
  /\ UNCHANGED <<head, inst, paused, history, counters>>

\* unless somebody else has: {:ok, mod} does not match then.
CreateRaises(x) ==
  /\ proc[x].at = "create"
  /\ proc[x].rev \in Range(mods[proc[x].git])
  /\ Raise(x)

\* Every run of a stage that there is by now has passed, earlier runs included.
\* So has, for the moment, one whose next stage is yet to be inserted.
LooksPassed(i) == \A k \in DOMAIN i.runs : i.runs[k] \in {"None", "Passed"}

PassedCounters(p) == {n \in DOMAIN inst[p] : LooksPassed(inst[p][n])}

\* Mutant: the latest instance, passed or not.
ReadLatestInstance(x, u) ==
  /\ proc[x].at = "read" /\ u \in proc[x].unread \cap Pipeline
  /\ proc' = IF inst[u] # <<>>
             THEN Propose(x, u, Len(inst[u])) ELSE NextTrigger(x)
  /\ UNCHANGED <<head, rows, history, counters>>

\* get_latest_passed_instance; without one the trigger is refused.
ReadUpstream(x, u) ==
  /\ proc[x].at = "read" /\ u \in proc[x].unread \cap Pipeline
  /\ \/ /\ PassedCounters(u) = {}
        /\ proc' = NextTrigger(x)
     \/ \E n \in PassedCounters(u) :
          /\ \A k \in PassedCounters(u) : k <= n
          /\ proc' = Propose(x, u, n)
  /\ UNCHANGED <<head, rows, history, counters>>

\* Mutant: a pipeline is built although a material has no revision yet.
VerifyPartly(x) ==
  /\ proc[x].at = "read"
  /\ proc' = IF Consistent(Leaves(proc[x].proposed))
             THEN [proc EXCEPT ![x].at = "insert",
                               ![x].counter = Len(inst[proc[x].pipeline]) + 1]
             ELSE NextTrigger(x)
  /\ UNCHANGED <<head, rows, history, counters>>

\* verify_consistency, then next_counter.
Verify(x) ==
  /\ proc[x].at = "read" /\ proc[x].unread = {}
  /\ proc' = IF Consistent(Leaves(proc[x].proposed))
             THEN [proc EXCEPT ![x].at = "insert",
                               ![x].counter = Len(inst[proc[x].pipeline]) + 1]
             ELSE NextTrigger(x)
  /\ UNCHANGED <<head, rows, history, counters>>

InsertInstance(x) ==
  /\ proc[x].at = "insert"
  /\ LET p == proc[x].pipeline IN
       /\ proc[x].counter = Len(inst[p]) + 1
       /\ inst' = [inst EXCEPT ![p] =
            Append(@, [runs |-> [k \in RunsOf(p) |-> IF k = <<1, 1>> THEN "Building" ELSE "None"],
                       revs |-> proc[x].proposed])]
  /\ proc' = NextTrigger(x)
  /\ UNCHANGED <<head, mods, paused, history, counters>>

\* Somebody else took the counter: insert! raises.
InsertRaises(x) ==
  /\ proc[x].at = "insert"
  /\ proc[x].counter # Len(inst[proc[x].pipeline]) + 1
  /\ Raise(x)

-----------------------------------------------------------------------------
(* The poller                                                              *)

\* git ls-remote; the answer carries the time, and so sorts after what is known now.
AskLatestRevision(x, g) ==
  /\ proc[x].at = "idle"
  /\ proc' = [proc EXCEPT ![x] =
       [Idle EXCEPT !.at = "compare", !.git = g, !.rev = head[g], !.known = Len(mods[g])]]
  /\ UNCHANGED <<head, rows, history, counters>>

CompareRevision(x) ==
  /\ proc[x].at = "compare"
  /\ LET known == mods[proc[x].git] IN
       proc' = IF known = <<>> \/ Last(known) # proc[x].rev
               THEN [proc EXCEPT ![x].at = "save"] ELSE [proc EXCEPT ![x] = Idle]
  /\ UNCHANGED <<head, rows, history, counters>>

\* A row recorded since git was asked may have a later time than this one.
Record(x, g, rev) ==
  \E k \in proc[x].known..Len(mods[g]) : mods' = [mods EXCEPT ![g] = InsertAt(@, k + 1, rev)]

\* Mutants: the pipelines are triggered even if the revision is recorded already;
\* one pipeline is triggered and the others are left to its downstreams.
SaveOrTrigger(x) ==
  /\ proc[x].at = "save"
  /\ LET g == proc[x].git  rev == proc[x].rev IN
       /\ IF rev \in Range(mods[g]) THEN UNCHANGED mods ELSE Record(x, g, rev)
       /\ saved' = saved \cup {<<g, rev>>}
       /\ proc' = Enqueue(x, PipelinesOf(g))
  /\ UNCHANGED <<head, inst, paused, dropped, passes, rewritten, counters>>

SaveAndTriggerFirst(x) ==
  /\ proc[x].at = "save"
  /\ LET g == proc[x].git  rev == proc[x].rev IN
       /\ rev \notin Range(mods[g])
       /\ Record(x, g, rev)
       /\ saved' = saved \cup {<<g, rev>>}
       /\ \E p \in PipelinesOf(g) : proc' = Enqueue(x, {p})
  /\ UNCHANGED <<head, inst, paused, dropped, passes, rewritten, counters>>

\* create_modification, and on to the pipelines of the material.
SaveModification(x) ==
  /\ proc[x].at = "save"
  /\ LET g == proc[x].git  rev == proc[x].rev IN
       /\ rev \notin Range(mods[g])
       /\ Record(x, g, rev)
       /\ saved' = saved \cup {<<g, rev>>}
       /\ proc' = Enqueue(x, PipelinesOf(g))
  /\ UNCHANGED <<head, inst, paused, dropped, passes, rewritten, counters>>

\* The revision was recorded before, by a user's trigger or before the branch was
\* reset to it: save_failed, and nothing is triggered.
SaveFails(x) ==
  /\ proc[x].at = "save"
  /\ proc[x].rev \in Range(mods[proc[x].git])
  /\ proc' = [proc EXCEPT ![x] = Idle]
  /\ UNCHANGED <<head, rows, history, counters>>

-----------------------------------------------------------------------------
(* Completions.  Several processes may complete the same run of a stage.   *)

Input ==
  /\ inputs < MaxInputs
  /\ inputs' = inputs + 1

Load(x, p, n, k) ==
  proc' = [proc EXCEPT ![x] =
    [Idle EXCEPT !.at = "complete", !.pipeline = p, !.counter = n, !.run = k,
                 !.seen = inst[p][n].runs[k]]]

\* A process loads the stage, and will find that all of its jobs are complete.
StartCompletion(x, p, n, k) ==
  /\ proc[x].at = "idle"
  /\ inst[p][n].runs[k] = "Building"
  /\ Load(x, p, n, k)
  /\ UNCHANGED <<head, rows, history, counters>>

\* The monitor has an old list of runs, or an agent reports late.
StartLateCompletion(x, p, n, k) ==
  /\ proc[x].at = "idle"
  /\ inst[p][n].runs[k] \in {"Passed", "Failed"}
  /\ Input
  /\ Load(x, p, n, k)
  /\ UNCHANGED <<head, rows, history, userTriggers>>

\* do_complete_stage: the changeset writes a result only if it differs from the
\* one that was loaded.
WriteVerdict(x, verdict) ==
  LET p == proc[x].pipeline  n == proc[x].counter  k == proc[x].run IN
    /\ inst' = [inst EXCEPT ![p][n].runs[k] = IF verdict = proc[x].seen THEN @ ELSE verdict]
    /\ rewritten' = IF inst[p][n].runs[k] = "Building" THEN rewritten
                    ELSE rewritten \cup {<<p, n, k>>}

FailStage(x) ==
  /\ proc[x].at = "complete"
  /\ WriteVerdict(x, "Failed")
  /\ proc' = [proc EXCEPT ![x] = Idle]
  /\ Drop(Downstreams(proc[x].pipeline))
  /\ UNCHANGED <<head, mods, paused, saved, passes, counters>>

\* Mutant: every stage that passes triggers what is downstream.
PassAnyStage(x) ==
  /\ proc[x].at = "complete"
  /\ proc[x].run[1] < NStages[proc[x].pipeline]
  /\ WriteVerdict(x, "Passed")
  /\ proc' = Enqueue(x, Downstreams(proc[x].pipeline))
  /\ UNCHANGED <<head, mods, paused, saved, dropped, passes, counters>>

PassStage(x) ==
  /\ proc[x].at = "complete"
  /\ proc[x].run[1] < NStages[proc[x].pipeline]
  /\ WriteVerdict(x, "Passed")
  /\ proc' = [proc EXCEPT ![x].at = "next"]
  /\ UNCHANGED <<head, mods, paused, saved, dropped, passes, counters>>

\* check_and_trigger_downstreams: whoever passes the last stage triggers.
PassLastStage(x) ==
  /\ proc[x].at = "complete"
  /\ LET p == proc[x].pipeline IN
       /\ proc[x].run[1] = NStages[p]
       /\ WriteVerdict(x, "Passed")
       /\ proc' = Enqueue(x, Downstreams(p))
       /\ passes' = [passes EXCEPT ![p] = @ + 1]
  /\ UNCHANGED <<head, mods, paused, saved, dropped, counters>>

NextRun(k) == <<k[1] + 1, 1>>

InsertNextStage(x) ==
  /\ proc[x].at = "next"
  /\ LET p == proc[x].pipeline  n == proc[x].counter  next == NextRun(proc[x].run) IN
       /\ inst[p][n].runs[next] = "None"
       /\ inst' = [inst EXCEPT ![p][n].runs[next] = "Building"]
  /\ proc' = [proc EXCEPT ![x] = Idle]
  /\ UNCHANGED <<head, mods, paused, history, counters>>

\* Somebody has started the next stage before: insert! raises.  After a rerun of
\* an earlier stage nobody triggers what is downstream.
NextStageRaises(x) ==
  /\ proc[x].at = "next"
  /\ LET p == proc[x].pipeline IN
       /\ inst[p][proc[x].counter].runs[NextRun(proc[x].run)] # "None"
       /\ Drop(Downstreams(p))
  /\ proc' = [proc EXCEPT ![x] = Idle]
  /\ UNCHANGED <<head, rows, saved, passes, rewritten, counters>>

-----------------------------------------------------------------------------
(* Users and repositories                                                  *)

\* rerun_stage: one more run of a stage that has been run.
RerunStage(p, n, s) ==
  /\ Input
  /\ \E r \in 1..(MaxRuns - 1) :
       /\ inst[p][n].runs[<<s, r>>] # "None" /\ inst[p][n].runs[<<s, r + 1>>] = "None"
       /\ inst' = [inst EXCEPT ![p][n].runs[<<s, r + 1>>] = "Building"]
  /\ UNCHANGED <<head, mods, paused, proc, history, userTriggers>>

UserTriggers(x, p) ==
  /\ proc[x].at = "idle"
  /\ Input
  /\ userTriggers' = [userTriggers EXCEPT ![p] = @ + 1]
  /\ proc' = Enqueue(x, {p})
  /\ UNCHANGED <<head, rows, history>>

SetPaused(p) ==
  /\ Input
  /\ paused' \in {paused \cup {p}, paused \ {p}}
  /\ UNCHANGED <<head, mods, inst, proc, history, userTriggers>>

\* A push of a new revision, or one that resets the branch to an earlier one.
Push(g) ==
  /\ Input
  /\ \E rev \in Commit : rev # head[g] /\ head' = [head EXCEPT ![g] = rev]
  /\ UNCHANGED <<rows, proc, history, userTriggers>>

-----------------------------------------------------------------------------
TriggerStep(x) ==
  \/ TakePipeline(x) \/ RefusePaused(x)
  \/ \E g \in Git : ReadModification(x, g) \/ AskGit(x, g)
  \/ CreateModification(x) \/ CreateRaises(x)
  \/ \E u \in Pipeline : ReadUpstream(x, u)
  \/ Verify(x) \/ InsertInstance(x) \/ InsertRaises(x)

ChannelStep(x) ==
  \/ FailStage(x) \/ PassStage(x) \/ PassLastStage(x)
  \/ InsertNextStage(x) \/ NextStageRaises(x)

PollerStep(x) == CompareRevision(x) \/ SaveModification(x) \/ SaveFails(x)

Next ==
  \/ \E x \in Process : TriggerStep(x)
  \/ \E x \in Poller : PollerStep(x) \/ \E g \in Git : AskLatestRevision(x, g)
  \/ \E x \in Channel : ChannelStep(x)
  \/ \E p \in Pipeline : \E n \in DOMAIN inst[p] :
       \/ \E x \in Channel, k \in RunsOf(p) :
            StartCompletion(x, p, n, k) \/ StartLateCompletion(x, p, n, k)
       \/ \E s \in 1..NStages[p] : RerunStage(p, n, s)
  \/ \E x \in User, p \in Pipeline : UserTriggers(x, p)
  \/ \E p \in Pipeline : SetPaused(p)
  \/ \E g \in Git : Push(g)

Spec == Init /\ [][Next]_vars

\* The poll timer fires again and again, stages end, and processes run.
Completes(p) ==
  \E x \in Channel, k \in RunsOf(p) : \E n \in DOMAIN inst[p] : StartCompletion(x, p, n, k)

Fairness ==
  /\ \A x \in Process : WF_vars(TriggerStep(x))
  /\ \A x \in Channel : WF_vars(ChannelStep(x))
  /\ \A x \in Poller : WF_vars(PollerStep(x)) /\ \A g \in Git : WF_vars(AskLatestRevision(x, g))
  /\ \A p \in Pipeline : SF_vars(Completes(p))

FairSpec == Spec /\ Fairness

-----------------------------------------------------------------------------
(* Properties                                                              *)

\* Every variable holds a value the rows and the processes can have.
TypeOK ==
  /\ head \in [Git -> Commit]
  /\ mods \in [Git -> Seq(Revision)]
  /\ \A p \in Pipeline : \A n \in DOMAIN inst[p] :
       /\ inst[p][n].runs \in [RunsOf(p) -> {"None", "Building", "Passed", "Failed"}]
       /\ DOMAIN inst[p][n].revs = Materials(p)
       /\ \A g \in GitsOf[p] : inst[p][n].revs[g] \in Revision
       /\ \A u \in UpstreamsOf[p] : inst[p][n].revs[u] \in DOMAIN inst[u]
  /\ paused \subseteq Pipeline /\ dropped \subseteq Pipeline
  /\ saved \subseteq Git \X Commit
  /\ passes \in [Pipeline -> Nat]
  /\ \A x \in Process :
       /\ proc[x].at \in {"idle", "compare", "save", "trigger", "read", "create", "insert",
                          "complete", "next"}
       /\ proc[x].queue \subseteq Pipeline
       /\ proc[x].pipeline \in Pipeline
  /\ inputs \in 0..MaxInputs /\ userTriggers \in [Pipeline -> 0..inputs]

(***************************************************************************)
(* All paths from an instance to a git material end at the same revision,  *)
(* although its materials were read one after the other while commits      *)
(* were recorded and upstream instances passed.                            *)
(***************************************************************************)
FanInConsistent ==
  \A p \in Pipeline : \A n \in DOMAIN inst[p] : Consistent(LeavesOf[p][n])

(***************************************************************************)
(* Nothing is built from an instance that has only begun: every upstream   *)
(* instance got through its first stage, however late the insert comes     *)
(* after the read; unless several processes gave that stage a verdict.     *)
(* More would be false.  get_latest_passed_instance takes an instance      *)
(* between two stages for one that has passed, and the next stage may      *)
(* fail; a rerun may fail, too.                                            *)
(***************************************************************************)
BuiltFromPassed ==
  \A p \in Pipeline : \A n \in DOMAIN inst[p] : \A u \in UpstreamsOf[p] :
    LET m == inst[p][n].revs[u] IN
      inst[u][m].runs[<<1, 1>>] = "Passed" \/ <<u, m, <<1, 1>>>> \in rewritten

(***************************************************************************)
(* A pipeline is not triggered without a cause: it has no more instances   *)
(* than there are saved commits, calls of users, and processes that passed *)
(* the last stage of a pipeline upstream.  (Not: instances that passed     *)
(* upstream.  Two processes may both pass one, and each of them triggers,  *)
(* as does a rerun.)  A branch that was reset makes every poll see a       *)
(* change.                                                                 *)
(***************************************************************************)
SavedFor(p) == {c \in saved : c[1] \in GitsOf[p]}
PassesFor(p) == UNION {{u} \X (1..passes[u]) : u \in UpstreamsOf[p]}

Causes(p) == userTriggers[p] + Cardinality(SavedFor(p)) + Cardinality(PassesFor(p))

NoSpuriousBuild == \A p \in Pipeline : Len(inst[p]) <= Causes(p)

(***************************************************************************)
(* A commit the poller saved is built by every pipeline of its material,   *)
(* or a later one is: also by a pipeline that is refused at first, because *)
(* what is upstream of it has not passed with that commit.  Unless the     *)
(* pipeline missed a trigger; and a user's trigger that overlaps with the  *)
(* poller may leave an older revision, or "HEAD", as the newest one.       *)
(***************************************************************************)
Built(p, g, rev) ==
  \E n \in DOMAIN inst[p] :
    SelectInSeq(mods[g], LAMBDA r : r = inst[p][n].revs[g])
      >= SelectInSeq(mods[g], LAMBDA r : r = rev)

SavedCommitIsBuilt ==
  \A g \in Git, rev \in Commit : \A p \in PipelinesOf(g) :
    <<g, rev>> \in saved ~>
      Built(p, g, rev) \/ p \in dropped \/ \E q \in Pipeline : userTriggers[q] > 0
=============================================================================
