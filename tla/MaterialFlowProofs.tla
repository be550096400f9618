------------------------- MODULE MaterialFlowProofs -------------------------
(***************************************************************************)
(* Proofs about MaterialFlow, for every acyclic configuration, every set   *)
(* of processes and every bound.                                           *)
(*                                                                         *)
(*   - FlowTypeCorrect: every state is well typed, and instances and       *)
(*     processes have the revisions they need;                             *)
(*   - NothingBuiltTooEarly: upstream instances got through their first    *)
(*     stage;                                                              *)
(*   - FanInAgrees: all paths to a git material end at one revision;       *)
(*   - BuildsHaveCauses: instances are counted against what caused them.   *)
(*                                                                         *)
(* Below and LeavesOf recurse over the pipelines.  What they are is proved *)
(* by taking the first, or the last, pipeline of which it does not hold:   *)
(* LeastNat.                                                               *)
(***************************************************************************)
EXTENDS MaterialFlow, SequenceTheorems, WellFoundedInduction,
        FiniteSetTheorems, TLAPS

-----------------------------------------------------------------------------
(* What is read and recorded.                                              *)

\* Revisions of git materials and counters of pipelines.
Revisions == UNION {[D -> Nat] : D \in SUBSET (Git \cup Pipeline)}

RunState == {"None", "Building", "Passed", "Failed"}

Instance == [runs: UNION {[RunsOf(p) -> RunState] : p \in Pipeline}, revs: Revisions]

FirstRun == <<1, 1>>

ProcState ==
  [at: {"idle", "compare", "save", "trigger", "read", "create", "insert",
        "complete", "next"},
   queue: SUBSET Pipeline, pipeline: Pipeline, unread: SUBSET (Git \cup Pipeline),
   proposed: Revisions, counter: Nat, git: Git \cup {"none"}, rev: Revision,
   known: Nat, run: (Nat \ {0}) \X Nat, seen: RunState]

\* The instances that got through their first stage: they stay among them.
Begun(p) ==
  {n \in DOMAIN inst[p] : \/ inst[p][n].runs[FirstRun] = "Passed"
                          \/ <<p, n, FirstRun>> \in rewritten}

\* Exactly these materials have a revision, and upstream ones have begun.
Sound(revs, materials) ==
  /\ DOMAIN revs = materials
  /\ \A g \in materials \cap Git : revs[g] \in Revision
  /\ \A u \in materials \cap Pipeline : revs[u] \in Begun(u)

RunsTyped(i, p) == i.runs \in [RunsOf(p) -> RunState] /\ i.runs[FirstRun] # "None"

InstancesSound ==
  /\ inst \in [Pipeline -> Seq(Instance)]
  /\ \A p \in Pipeline : \A n \in DOMAIN inst[p] :
       RunsTyped(inst[p][n], p) /\ Sound(inst[p][n].revs, Materials(p))

\* What a process holds in the middle of its work.
Holds(r) ==
  /\ r.at \in {"compare", "save"} => r.git \in Git /\ r.rev \in Commit
  /\ r.at \in {"read", "create", "insert"} =>
       /\ r.unread \subseteq Materials(r.pipeline)
       /\ Sound(r.proposed, Materials(r.pipeline) \ r.unread)
       /\ r.pipeline \notin r.queue
  /\ r.at = "create" => r.git \in r.unread \cap Git
  /\ r.at = "insert" => r.unread = {}

ProcessesSound ==
  /\ proc \in [Process -> ProcState]
  /\ \A x \in Process : Holds(proc[x])

\* The variables that are neither instances nor processes.
OthersTyped ==
  /\ head \in [Git -> Commit]
  /\ mods \in [Git -> Seq(Revision)]
  /\ paused \subseteq Pipeline /\ dropped \subseteq Pipeline
  /\ saved \subseteq Git \X Commit
  /\ passes \in [Pipeline -> Nat]
  /\ inputs \in 0..MaxInputs /\ userTriggers \in [Pipeline -> 0..inputs]

FlowInv == OthersTyped /\ InstancesSound /\ ProcessesSound

LEMMA GraphFacts ==
  /\ 1 \in Pipeline /\ Pipeline \subseteq Nat
  /\ \A p \in Pipeline : /\ GitsOf[p] \subseteq Git /\ UpstreamsOf[p] \subseteq Pipeline
                         /\ Materials(p) \subseteq Git \cup Pipeline
                         /\ Materials(p) \cap Git = GitsOf[p]
                         /\ Materials(p) \cap Pipeline = UpstreamsOf[p]
                         /\ \A u \in UpstreamsOf[p] : u < p
  /\ \A m \in Git : m \notin Pipeline
<1>1. 1 \in Pipeline /\ Pipeline \subseteq Nat
  BY GraphAssumption DEF Pipeline
<1>2. ASSUME NEW p \in Pipeline, NEW u \in UpstreamsOf[p]
      PROVE  u \in Pipeline /\ u < p
  BY GraphAssumption DEF Pipeline
<1>3. \A p \in Pipeline : GitsOf[p] \subseteq Git
  BY GraphAssumption
<1>4. \A m \in Git : m \notin Pipeline
  BY GraphAssumption
<1> QED BY <1>1, <1>2, <1>3, <1>4 DEF Materials

LEMMA RevisionFacts ==
  /\ Revision \subseteq Nat /\ Commit \subseteq Revision /\ HEAD \in Revision
  /\ <<>> \in Revisions /\ DOMAIN <<>> = {}
<1>1. Revision \subseteq Nat /\ Commit \subseteq Revision /\ HEAD \in Revision
  BY BoundAssumption DEF Revision, Commit, HEAD
<1>2. <<>> \in [{} -> Nat]
  OBVIOUS
<1> QED BY <1>1, <1>2 DEF Revisions

LEMMA IdleFacts == Idle \in ProcState /\ Holds(Idle)
<1>1. Idle \in ProcState
  BY GraphFacts, RevisionFacts DEF Idle, ProcState, RunState
<1> QED BY <1>1 DEF Idle, Holds

\* A revision that is read, is added to those read before.
LEMMA RevisionsGrow ==
  ASSUME NEW revs \in Revisions, NEW m \in Git \cup Pipeline, NEW value \in Nat,
         NEW more, more = [k \in DOMAIN revs \cup {m} |-> IF k = m THEN value ELSE revs[k]]
  PROVE  /\ more \in Revisions
         /\ DOMAIN more = DOMAIN revs \cup {m}
         /\ more[m] = value
         /\ \A k \in DOMAIN revs \ {m} : more[k] = revs[k]
<1>1. PICK D \in SUBSET (Git \cup Pipeline) : revs \in [D -> Nat]
  BY DEF Revisions
<1>2. more \in [D \cup {m} -> Nat]
  BY <1>1
<1> QED BY <1>1, <1>2 DEF Revisions

LEMMA EnqueueFacts ==
  ASSUME NEW x \in Process, NEW queue \in SUBSET Pipeline
  PROVE  \E r \in ProcState : /\ Enqueue(x, queue) = [proc EXCEPT ![x] = r]
                              /\ r.at \in {"idle", "trigger"} /\ r.queue = queue
                              /\ Holds(r)
<1> DEFINE r == IF queue = {} THEN Idle ELSE [Idle EXCEPT !.at = "trigger", !.queue = queue]
<1>1. r \in ProcState /\ r.at \in {"idle", "trigger"} /\ r.queue = queue
  <2>1. CASE queue = {}
    BY <2>1, IdleFacts DEF Idle
  <2>2. CASE queue # {}
    BY <2>2, IdleFacts DEF Idle, ProcState
  <2> QED BY <2>1, <2>2
<1>2. Enqueue(x, queue) = [proc EXCEPT ![x] = r]
  BY DEF Enqueue
<1> HIDE DEF r
<1>3. Holds(r)
  BY <1>1 DEF Holds
<1> QED BY <1>1, <1>2, <1>3

\* Instances that have begun have begun, so what was read of them holds.
LEMMA SoundStays ==
  ASSUME \A u \in Pipeline : Begun(u) \subseteq Begun(u)',
         NEW revs, NEW materials, Sound(revs, materials)
  PROVE  Sound(revs, materials)'
BY DEF Sound

LEMMA HoldsStays ==
  ASSUME \A u \in Pipeline : Begun(u) \subseteq Begun(u)',
         NEW r, Holds(r)
  PROVE  Holds(r)'
<1>1. Sound(r.proposed, Materials(r.pipeline) \ r.unread) =>
        Sound(r.proposed, Materials(r.pipeline) \ r.unread)'
  BY SoundStays
<1> QED BY <1>1 DEF Holds

\* At most one process moves, and holds what it should.
OneMoves ==
  UNCHANGED proc \/ \E x \in Process, r \in ProcState : Holds(r) /\ proc' = [proc EXCEPT ![x] = r]

LEMMA OneProcessMoves ==
  ASSUME ProcessesSound, OneMoves, \A u \in Pipeline : Begun(u) \subseteq Begun(u)'
  PROVE  ProcessesSound'
<1>1. proc' \in [Process -> ProcState]
  BY DEF ProcessesSound, OneMoves
<1>2. ASSUME NEW y \in Process
      PROVE  Holds(proc[y])'
  <2>1. PICK s : s = proc'[y]
    OBVIOUS
  <2>2. Holds(s)
    BY <2>1 DEF ProcessesSound, OneMoves
  <2>3. Holds(s)'
    BY <2>2, HoldsStays
  <2> QED BY <2>1, <2>3
<1> QED BY <1>1, <1>2 DEF ProcessesSound

-----------------------------------------------------------------------------
(* Induction over pipelines, and what is below one.                        *)

LEMMA LeastNat ==
  ASSUME NEW T \in SUBSET Nat, T # {}
  PROVE  \E n \in T : \A m \in T : n <= m
<1> DEFINE R == OpToRel(<, Nat)
<1>1. IsWellFoundedOn(R, Nat)
  BY NatLessThanWellFounded, Zenon
<1>2. R = {p \in Nat \X Nat : p[1] < p[2]}
  BY Zenon DEF OpToRel
<1> HIDE DEF R
<1>3. PICK n \in T : \A m \in T : ~ <<m, n>> \in R
  BY <1>1, WFMin, Zenon
<1>4. \A m \in T : ~ m < n
  BY <1>2, <1>3
<1> QED BY <1>4

LEMMA GreatestPipeline ==
  ASSUME NEW T \in SUBSET Pipeline, T # {}
  PROVE  \E p \in T : \A q \in T : q <= p
<1> DEFINE S == {NPipelines - p : p \in T}
<1>1. NPipelines \in Nat /\ \A p \in T : p \in Nat /\ p <= NPipelines
  BY GraphAssumption DEF Pipeline
<1>2. S \in SUBSET Nat /\ S # {}
  BY <1>1
<1>3. PICK n \in S : \A m \in S : n <= m
  BY <1>2, LeastNat
<1>4. PICK p \in T : n = NPipelines - p
  OBVIOUS
<1>5. \A q \in T : NPipelines - p <= NPipelines - q
  BY <1>3, <1>4
<1> QED BY <1>1, <1>5

LEMMA DownstreamFacts ==
  \A p \in Pipeline : \A q \in Downstreams(p) : q \in Pipeline /\ p < q
BY GraphFacts DEF Downstreams

IsBelow(b) == b = [p \in Pipeline |-> Downstreams(p) \cup UNION {b[q] : q \in Downstreams(p)}]

\* The pipelines in every set that has those downstream of p and of its members.
LEMMA BelowExists == \E b : IsBelow(b)
<1> DEFINE Closed(S, p) == /\ Downstreams(p) \subseteq S
                           /\ \A s \in S : Downstreams(s) \subseteq S
           Reach(p) == {q \in Pipeline : \A S \in SUBSET Pipeline : Closed(S, p) => q \in S}
           b == [p \in Pipeline |-> Reach(p)]
<1>1. ASSUME NEW p \in Pipeline
      PROVE  Reach(p) = Downstreams(p) \cup UNION {Reach(q) : q \in Downstreams(p)}
  <2> DEFINE U == Downstreams(p) \cup UNION {Reach(q) : q \in Downstreams(p)}
  <2>1. U \subseteq Reach(p)
    <3>1. Downstreams(p) \subseteq Reach(p)
      BY DownstreamFacts
    <3>2. ASSUME NEW q \in Downstreams(p)
          PROVE  Reach(q) \subseteq Reach(p)
      BY <3>2, DownstreamFacts
    <3> QED BY <3>1, <3>2
  <2>2. U \in SUBSET Pipeline
    BY DownstreamFacts
  <2>3. Closed(U, p)
    <3>1. ASSUME NEW q \in Pipeline
          PROVE  Downstreams(q) \subseteq Reach(q)
      BY DownstreamFacts
    <3>2. ASSUME NEW q \in Pipeline, NEW s \in Reach(q)
          PROVE  Downstreams(s) \subseteq Reach(q)
      BY <3>2, DownstreamFacts
    <3>3. \A s \in Downstreams(p) : Downstreams(s) \subseteq U
      BY <3>1, DownstreamFacts
    <3>4. ASSUME NEW q \in Downstreams(p), NEW s \in Reach(q)
          PROVE  Downstreams(s) \subseteq U
      <4>1. Downstreams(s) \subseteq Reach(q)
        BY <3>2, DownstreamFacts
      <4> HIDE DEF Reach
      <4> QED BY <4>1
    <3> QED BY <3>3, <3>4
  <2>4. Reach(p) \subseteq U
    BY <2>2, <2>3
  <2> QED BY <2>1, <2>4
<1> HIDE DEF Reach
<1>2. b = [p \in Pipeline |-> Downstreams(p) \cup UNION {b[q] : q \in Downstreams(p)}]
  <2>1. ASSUME NEW p \in Pipeline
        PROVE  {Reach(q) : q \in Downstreams(p)} = {b[q] : q \in Downstreams(p)}
    BY DownstreamFacts
  <2> QED BY <1>1, <2>1
<1> HIDE DEF b
<1> QED BY <1>2 DEF IsBelow

LEMMA BelowFacts == \A p \in Pipeline : Below[p] \subseteq Pipeline
<1>1. Below = CHOOSE b : IsBelow(b)
  BY DEF Below, IsBelow
<1>2. IsBelow(Below)
  BY <1>1, BelowExists
<1>3. \A p \in Pipeline :
        Below[p] = Downstreams(p) \cup UNION {Below[q] : q \in Downstreams(p)}
  BY <1>2 DEF IsBelow
<1> DEFINE T == {p \in Pipeline : ~ (Below[p] \subseteq Pipeline)}
<1>4. SUFFICES ASSUME T # {} PROVE FALSE
  OBVIOUS
<1>5. PICK p \in T : \A q \in T : q <= p
  BY <1>4, GreatestPipeline
<1>6. ASSUME NEW q \in Downstreams(p)
      PROVE  Below[q] \subseteq Pipeline
  <2>1. q \in Pipeline /\ q \in Nat /\ p \in Nat /\ p < q
    BY <1>5, DownstreamFacts, GraphFacts
  <2>2. q \notin T
    <3> HIDE DEF T
    <3> QED BY <1>5, <2>1
  <2> QED BY <2>1, <2>2
<1>7. Below[p] \subseteq Pipeline
  BY <1>3, <1>6, DownstreamFacts
<1> QED BY <1>7

LEMMA DropFacts ==
  ASSUME OthersTyped, NEW ps \in SUBSET Pipeline, Drop(ps)
  PROVE  dropped' \subseteq Pipeline
BY BelowFacts DEF Drop, OthersTyped

-----------------------------------------------------------------------------
(* Each step keeps what is recorded and what processes hold sound.         *)

LEMMA FirstRunFacts == \A p \in Pipeline : FirstRun \in RunsOf(p)
BY GraphAssumption, BoundAssumption DEF FirstRun, RunsOf

LEMMA InstanceFacts ==
  ASSUME InstancesSound, NEW p \in Pipeline
  PROVE  /\ inst[p] \in Seq(Instance) /\ Len(inst[p]) \in Nat
         /\ DOMAIN inst[p] = 1..Len(inst[p])
         /\ \A n \in DOMAIN inst[p] : inst[p][n] \in Instance
         /\ \A n \in DOMAIN inst[p] : RunsTyped(inst[p][n], p)
         /\ PassedCounters(p) \subseteq Begun(p)
         /\ Begun(p) \subseteq DOMAIN inst[p]
         /\ Begun(p) \subseteq Nat
<1>1. inst[p] \in Seq(Instance)
  BY DEF InstancesSound
<1>2. Len(inst[p]) \in Nat /\ DOMAIN inst[p] = 1..Len(inst[p])
      /\ \A n \in DOMAIN inst[p] : inst[p][n] \in Instance
  BY <1>1
<1>3. ASSUME NEW n \in DOMAIN inst[p]
      PROVE  RunsTyped(inst[p][n], p)
  BY DEF InstancesSound
<1>4. ASSUME NEW n \in PassedCounters(p)
      PROVE  n \in Begun(p)
  <2>1. n \in DOMAIN inst[p] /\ LooksPassed(inst[p][n])
    BY DEF PassedCounters
  <2>2. FirstRun \in DOMAIN inst[p][n].runs /\ inst[p][n].runs[FirstRun] # "None"
    BY <1>3, <2>1, FirstRunFacts DEF RunsTyped
  <2>3. inst[p][n].runs[FirstRun] = "Passed"
    BY <2>1, <2>2 DEF LooksPassed
  <2> QED BY <2>1, <2>3 DEF Begun
<1>5. Begun(p) \subseteq DOMAIN inst[p] /\ Begun(p) \subseteq Nat
  BY <1>2 DEF Begun
<1> QED BY <1>1, <1>2, <1>3, <1>4, <1>5

LEMMA ProcessMoves ==
  ASSUME FlowInv, NEW x \in Process, NEW r \in ProcState, Holds(r),
         proc' = [proc EXCEPT ![x] = r], UNCHANGED <<inst, rewritten>>, OthersTyped'
  PROVE  FlowInv'
<1>1. \A u \in Pipeline : Begun(u) = Begun(u)'
  BY DEF Begun
<1>2. ProcessesSound'
  BY <1>1, OneProcessMoves DEF FlowInv, OneMoves
<1>3. InstancesSound'
  BY <1>1 DEF FlowInv, InstancesSound, Sound, RunsTyped
<1> QED BY <1>2, <1>3 DEF FlowInv

LEMMA ProcessEnqueues ==
  ASSUME FlowInv, NEW x \in Process, NEW queue \in SUBSET Pipeline,
         proc' = Enqueue(x, queue), UNCHANGED <<inst, rewritten>>, OthersTyped'
  PROVE  FlowInv'
BY EnqueueFacts, ProcessMoves

LEMMA ProposeFacts ==
  ASSUME FlowInv, NEW x \in Process, proc[x].at \in {"read", "create"},
         NEW m \in proc[x].unread, NEW value,
         m \in Git => value \in Revision,
         m \in Pipeline => value \in Begun(m)
  PROVE  \E r \in ProcState : /\ Propose(x, m, value) = [proc EXCEPT ![x] = r]
                              /\ Holds(r) /\ r.at = "read"
                              /\ r.pipeline = proc[x].pipeline /\ r.queue = proc[x].queue
<1>1. PICK q \in ProcState : q = proc[x]
  BY DEF FlowInv, ProcessesSound
<1>2. Holds(q) /\ q.at \in {"read", "create"} /\ m \in q.unread
  BY <1>1 DEF FlowInv, ProcessesSound
<1>3. q.pipeline \in Pipeline /\ q.unread \subseteq Materials(q.pipeline)
      /\ Sound(q.proposed, Materials(q.pipeline) \ q.unread)
      /\ q.pipeline \notin q.queue
  BY <1>2 DEF Holds, ProcState
<1>4. m \in Git \cup Pipeline /\ m \in Materials(q.pipeline)
  BY <1>2, <1>3, GraphFacts
<1>5. value \in Nat
  BY <1>4, RevisionFacts, InstanceFacts DEF FlowInv
<1> DEFINE more == [k \in DOMAIN q.proposed \cup {m} |->
                      IF k = m THEN value ELSE q.proposed[k]]
           r == [q EXCEPT !.at = "read", !.unread = @ \ {m}, !.proposed = more]
<1>6. Propose(x, m, value) = [proc EXCEPT ![x] = r]
  <2>1. proc \in [Process -> ProcState]
    BY DEF FlowInv, ProcessesSound
  <2> QED BY <1>1, <2>1 DEF Propose, ProcState
<1>7. q.proposed \in Revisions
  BY DEF ProcState
<1>8. /\ more \in Revisions /\ DOMAIN more = DOMAIN q.proposed \cup {m}
      /\ more[m] = value /\ \A k \in DOMAIN q.proposed \ {m} : more[k] = q.proposed[k]
  BY <1>4, <1>5, <1>7, RevisionsGrow, SMTT(30)
<1> HIDE DEF more
<1>9. /\ r \in ProcState /\ r.at = "read" /\ r.proposed = more
      /\ r.unread = q.unread \ {m} /\ r.pipeline = q.pipeline /\ r.queue = q.queue
  BY <1>8 DEF ProcState
<1> HIDE DEF r
<1>10. (Materials(q.pipeline) \ q.unread) \cup {m} = Materials(q.pipeline) \ r.unread
  BY <1>2, <1>4, <1>9
<1>11. Sound(more, Materials(q.pipeline) \ r.unread)
  BY <1>3, <1>8, <1>10 DEF Sound
<1>12. Holds(r)
  BY <1>3, <1>9, <1>11 DEF Holds
<1> QED BY <1>1, <1>6, <1>9, <1>12

LEMMA ProcessFacts ==
  ASSUME FlowInv, NEW x \in Process
  PROVE  /\ proc[x] \in ProcState /\ Holds(proc[x])
         /\ proc[x].queue \in SUBSET Pipeline /\ proc[x].pipeline \in Pipeline
         /\ proc[x].rev \in Revision /\ proc[x].known \in Nat
BY DEF FlowInv, ProcessesSound, ProcState

LEMMA OthersStay ==
  ASSUME FlowInv,
         UNCHANGED <<head, mods, paused, dropped, saved, passes, inputs, userTriggers>>
  PROVE  OthersTyped'
BY DEF FlowInv, OthersTyped

LEMMA RaiseFlow ==
  ASSUME FlowInv, NEW x \in Process, Raise(x)
  PROVE  FlowInv'
<1>1. dropped' \subseteq Pipeline
  <2>1. proc[x].queue \cup {proc[x].pipeline} \in SUBSET Pipeline
    BY ProcessFacts
  <2> QED BY <2>1, DropFacts DEF Raise, FlowInv
<1>2. OthersTyped'
  BY <1>1 DEF Raise, FlowInv, OthersTyped, rows, counters
<1> QED BY <1>2, IdleFacts, ProcessMoves DEF Raise, rows

LEMMA TakeFlow ==
  ASSUME FlowInv, NEW x \in Process, TakePipeline(x) \/ RefusePaused(x)
  PROVE  FlowInv'
<1>1. CASE TakePipeline(x)
  <2>1. PICK p \in proc[x].queue :
          proc' = [proc EXCEPT ![x] =
            [Idle EXCEPT !.at = "read", !.queue = proc[x].queue \ {p}, !.pipeline = p,
                         !.unread = Materials(p)]]
    BY <1>1 DEF TakePipeline
  <2> DEFINE r == [Idle EXCEPT !.at = "read", !.queue = proc[x].queue \ {p},
                               !.pipeline = p, !.unread = Materials(p)]
  <2>2. p \in Pipeline /\ proc[x].queue \ {p} \in SUBSET Pipeline
    BY ProcessFacts
  <2>3. /\ r \in ProcState /\ r.at = "read" /\ r.pipeline = p /\ r.unread = Materials(p)
        /\ r.proposed = <<>> /\ p \notin r.queue
    BY <2>2, GraphFacts, IdleFacts DEF ProcState, Idle
  <2>4. proc' = [proc EXCEPT ![x] = r]
    BY <2>1
  <2> HIDE DEF r
  <2>5. Holds(r)
    BY <2>3, RevisionFacts DEF Holds, Sound
  <2>6. UNCHANGED <<inst, rewritten>> /\ OthersTyped'
    BY <1>1, OthersStay DEF TakePipeline, rows, history, counters
  <2> QED BY <2>3, <2>4, <2>5, <2>6, ProcessMoves
<1>2. CASE RefusePaused(x)
  <2>1. PICK p \in proc[x].queue : proc' = Enqueue(x, proc[x].queue \ {p}) /\ Drop({p})
    BY <1>2 DEF RefusePaused
  <2>2. {p} \in SUBSET Pipeline /\ proc[x].queue \ {p} \in SUBSET Pipeline
    BY ProcessFacts
  <2>3. dropped' \subseteq Pipeline
    BY <2>1, <2>2, DropFacts DEF FlowInv
  <2>4. UNCHANGED <<inst, rewritten>> /\ OthersTyped'
    BY <1>2, <2>3 DEF RefusePaused, FlowInv, OthersTyped, rows, counters
  <2> QED BY <2>1, <2>2, <2>4, ProcessEnqueues
<1> QED BY <1>1, <1>2

LEMMA LastFacts ==
  ASSUME NEW S, NEW s \in Seq(S), s # <<>>
  PROVE  Last(s) \in S
<1>1. Len(s) \in 1..Len(s)
  BY EmptySeq, LenProperties
<1> QED BY <1>1, ElementOfSeq DEF Last

LEMMA ReadGitFlow ==
  ASSUME FlowInv, NEW x \in Process, NEW g \in Git, ReadModification(x, g) \/ AskGit(x, g)
  PROVE  FlowInv'
<1>0. UNCHANGED <<inst, rewritten>> /\ OthersTyped'
  BY OthersStay DEF ReadModification, AskGit, rows, history, counters
<1>1. CASE ReadModification(x, g)
  <2>1. Last(mods[g]) \in Revision
    BY <1>1, LastFacts DEF ReadModification, FlowInv, OthersTyped
  <2>2. g \notin Pipeline
    BY GraphFacts
  <2>3. \E r \in ProcState : proc' = [proc EXCEPT ![x] = r] /\ Holds(r)
    BY <1>1, <2>1, <2>2, ProposeFacts DEF ReadModification
  <2> QED BY <1>0, <2>3, ProcessMoves
<1>2. CASE AskGit(x, g)
  <2>1. PICK rev \in {head[g], HEAD} :
          proc' = [proc EXCEPT ![x].at = "create", ![x].git = g, ![x].rev = rev]
    BY <1>2 DEF AskGit
  <2>2. rev \in Revision
    BY RevisionFacts DEF FlowInv, OthersTyped
  <2>3. PICK q \in ProcState : q = proc[x] /\ Holds(q)
    BY ProcessFacts
  <2> DEFINE r == [q EXCEPT !.at = "create", !.git = g, !.rev = rev]
  <2>4. /\ r \in ProcState /\ r.at = "create" /\ r.git = g /\ r.unread = q.unread
        /\ r.pipeline = q.pipeline /\ r.proposed = q.proposed /\ r.queue = q.queue
    BY <2>2 DEF ProcState
  <2>5. proc' = [proc EXCEPT ![x] = r]
    BY <2>1, <2>3 DEF FlowInv, ProcessesSound, ProcState
  <2> HIDE DEF r
  <2>6. Holds(r)
    BY <1>2, <2>3, <2>4 DEF Holds, AskGit
  <2> QED BY <1>0, <2>4, <2>5, <2>6, ProcessMoves
<1> QED BY <1>1, <1>2

LEMMA CreateFlow ==
  ASSUME FlowInv, NEW x \in Process, CreateModification(x)
  PROVE  FlowInv'
<1>1. PICK g, rev : g = proc[x].git /\ rev = proc[x].rev
  OBVIOUS
<1>2. g \in Git /\ g \in proc[x].unread /\ rev \in Revision /\ g \notin Pipeline
  BY <1>1, ProcessFacts, GraphFacts DEF CreateModification, Holds
<1>3. mods' = [mods EXCEPT ![g] = Append(@, rev)] /\ proc' = Propose(x, g, rev)
  BY <1>1 DEF CreateModification
<1>4. mods' \in [Git -> Seq(Revision)]
  BY <1>2, <1>3 DEF FlowInv, OthersTyped
<1>5. UNCHANGED <<inst, rewritten>> /\ OthersTyped'
  BY <1>4 DEF CreateModification, history, counters, FlowInv, OthersTyped
<1>6. \E r \in ProcState : proc' = [proc EXCEPT ![x] = r] /\ Holds(r)
  BY <1>2, <1>3, ProposeFacts DEF CreateModification
<1> QED BY <1>5, <1>6, ProcessMoves

LEMMA NextTriggerFlow ==
  ASSUME FlowInv, NEW x \in Process, proc' = NextTrigger(x), UNCHANGED <<inst, rewritten>>,
         OthersTyped'
  PROVE  FlowInv'
BY ProcessFacts, ProcessEnqueues DEF NextTrigger

LEMMA ReadUpstreamFlow ==
  ASSUME FlowInv, NEW x \in Process, NEW u \in Pipeline, ReadUpstream(x, u)
  PROVE  FlowInv'
<1>0. UNCHANGED <<inst, rewritten>> /\ OthersTyped'
  BY OthersStay DEF ReadUpstream, rows, history, counters
<1>1. CASE proc' = NextTrigger(x)
  BY <1>0, <1>1, NextTriggerFlow
<1>2. CASE \E n \in PassedCounters(u) : proc' = Propose(x, u, n)
  <2>1. u \notin Git /\ u \in proc[x].unread /\ proc[x].at = "read"
    BY GraphFacts DEF ReadUpstream
  <2>2. PassedCounters(u) \subseteq Begun(u)
    BY InstanceFacts DEF FlowInv
  <2>3. \E r \in ProcState : proc' = [proc EXCEPT ![x] = r] /\ Holds(r)
    BY <1>2, <2>1, <2>2, ProposeFacts
  <2> QED BY <1>0, <2>3, ProcessMoves
<1> QED BY <1>1, <1>2 DEF ReadUpstream

LEMMA VerifyFlow ==
  ASSUME FlowInv, NEW x \in Process, Verify(x)
  PROVE  FlowInv'
<1>0. UNCHANGED <<inst, rewritten>> /\ OthersTyped'
  BY OthersStay DEF Verify, rows, history, counters
<1>1. CASE proc' = NextTrigger(x)
  BY <1>0, <1>1, NextTriggerFlow
<1>2. CASE proc' = [proc EXCEPT ![x].at = "insert",
                                ![x].counter = Len(inst[proc[x].pipeline]) + 1]
  <2>1. PICK q \in ProcState : q = proc[x] /\ Holds(q)
    BY ProcessFacts
  <2>2. PICK counter \in Nat : counter = Len(inst[proc[x].pipeline]) + 1
    BY ProcessFacts, InstanceFacts DEF FlowInv
  <2> DEFINE r == [q EXCEPT !.at = "insert", !.counter = counter]
  <2>3. /\ r \in ProcState /\ r.at = "insert" /\ r.unread = q.unread
        /\ r.pipeline = q.pipeline /\ r.proposed = q.proposed /\ r.queue = q.queue
    BY DEF ProcState
  <2>4. proc' = [proc EXCEPT ![x] = r]
    BY <1>2, <2>1, <2>2 DEF FlowInv, ProcessesSound, ProcState
  <2> HIDE DEF r
  <2>5. Holds(r)
    BY <2>1, <2>3 DEF Holds, Verify
  <2> QED BY <1>0, <2>3, <2>4, <2>5, ProcessMoves
<1> QED BY <1>1, <1>2 DEF Verify

\* Instances are added or their runs change, and those that have begun stay.
LEMMA InstancesMove ==
  ASSUME FlowInv, OneMoves, OthersTyped',
         inst' \in [Pipeline -> Seq(Instance)],
         \A u \in Pipeline : Begun(u) \subseteq Begun(u)',
         \A p \in Pipeline : \A n \in DOMAIN inst'[p] :
           /\ RunsTyped(inst'[p][n], p)
           /\ \/ n \in DOMAIN inst[p] /\ inst'[p][n].revs = inst[p][n].revs
              \/ Sound(inst'[p][n].revs, Materials(p))
  PROVE  FlowInv'
<1>1. ASSUME NEW p \in Pipeline, NEW n \in DOMAIN inst'[p]
      PROVE  Sound(inst[p][n].revs, Materials(p))'
  <2>1. PICK revs : revs = inst'[p][n].revs
    OBVIOUS
  <2>2. Sound(revs, Materials(p))
    BY <2>1 DEF FlowInv, InstancesSound
  <2>3. Sound(revs, Materials(p))'
    BY <2>2, SoundStays
  <2> QED BY <2>1, <2>3
<1>2. ProcessesSound'
  BY OneProcessMoves DEF FlowInv
<1>3. \A p \in Pipeline : \A n \in DOMAIN inst'[p] : RunsTyped(inst[p][n], p)'
  BY DEF RunsTyped
<1> QED BY <1>1, <1>2, <1>3 DEF FlowInv, InstancesSound

NewRuns(p) == [k \in RunsOf(p) |-> IF k = FirstRun THEN "Building" ELSE "None"]

LEMMA NewRunsFacts ==
  ASSUME NEW p \in Pipeline, NEW revs \in Revisions
  PROVE  /\ [runs |-> NewRuns(p), revs |-> revs] \in Instance
         /\ RunsTyped([runs |-> NewRuns(p), revs |-> revs], p)
<1>1. NewRuns(p) \in [RunsOf(p) -> RunState] /\ NewRuns(p)[FirstRun] = "Building"
  BY FirstRunFacts DEF NewRuns, RunState
<1> HIDE DEF NewRuns
<1> QED BY <1>1 DEF Instance, RunsTyped

LEMMA InsertEffect ==
  ASSUME FlowInv, NEW x \in Process, InsertInstance(x), NEW p, p = proc[x].pipeline
  PROVE  /\ p \in Pipeline
         /\ inst' \in [Pipeline -> Seq(Instance)]
         /\ Len(inst'[p]) = Len(inst[p]) + 1
         /\ \A n \in 1..Len(inst[p]) : inst'[p][n] = inst[p][n]
         /\ inst'[p][Len(inst[p]) + 1] = [runs |-> NewRuns(p), revs |-> proc[x].proposed]
         /\ \A q \in Pipeline \ {p} : inst'[q] = inst[q]
         /\ proc' = NextTrigger(x)
         /\ Sound(proc[x].proposed, Materials(p))
<1>1. p \in Pipeline /\ proc[x].proposed \in Revisions
  BY ProcessFacts DEF ProcState
<1>2. PICK row : row = [runs |-> NewRuns(p), revs |-> proc[x].proposed]
  OBVIOUS
<1>3. row \in Instance
  BY <1>1, <1>2, NewRunsFacts
<1>4. inst' = [inst EXCEPT ![p] = Append(@, row)] /\ proc' = NextTrigger(x)
  BY <1>2 DEF InsertInstance, NewRuns, FirstRun
<1>5. inst \in [Pipeline -> Seq(Instance)]
  BY DEF FlowInv, InstancesSound
<1>6. PICK old \in Seq(Instance) : old = inst[p]
  BY <1>1, <1>5
<1>7. /\ Append(old, row) \in Seq(Instance) /\ Len(Append(old, row)) = Len(old) + 1
      /\ \A n \in 1..Len(old) : Append(old, row)[n] = old[n]
      /\ Append(old, row)[Len(old) + 1] = row
  BY <1>3, AppendProperties
<1>8. /\ inst'[p] = Append(old, row)
      /\ inst' \in [Pipeline -> Seq(Instance)]
      /\ \A q \in Pipeline \ {p} : inst'[q] = inst[q]
  BY <1>1, <1>4, <1>5, <1>6, <1>7
<1>9. Sound(proc[x].proposed, Materials(p))
  <2>1. Holds(proc[x]) /\ proc[x].at = "insert"
    BY ProcessFacts DEF InsertInstance
  <2>2. Materials(p) \ proc[x].unread = Materials(p)
    BY <2>1 DEF Holds
  <2> QED BY <2>1, <2>2 DEF Holds
<1>10. /\ Len(inst'[p]) = Len(inst[p]) + 1
       /\ \A n \in 1..Len(inst[p]) : inst'[p][n] = inst[p][n]
       /\ inst'[p][Len(inst[p]) + 1] = row
  BY <1>6, <1>7, <1>8
<1> QED BY <1>1, <1>2, <1>4, <1>8, <1>9, <1>10

LEMMA InsertFlow ==
  ASSUME FlowInv, NEW x \in Process, InsertInstance(x)
  PROVE  FlowInv'
<1>1. PICK p \in Pipeline : p = proc[x].pipeline
  BY ProcessFacts
<1>2. /\ inst' \in [Pipeline -> Seq(Instance)]
      /\ Len(inst'[p]) = Len(inst[p]) + 1
      /\ \A n \in 1..Len(inst[p]) : inst'[p][n] = inst[p][n]
      /\ inst'[p][Len(inst[p]) + 1] = [runs |-> NewRuns(p), revs |-> proc[x].proposed]
      /\ \A q \in Pipeline \ {p} : inst'[q] = inst[q]
      /\ proc' = NextTrigger(x)
      /\ Sound(proc[x].proposed, Materials(p))
  BY <1>1, InsertEffect
<1>3. \A q \in Pipeline : /\ inst[q] \in Seq(Instance) /\ Len(inst[q]) \in Nat
                          /\ DOMAIN inst[q] = 1..Len(inst[q])
                          /\ DOMAIN inst'[q] = 1..Len(inst'[q])
  BY <1>2, InstanceFacts DEF FlowInv
<1>4. \A u \in Pipeline : Begun(u) \subseteq Begun(u)'
  <2>1. UNCHANGED rewritten
    BY DEF InsertInstance, history
  <2>2. \A u \in Pipeline : \A n \in DOMAIN inst[u] :
          n \in DOMAIN inst'[u] /\ inst'[u][n] = inst[u][n]
    <3> TAKE u \in Pipeline
    <3>1. CASE u = p
      <4>1. Len(inst[p]) \in Nat /\ DOMAIN inst'[p] = 1..Len(inst[p]) + 1
        BY <1>2, <1>3
      <4>2. ASSUME NEW n \in 1..Len(inst[p])
            PROVE  n \in DOMAIN inst'[p] /\ inst'[p][n] = inst[p][n]
        BY <1>2, <4>1
      <4> QED BY <1>3, <3>1, <4>2
    <3>2. CASE u # p
      BY <1>2, <3>2
    <3> QED BY <3>1, <3>2
  <2> QED BY <2>1, <2>2 DEF Begun
<1>5. ASSUME NEW q \in Pipeline, NEW n \in DOMAIN inst'[q]
      PROVE  /\ RunsTyped(inst'[q][n], q)
             /\ \/ n \in DOMAIN inst[q] /\ inst'[q][n].revs = inst[q][n].revs
                \/ Sound(inst'[q][n].revs, Materials(q))
  <2>1. CASE q = p /\ n = Len(inst[p]) + 1
    <3>1. proc[x].proposed \in Revisions
      BY ProcessFacts DEF ProcState
    <3> QED BY <1>2, <2>1, <3>1, NewRunsFacts
  <2>2. CASE q # p \/ n # Len(inst[p]) + 1
    <3>1. n \in DOMAIN inst[q]
      BY <1>2, <1>3, <2>2
    <3>2. inst'[q][n] = inst[q][n]
      BY <1>2, <1>3, <3>1
    <3> QED BY <3>1, <3>2, InstanceFacts DEF FlowInv
  <2> QED BY <2>1, <2>2
<1>6. OneMoves
  BY <1>2, ProcessFacts, EnqueueFacts DEF NextTrigger, OneMoves
<1>7. OthersTyped'
  BY DEF InsertInstance, FlowInv, OthersTyped, history, counters
<1> QED BY <1>2, <1>4, <1>5, <1>6, <1>7, InstancesMove

LEMMA RaisesFlow ==
  ASSUME FlowInv, NEW x \in Process, CreateRaises(x) \/ InsertRaises(x)
  PROVE  FlowInv'
BY RaiseFlow DEF CreateRaises, InsertRaises

LEMMA PollFlow ==
  ASSUME FlowInv, NEW x \in Process,
         \/ \E g \in Git : AskLatestRevision(x, g)
         \/ CompareRevision(x) \/ SaveFails(x)
  PROVE  FlowInv'
<1>0. UNCHANGED <<inst, rewritten>> /\ OthersTyped'
  BY OthersStay DEF AskLatestRevision, CompareRevision, SaveFails, rows, history, counters
<1>1. ASSUME NEW g \in Git, AskLatestRevision(x, g)
      PROVE  FlowInv'
  <2> DEFINE r == [Idle EXCEPT !.at = "compare", !.git = g, !.rev = head[g],
                               !.known = Len(mods[g])]
  <2>1. head[g] \in Commit /\ Len(mods[g]) \in Nat
    BY <1>1 DEF FlowInv, OthersTyped
  <2>2. r \in ProcState /\ r.at = "compare" /\ r.git = g /\ r.rev = head[g]
    BY <2>1, IdleFacts, RevisionFacts DEF ProcState, Idle
  <2>3. proc' = [proc EXCEPT ![x] = r]
    BY <1>1 DEF AskLatestRevision
  <2> HIDE DEF r
  <2>4. Holds(r)
    BY <2>1, <2>2 DEF Holds
  <2> QED BY <1>0, <2>2, <2>3, <2>4, ProcessMoves
<1>2. CASE proc' = [proc EXCEPT ![x] = Idle]
  BY <1>0, <1>2, IdleFacts, ProcessMoves
<1>3. CASE proc[x].at = "compare" /\ proc' = [proc EXCEPT ![x].at = "save"]
  <2>1. PICK q \in ProcState : q = proc[x] /\ Holds(q)
    BY ProcessFacts
  <2> DEFINE r == [q EXCEPT !.at = "save"]
  <2>2. r \in ProcState /\ r.at = "save" /\ r.git = q.git /\ r.rev = q.rev
    BY DEF ProcState
  <2>3. proc' = [proc EXCEPT ![x] = r]
    BY <1>3, <2>1 DEF FlowInv, ProcessesSound, ProcState
  <2> HIDE DEF r
  <2>4. Holds(r)
    BY <1>3, <2>1, <2>2 DEF Holds
  <2> QED BY <1>0, <2>2, <2>3, <2>4, ProcessMoves
<1> QED BY <1>1, <1>2, <1>3 DEF CompareRevision, SaveFails

\* A row goes in between two rows, or to an end.
LEMMA InsertAtFacts ==
  ASSUME NEW S, NEW s \in Seq(S), NEW e \in S, NEW k \in 0..Len(s)
  PROVE  InsertAt(s, k + 1, e) \in Seq(S)
<1>1. Len(s) \in Nat /\ k \in Nat /\ k <= Len(s) /\ k + 1 - 1 = k /\ k + 1 \in Int
  BY LenProperties
<1>2. \A i \in 1..k : s[i] \in S
  BY <1>1, ElementOfSeq
<1>3. \A i \in k + 1..Len(s) : s[i] \in S
  BY <1>1, ElementOfSeq
<1>4. SubSeq(s, 1, k + 1 - 1) \in Seq(S)
  BY <1>1, <1>2, SubSeqProperties
<1>5. SubSeq(s, k + 1, Len(s)) \in Seq(S)
  BY <1>1, <1>3, SubSeqProperties
<1>6. SubSeq(s, 1, k + 1 - 1) \o <<e>> \in Seq(S)
  BY <1>4, ConcatProperties
<1> QED BY <1>5, <1>6, ConcatProperties DEF InsertAt

LEMMA SaveFlow ==
  ASSUME FlowInv, NEW x \in Process, SaveModification(x)
  PROVE  FlowInv'
<1>1. PICK g, rev : g = proc[x].git /\ rev = proc[x].rev
  OBVIOUS
<1>2. g \in Git /\ rev \in Commit /\ rev \in Revision /\ proc[x].known \in Nat
  BY <1>1, ProcessFacts, RevisionFacts DEF SaveModification, Holds
<1>3. PICK k \in proc[x].known..Len(mods[g]) :
        mods' = [mods EXCEPT ![g] = InsertAt(@, k + 1, rev)]
  BY <1>1 DEF SaveModification, Record
<1>4. mods \in [Git -> Seq(Revision)] /\ mods[g] \in Seq(Revision)
  BY <1>2 DEF FlowInv, OthersTyped
<1>5. k \in 0..Len(mods[g])
  BY <1>2, <1>3, <1>4, LenProperties
<1>6. mods' \in [Git -> Seq(Revision)]
  <2>1. InsertAt(mods[g], k + 1, rev) \in Seq(Revision)
    BY <1>2, <1>4, <1>5, InsertAtFacts
  <2> QED BY <1>2, <1>3, <1>4, <2>1
<1>7. saved' = saved \cup {<<g, rev>>} /\ proc' = Enqueue(x, PipelinesOf(g))
  BY <1>1 DEF SaveModification
<1>8. UNCHANGED <<inst, rewritten>> /\ OthersTyped'
  BY <1>2, <1>6, <1>7 DEF SaveModification, FlowInv, OthersTyped, counters
<1>9. PipelinesOf(g) \in SUBSET Pipeline
  BY DEF PipelinesOf
<1> QED BY <1>7, <1>8, <1>9, ProcessEnqueues

\* The run k of instance n of p becomes v.
SetRun(p, n, k, v) == inst' = [inst EXCEPT ![p][n].runs[k] = v]

LEMMA RunEffect ==
  ASSUME InstancesSound, NEW p \in Pipeline, NEW n, NEW k, NEW v, SetRun(p, n, k, v),
         n \in DOMAIN inst[p] /\ k \in RunsOf(p) => v \in RunState
  PROVE  /\ inst' \in [Pipeline -> Seq(Instance)]
         /\ \A q \in Pipeline : Len(inst'[q]) = Len(inst[q]) /\ DOMAIN inst'[q] = DOMAIN inst[q]
         /\ \A q \in Pipeline : \A m \in DOMAIN inst[q] :
              /\ inst'[q][m].revs = inst[q][m].revs
              /\ inst'[q][m].runs \in [RunsOf(q) -> RunState]
              /\ \A j \in RunsOf(q) :
                   inst'[q][m].runs[j] = IF q = p /\ m = n /\ j = k THEN v ELSE inst[q][m].runs[j]
<1>1. PICK old \in Seq(Instance) : old = inst[p]
  BY DEF InstancesSound
<1>2. inst \in [Pipeline -> Seq(Instance)]
  BY DEF InstancesSound
<1>3. \A q \in Pipeline : \A m \in DOMAIN inst[q] : inst[q][m].runs \in [RunsOf(q) -> RunState]
  BY DEF InstancesSound, RunsTyped
<1>4. DOMAIN old = 1..Len(old)
  BY LenProperties
<1>5. CASE n \in DOMAIN inst[p]
  <2>1. n \in 1..Len(old) /\ old[n] \in Instance
    BY <1>1, <1>4, <1>5
  <2> DEFINE runs == [old[n].runs EXCEPT ![k] = v]
             row == [old[n] EXCEPT !.runs = runs]
  <2>2. old[n].runs \in [RunsOf(p) -> RunState]
    BY <1>1, <1>3, <1>5
  <2>3. /\ runs \in [RunsOf(p) -> RunState]
        /\ \A j \in RunsOf(p) : runs[j] = IF j = k THEN v ELSE old[n].runs[j]
    BY <1>5, <2>2
  <2>4. inst' = [inst EXCEPT ![p] = [old EXCEPT ![n] = row]]
    BY <1>1 DEF SetRun
  <2> HIDE DEF runs
  <2>5. row \in Instance /\ row.runs = runs /\ row.revs = old[n].revs
    BY <2>1, <2>3 DEF Instance
  <2> HIDE DEF row
  <2> DEFINE new == [old EXCEPT ![n] = row]
  <2>6. /\ new \in Seq(Instance) /\ Len(new) = Len(old)
        /\ \A j \in 1..Len(old) : new[j] = IF j = n THEN row ELSE old[j]
    BY <2>1, <2>5, ExceptSeq
  <2>7. inst' = [inst EXCEPT ![p] = new]
    BY <2>4
  <2> HIDE DEF new
  <2>8. /\ inst' \in [Pipeline -> Seq(Instance)] /\ inst'[p] = new
        /\ \A q \in Pipeline \ {p} : inst'[q] = inst[q]
    BY <1>2, <2>6, <2>7
  <2>9. DOMAIN new = 1..Len(old)
    BY <2>6, LenProperties
  <2>10. ASSUME NEW m \in DOMAIN inst[p]
         PROVE  /\ inst'[p][m].revs = inst[p][m].revs
                /\ inst'[p][m].runs \in [RunsOf(p) -> RunState]
                /\ \A j \in RunsOf(p) :
                     inst'[p][m].runs[j] = IF m = n /\ j = k THEN v ELSE inst[p][m].runs[j]
    <3>1. CASE m = n
      BY <1>1, <2>1, <2>3, <2>5, <2>6, <2>8, <3>1
    <3>2. CASE m # n
      <4>1. inst'[p][m] = inst[p][m]
        BY <1>1, <1>4, <2>6, <2>8, <3>2
      <4> QED BY <1>3, <3>2, <4>1
    <3> QED BY <3>1, <3>2
  <2>11. ASSUME NEW q \in Pipeline \ {p}, NEW m \in DOMAIN inst[q]
         PROVE  /\ inst'[q][m].revs = inst[q][m].revs
                /\ inst'[q][m].runs \in [RunsOf(q) -> RunState]
                /\ inst'[q][m].runs = inst[q][m].runs
    BY <1>3, <2>8
  <2>12. \A q \in Pipeline : Len(inst'[q]) = Len(inst[q]) /\ DOMAIN inst'[q] = DOMAIN inst[q]
    BY <1>1, <1>4, <2>6, <2>8, <2>9
  <2> QED BY <2>8, <2>10, <2>11, <2>12
<1>6. CASE n \notin DOMAIN inst[p]
  <2>1. PICK row : row = [old[n] EXCEPT !.runs[k] = v]
    OBVIOUS
  <2>2. inst' = [inst EXCEPT ![p] = [old EXCEPT ![n] = row]]
    BY <1>1, <2>1 DEF SetRun
  <2>3. [old EXCEPT ![n] = row] = old
    BY <1>1, <1>4, <1>6
  <2>4. inst' = inst
    BY <1>1, <1>2, <2>2, <2>3
  <2> QED BY <1>2, <1>3, <1>6, <2>4
<1> QED BY <1>5, <1>6

\* A first run that passed is not changed without being noted as rewritten.
LEMMA RunFlow ==
  ASSUME FlowInv, OneMoves, OthersTyped', rewritten \subseteq rewritten',
         NEW p \in Pipeline, NEW n, NEW k, NEW v, SetRun(p, n, k, v),
         n \in DOMAIN inst[p] /\ k \in RunsOf(p) =>
           /\ v \in RunState
           /\ k = FirstRun => /\ v # "None"
                              /\ \/ inst[p][n].runs[k] # "Passed"
                                 \/ <<p, n, k>> \in rewritten'
  PROVE  FlowInv'
<1>1. /\ inst' \in [Pipeline -> Seq(Instance)]
      /\ \A q \in Pipeline : DOMAIN inst'[q] = DOMAIN inst[q]
      /\ \A q \in Pipeline : \A m \in DOMAIN inst[q] :
           /\ inst'[q][m].revs = inst[q][m].revs
           /\ inst'[q][m].runs \in [RunsOf(q) -> RunState]
           /\ \A j \in RunsOf(q) :
                inst'[q][m].runs[j] = IF q = p /\ m = n /\ j = k THEN v ELSE inst[q][m].runs[j]
  BY RunEffect DEF FlowInv
<1>2. ASSUME NEW q \in Pipeline, NEW m \in DOMAIN inst[q]
      PROVE  /\ inst'[q][m].runs[FirstRun] # "None"
             /\ inst[q][m].runs[FirstRun] = "Passed" =>
                  \/ inst'[q][m].runs[FirstRun] = "Passed"
                  \/ <<q, m, FirstRun>> \in rewritten'
  <2>1. FirstRun \in RunsOf(q) /\ inst[q][m].runs[FirstRun] # "None"
    BY FirstRunFacts, InstanceFacts DEF FlowInv, RunsTyped
  <2>2. CASE q = p /\ m = n /\ k = FirstRun
    BY <1>1, <2>1, <2>2
  <2>3. CASE ~ (q = p /\ m = n /\ k = FirstRun)
    <3>1. inst'[q][m].runs[FirstRun] = inst[q][m].runs[FirstRun]
      BY <1>1, <2>1, <2>3
    <3> QED BY <2>1, <3>1
  <2> QED BY <2>2, <2>3
<1>3. \A u \in Pipeline : Begun(u) \subseteq Begun(u)'
  BY <1>1, <1>2 DEF Begun
<1>4. \A q \in Pipeline : \A m \in DOMAIN inst'[q] :
        /\ RunsTyped(inst'[q][m], q)
        /\ m \in DOMAIN inst[q] /\ inst'[q][m].revs = inst[q][m].revs
  BY <1>1, <1>2 DEF RunsTyped
<1> QED BY <1>1, <1>3, <1>4, InstancesMove

LEMMA LoadFlow ==
  ASSUME FlowInv, NEW x \in Process, NEW p \in Pipeline, NEW n \in DOMAIN inst[p],
         NEW k \in RunsOf(p), StartCompletion(x, p, n, k) \/ StartLateCompletion(x, p, n, k)
  PROVE  FlowInv'
<1>1. PICK seen : seen = inst[p][n].runs[k]
  OBVIOUS
<1>2. seen \in RunState /\ n \in Nat /\ k \in (Nat \ {0}) \X Nat
  <2>1. inst[p][n].runs \in [RunsOf(p) -> RunState] /\ n \in Nat
    BY InstanceFacts DEF FlowInv, RunsTyped
  <2>2. k \in (Nat \ {0}) \X Nat
    BY GraphAssumption, BoundAssumption DEF RunsOf
  <2> QED BY <1>1, <2>1, <2>2
<1> DEFINE r == [Idle EXCEPT !.at = "complete", !.pipeline = p, !.counter = n, !.run = k,
                             !.seen = seen]
<1>3. r \in ProcState /\ r.at = "complete"
  BY <1>2, IdleFacts DEF ProcState, Idle
<1>4. proc' = [proc EXCEPT ![x] = r]
  BY <1>1 DEF StartCompletion, StartLateCompletion, Load
<1> HIDE DEF r
<1>5. Holds(r)
  BY <1>3 DEF Holds
<1>6. UNCHANGED <<head, mods, inst, paused, dropped, saved, passes, rewritten, userTriggers>>
  BY DEF StartCompletion, StartLateCompletion, rows, history, counters
<1>7. inputs' \in 0..MaxInputs /\ inputs' >= inputs
  BY BoundAssumption
     DEF StartCompletion, StartLateCompletion, Input, counters, FlowInv, OthersTyped
<1>8. OthersTyped'
  BY <1>6, <1>7, BoundAssumption DEF FlowInv, OthersTyped
<1> QED BY <1>3, <1>4, <1>5, <1>6, <1>8, ProcessMoves

\* What a process writes that has the verdict.
LEMMA VerdictEffect ==
  ASSUME FlowInv, NEW x \in Process, NEW verdict \in {"Passed", "Failed"},
         WriteVerdict(x, verdict), NEW p, p = proc[x].pipeline, NEW n, n = proc[x].counter,
         NEW k, k = proc[x].run
  PROVE  /\ rewritten \subseteq rewritten'
         /\ \E v : /\ SetRun(p, n, k, v)
                   /\ n \in DOMAIN inst[p] /\ k \in RunsOf(p) =>
                        /\ v \in RunState
                        /\ k = FirstRun => /\ v # "None"
                                           /\ \/ inst[p][n].runs[k] # "Passed"
                                              \/ <<p, n, k>> \in rewritten'
<1>1. PICK v : v = IF verdict = proc[x].seen THEN inst[p][n].runs[k] ELSE verdict
  OBVIOUS
<1>2. SetRun(p, n, k, v)
  BY <1>1 DEF WriteVerdict, SetRun
<1>3. rewritten' = IF inst[p][n].runs[k] = "Building" THEN rewritten
                   ELSE rewritten \cup {<<p, n, k>>}
  BY DEF WriteVerdict
<1>4. p \in Pipeline
  BY ProcessFacts
<1>5. ASSUME n \in DOMAIN inst[p], k \in RunsOf(p)
      PROVE  inst[p][n].runs[k] \in RunState /\ (k = FirstRun => inst[p][n].runs[k] # "None")
  BY <1>4, <1>5, InstanceFacts DEF FlowInv, RunsTyped
<1>6. verdict \in RunState /\ verdict # "None"
  BY DEF RunState
<1> QED BY <1>1, <1>2, <1>3, <1>5, <1>6

LEMMA CompleteFlow ==
  ASSUME FlowInv, NEW x \in Process, FailStage(x) \/ PassStage(x) \/ PassLastStage(x)
  PROVE  FlowInv'
<1>1. PICK p \in Pipeline : p = proc[x].pipeline
  BY ProcessFacts
<1>2. \E verdict \in {"Passed", "Failed"} : WriteVerdict(x, verdict)
  BY DEF FailStage, PassStage, PassLastStage
<1>3. Downstreams(p) \in SUBSET Pipeline
  BY DEF Downstreams
<1>4. OneMoves
  <2>1. CASE FailStage(x)
    BY <2>1, IdleFacts DEF FailStage, OneMoves
  <2>2. CASE PassStage(x)
    <3>1. PICK q \in ProcState : q = proc[x]
      BY ProcessFacts
    <3> DEFINE r == [q EXCEPT !.at = "next"]
    <3>2. r \in ProcState /\ r.at = "next"
      BY DEF ProcState
    <3>3. proc' = [proc EXCEPT ![x] = r]
      BY <2>2, <3>1 DEF PassStage, FlowInv, ProcessesSound, ProcState
    <3> HIDE DEF r
    <3>4. Holds(r)
      BY <3>2 DEF Holds
    <3> QED BY <3>2, <3>3, <3>4 DEF OneMoves
  <2>3. CASE PassLastStage(x)
    BY <1>1, <1>3, <2>3, EnqueueFacts DEF PassLastStage, OneMoves
  <2> QED BY <2>1, <2>2, <2>3
<1>5. OthersTyped'
  <2>1. dropped' \subseteq Pipeline
    BY <1>1, <1>3, DropFacts DEF FailStage, PassStage, PassLastStage, FlowInv, OthersTyped
  <2>2. passes' \in [Pipeline -> Nat]
    BY <1>1 DEF FailStage, PassStage, PassLastStage, FlowInv, OthersTyped
  <2> QED BY <2>1, <2>2 DEF FailStage, PassStage, PassLastStage, FlowInv, OthersTyped, counters
<1> QED BY <1>1, <1>2, <1>4, <1>5, VerdictEffect, RunFlow

LEMMA NextStageFlow ==
  ASSUME FlowInv, NEW x \in Process, InsertNextStage(x) \/ NextStageRaises(x)
  PROVE  FlowInv'
<1>1. PICK p \in Pipeline : p = proc[x].pipeline
  BY ProcessFacts
<1>2. proc' = [proc EXCEPT ![x] = Idle]
  BY DEF InsertNextStage, NextStageRaises
<1>3. OneMoves
  BY <1>2, IdleFacts DEF OneMoves
<1>4. CASE InsertNextStage(x)
  <2>1. PICK n, k : n = proc[x].counter /\ k = NextRun(proc[x].run)
    OBVIOUS
  <2>2. SetRun(p, n, k, "Building")
    BY <1>1, <1>4, <2>1 DEF InsertNextStage, SetRun
  <2>3. k # FirstRun
    <3>1. proc[x].run[1] \in Nat \ {0}
      BY ProcessFacts DEF ProcState
    <3> QED BY <2>1, <3>1 DEF NextRun, FirstRun
  <2>4. OthersTyped' /\ UNCHANGED rewritten
    BY <1>4 DEF InsertNextStage, FlowInv, OthersTyped, history, counters
  <2> QED BY <1>3, <2>2, <2>3, <2>4, RunFlow DEF RunState
<1>5. CASE NextStageRaises(x)
  <2>1. Downstreams(p) \in SUBSET Pipeline
    BY DEF Downstreams
  <2>2. dropped' \subseteq Pipeline
    BY <1>1, <1>5, <2>1, DropFacts DEF NextStageRaises, FlowInv
  <2>3. OthersTyped' /\ UNCHANGED <<inst, rewritten>>
    BY <1>5, <2>2 DEF NextStageRaises, FlowInv, OthersTyped, rows, counters
  <2> QED BY <1>2, <2>3, IdleFacts, ProcessMoves
<1> QED BY <1>4, <1>5

LEMMA RerunFlow ==
  ASSUME FlowInv, NEW p \in Pipeline, NEW n \in DOMAIN inst[p], NEW s \in 1..NStages[p],
         RerunStage(p, n, s)
  PROVE  FlowInv'
<1>1. PICK r \in 1..(MaxRuns - 1) : SetRun(p, n, <<s, r + 1>>, "Building")
  BY DEF RerunStage, SetRun
<1>2. <<s, r + 1>> # FirstRun
  BY BoundAssumption DEF FirstRun
<1>3. UNCHANGED <<head, mods, paused, proc, dropped, saved, passes, rewritten, userTriggers>>
  BY DEF RerunStage, history
<1>4. inputs' \in 0..MaxInputs /\ inputs' >= inputs
  BY BoundAssumption DEF RerunStage, Input, FlowInv, OthersTyped
<1>5. OthersTyped'
  BY <1>3, <1>4, BoundAssumption DEF FlowInv, OthersTyped
<1>6. OneMoves
  BY <1>3 DEF OneMoves
<1> QED BY <1>1, <1>2, <1>3, <1>5, <1>6, RunFlow DEF RunState

LEMMA InputFlow ==
  ASSUME FlowInv,
         \/ \E x \in User, p \in Pipeline : UserTriggers(x, p)
         \/ \E p \in Pipeline : SetPaused(p)
         \/ \E g \in Git : Push(g)
         \/ UNCHANGED vars
  PROVE  FlowInv'
<1>1. /\ MaxInputs \in Nat /\ inputs \in 0..MaxInputs
      /\ userTriggers \in [Pipeline -> 0..inputs]
  BY BoundAssumption DEF FlowInv, OthersTyped
<1>2. ASSUME NEW x \in User, NEW p \in Pipeline, UserTriggers(x, p)
      PROVE  FlowInv'
  <2>1. inputs' \in 0..MaxInputs /\ userTriggers' \in [Pipeline -> 0..inputs']
    BY <1>1, <1>2 DEF UserTriggers, Input
  <2>2. UNCHANGED <<inst, rewritten>> /\ OthersTyped'
    BY <1>2, <2>1 DEF UserTriggers, FlowInv, OthersTyped, rows, history
  <2>3. x \in Process /\ {p} \in SUBSET Pipeline /\ proc' = Enqueue(x, {p})
    BY <1>2 DEF UserTriggers, Process
  <2> QED BY <2>2, <2>3, ProcessEnqueues
<1>3. ASSUME \/ \E p \in Pipeline : SetPaused(p)
             \/ \E g \in Git : Push(g)
             \/ UNCHANGED vars
      PROVE  FlowInv'
  <2>1. UNCHANGED <<inst, proc, saved, dropped, passes, rewritten, mods, userTriggers>>
    BY <1>3 DEF SetPaused, Push, rows, history, counters, vars
  <2>2. head' \in [Git -> Commit] /\ paused' \subseteq Pipeline
    BY <1>3 DEF SetPaused, Push, rows, counters, vars, FlowInv, OthersTyped
  <2>3. inputs' \in 0..MaxInputs /\ userTriggers \in [Pipeline -> 0..inputs']
    BY <1>1, <1>3 DEF SetPaused, Push, Input, counters, vars
  <2>4. OthersTyped'
    BY <2>1, <2>2, <2>3 DEF FlowInv, OthersTyped
  <2>5. \A u \in Pipeline : Begun(u) = Begun(u)'
    BY <2>1 DEF Begun
  <2>6. InstancesSound' /\ ProcessesSound'
    BY <2>1, <2>5 DEF FlowInv, InstancesSound, ProcessesSound, Sound, Holds, RunsTyped
  <2> QED BY <2>4, <2>6 DEF FlowInv
<1> QED BY <1>2, <1>3

LEMMA InitFlow == Init => FlowInv
<1> SUFFICES ASSUME Init PROVE FlowInv
  OBVIOUS
<1>1. \A n \in 0..MaxRevision : [k \in 1..n |-> k] \in Seq(Revision)
  BY BoundAssumption DEF Revision, Commit
<1>2. mods \in [Git -> Seq(Revision)]
  BY <1>1 DEF Init
<1>3. OthersTyped
  BY <1>2, BoundAssumption DEF Init, OthersTyped
<1>4. InstancesSound
  <2>1. <<>> \in Seq(Instance) /\ DOMAIN <<>> = {}
    OBVIOUS
  <2> QED BY <2>1 DEF Init, InstancesSound
<1>5. ProcessesSound
  BY IdleFacts DEF Init, ProcessesSound
<1> QED BY <1>3, <1>4, <1>5 DEF FlowInv

LEMMA NextFlow == FlowInv /\ [Next]_vars => FlowInv'
<1>1. ASSUME FlowInv, NEW x \in Process, TriggerStep(x)
      PROVE  FlowInv'
  BY <1>1, TakeFlow, ReadGitFlow, CreateFlow, RaisesFlow, ReadUpstreamFlow, VerifyFlow,
     InsertFlow DEF TriggerStep
<1>2. ASSUME FlowInv, NEW x \in Poller,
             PollerStep(x) \/ \E g \in Git : AskLatestRevision(x, g)
      PROVE  FlowInv'
  <2>1. x \in Process
    BY DEF Process
  <2> QED BY <1>2, <2>1, PollFlow, SaveFlow DEF PollerStep
<1>3. ASSUME FlowInv, NEW x \in Channel, ChannelStep(x)
      PROVE  FlowInv'
  <2>1. x \in Process
    BY DEF Process
  <2> QED BY <1>3, <2>1, CompleteFlow, NextStageFlow DEF ChannelStep
<1>4. ASSUME FlowInv, NEW p \in Pipeline, NEW n \in DOMAIN inst[p], NEW x \in Channel,
             NEW k \in RunsOf(p), StartCompletion(x, p, n, k) \/ StartLateCompletion(x, p, n, k)
      PROVE  FlowInv'
  <2>1. x \in Process
    BY DEF Process
  <2> QED BY <1>4, <2>1, LoadFlow
<1> QED BY <1>1, <1>2, <1>3, <1>4, InputFlow, RerunFlow DEF Next

LEMMA FlowImplies == FlowInv => TypeOK /\ BuiltFromPassed
<1> SUFFICES ASSUME FlowInv PROVE TypeOK /\ BuiltFromPassed
  OBVIOUS
<1>1. ASSUME NEW p \in Pipeline, NEW n \in DOMAIN inst[p]
      PROVE  /\ inst[p][n].runs \in [RunsOf(p) -> RunState]
             /\ DOMAIN inst[p][n].revs = Materials(p)
             /\ \A g \in GitsOf[p] : inst[p][n].revs[g] \in Revision
             /\ \A u \in UpstreamsOf[p] :
                  /\ inst[p][n].revs[u] \in DOMAIN inst[u]
                  /\ inst[p][n].revs[u] \in Begun(u)
  <2>1. RunsTyped(inst[p][n], p)
    BY InstanceFacts DEF FlowInv
  <2>2. Sound(inst[p][n].revs, Materials(p))
    BY DEF FlowInv, InstancesSound
  <2>3. /\ DOMAIN inst[p][n].revs = Materials(p)
        /\ \A g \in GitsOf[p] : inst[p][n].revs[g] \in Revision
        /\ \A u \in UpstreamsOf[p] : inst[p][n].revs[u] \in Begun(u)
    BY <2>2, GraphFacts DEF Sound
  <2>4. \A u \in UpstreamsOf[p] : inst[p][n].revs[u] \in DOMAIN inst[u]
    BY <2>3 DEF Begun
  <2> QED BY <2>1, <2>3, <2>4 DEF RunsTyped
<1>2. \A x \in Process : proc[x] \in ProcState
  BY ProcessFacts
<1>3. TypeOK
  BY <1>1, <1>2 DEF TypeOK, FlowInv, OthersTyped, ProcState, RunState
<1>4. BuiltFromPassed
  BY <1>1 DEF BuiltFromPassed, Begun, FirstRun
<1> QED BY <1>3, <1>4

(***************************************************************************)
(* Every row and every process is well typed: an instance has a revision   *)
(* of each of its materials, and of an upstream pipeline a counter that    *)
(* exists.                                                                 *)
(***************************************************************************)
THEOREM FlowTypeCorrect == Spec => []TypeOK
<1>1. FlowInv => TypeOK
  BY FlowImplies
<1> QED BY <1>1, InitFlow, NextFlow, PTL DEF Spec

(***************************************************************************)
(* Nothing is built from an instance that has only begun: what             *)
(* get_latest_passed_instance answers has its first run passed, and that   *)
(* is so when the instance is inserted, and ever after, unless a second    *)
(* process writes a verdict on that run.  Nothing is said of later stages  *)
(* and of reruns, which may fail.                                          *)
(***************************************************************************)
THEOREM NothingBuiltTooEarly == Spec => []BuiltFromPassed
<1>1. FlowInv => BuiltFromPassed
  BY FlowImplies
<1> QED BY <1>1, InitFlow, NextFlow, PTL DEF Spec

-----------------------------------------------------------------------------
(* The git revisions at the end of all paths, by induction over pipelines. *)

\* The leaves of these revisions, if l has those of all instances.
LeavesFrom(l, revs) ==
  UNION {IF m \in Git THEN {<<m, revs[m]>>} ELSE l[m][revs[m]] : m \in DOMAIN revs}

LeavesUpTo(l, i, k) ==
  l = [p \in 1..k |-> [n \in DOMAIN i[p] |-> LeavesFrom(l, i[p][n].revs)]]

\* The materials of an instance are materials of its pipeline.
WellFormed(i) ==
  \A p \in Pipeline : \A n \in DOMAIN i[p] :
    /\ DOMAIN i[p][n].revs = Materials(p)
    /\ \A u \in UpstreamsOf[p] : i[p][n].revs[u] \in DOMAIN i[u]

LEMMA LeavesFromSame ==
  ASSUME NEW l, NEW m, NEW revs,
         \A u \in DOMAIN revs \ Git : l[u][revs[u]] = m[u][revs[u]]
  PROVE  LeavesFrom(l, revs) = LeavesFrom(m, revs)
<1>1. \A u \in DOMAIN revs :
        (IF u \in Git THEN {<<u, revs[u]>>} ELSE l[u][revs[u]])
          = (IF u \in Git THEN {<<u, revs[u]>>} ELSE m[u][revs[u]])
  OBVIOUS
<1> QED BY <1>1, Zenon DEF LeavesFrom

LEMMA UpstreamOfInstance ==
  ASSUME NEW i, WellFormed(i), NEW p \in Pipeline, NEW n \in DOMAIN i[p],
         NEW u \in DOMAIN i[p][n].revs \ Git
  PROVE  u \in UpstreamsOf[p] /\ u \in Pipeline /\ u < p /\ i[p][n].revs[u] \in DOMAIN i[u]
BY GraphFacts DEF WellFormed, Materials

\* One more pipeline only looks at those before it.
LEMMA LeavesStep ==
  ASSUME NEW i, WellFormed(i), NEW k \in Nat, k + 1 \in Pipeline,
         NEW l, LeavesUpTo(l, i, k)
  PROVE  \E m : LeavesUpTo(m, i, k + 1)
<1> DEFINE new == [n \in DOMAIN i[k + 1] |-> LeavesFrom(l, i[k + 1][n].revs)]
           m == [p \in 1..k + 1 |-> IF p = k + 1 THEN new ELSE l[p]]
<1>1. \A p \in 1..k : m[p] = l[p]
  OBVIOUS
<1>2. \A p \in 1..k + 1 : p \in Pipeline /\ p \in Nat
  BY GraphAssumption DEF Pipeline
<1>3. ASSUME NEW p \in 1..k + 1, NEW n \in DOMAIN i[p]
      PROVE  LeavesFrom(m, i[p][n].revs) = LeavesFrom(l, i[p][n].revs)
  <2>1. \A u \in DOMAIN i[p][n].revs \ Git : u \in Pipeline /\ u < p
    BY <1>2, <1>3, UpstreamOfInstance
  <2>2. \A u \in DOMAIN i[p][n].revs \ Git : u \in 1..k
    BY <1>2, <2>1 DEF Pipeline
  <2>3. \A u \in DOMAIN i[p][n].revs \ Git : m[u] = l[u]
    BY <1>1, <2>2
  <2> HIDE DEF m
  <2> QED BY <2>3, LeavesFromSame
<1>4. ASSUME NEW p \in 1..k + 1
      PROVE  m[p] = [n \in DOMAIN i[p] |-> LeavesFrom(m, i[p][n].revs)]
  <2>1. CASE p = k + 1
    <3>1. m[p] = [n \in DOMAIN i[p] |-> LeavesFrom(l, i[p][n].revs)]
      BY <2>1
    <3> HIDE DEF m
    <3> QED BY <1>3, <3>1
  <2>2. CASE p \in 1..k
    <3>1. m[p] = [n \in DOMAIN i[p] |-> LeavesFrom(l, i[p][n].revs)]
      BY <1>1, <2>2 DEF LeavesUpTo
    <3> HIDE DEF m
    <3> QED BY <1>3, <3>1
  <2> QED BY <2>1, <2>2
<1>5. m = [p \in 1..k + 1 |-> m[p]]
  OBVIOUS
<1> HIDE DEF m
<1>6. m = [p \in 1..k + 1 |-> [n \in DOMAIN i[p] |-> LeavesFrom(m, i[p][n].revs)]]
  BY <1>4, <1>5
<1> QED BY <1>6 DEF LeavesUpTo

LEMMA LeavesExist ==
  ASSUME NEW i, WellFormed(i)
  PROVE  \E l : LeavesUpTo(l, i, NPipelines)
<1> DEFINE T == {k \in 0..NPipelines : ~ \E l : LeavesUpTo(l, i, k)}
<1>0. NPipelines \in Nat
  BY GraphAssumption
<1>1. SUFFICES ASSUME T # {} PROVE FALSE
  BY <1>0
<1>2. PICK k \in T : \A j \in T : k <= j
  <2>1. T \in SUBSET Nat
    BY <1>0
  <2> HIDE DEF T
  <2> QED BY <1>1, <2>1, LeastNat
<1>3. CASE k = 0
  <2> DEFINE l == [p \in 1..0 |-> {}]
  <2>1. l = [p \in 1..0 |-> [n \in DOMAIN i[p] |-> LeavesFrom(l, i[p][n].revs)]]
    OBVIOUS
  <2>2. LeavesUpTo(l, i, 0)
    BY <2>1 DEF LeavesUpTo
  <2> QED BY <1>3, <2>2
<1>4. CASE k # 0
  <2>1. k - 1 \in Nat /\ k - 1 \in 0..NPipelines /\ k = (k - 1) + 1 /\ k \in Pipeline
        /\ ~ k <= k - 1
    BY <1>0, <1>4 DEF Pipeline
  <2>2. k - 1 \notin T
    <3> HIDE DEF T
    <3> QED BY <1>2, <2>1
  <2>3. PICK l : LeavesUpTo(l, i, k - 1)
    BY <2>1, <2>2
  <2>4. \E m : LeavesUpTo(m, i, k)
    BY <2>1, <2>3, LeavesStep
  <2> QED BY <2>4
<1> QED BY <1>3, <1>4

LEMMA LeavesEquation ==
  ASSUME NEW i, NEW l, LeavesUpTo(l, i, NPipelines), NEW p \in Pipeline,
         NEW n \in DOMAIN i[p]
  PROVE  l[p][n] = LeavesFrom(l, i[p][n].revs)
<1> DEFINE of(q) == [k \in DOMAIN i[q] |-> LeavesFrom(l, i[q][k].revs)]
<1>1. l = [q \in Pipeline |-> of(q)]
  BY DEF LeavesUpTo, Pipeline
<1>2. of(p)[n] = LeavesFrom(l, i[p][n].revs)
  OBVIOUS
<1> HIDE DEF of
<1>3. l[p] = of(p)
  BY <1>1, Zenon
<1> QED BY <1>2, <1>3

\* Instances keep their leaves while others are added.
LEMMA LeavesStay ==
  ASSUME NEW i, WellFormed(i), NEW j, WellFormed(j),
         \A p \in Pipeline : \A n \in DOMAIN i[p] :
           n \in DOMAIN j[p] /\ j[p][n].revs = i[p][n].revs,
         NEW l, LeavesUpTo(l, i, NPipelines), NEW m, LeavesUpTo(m, j, NPipelines)
  PROVE  \A p \in Pipeline : \A n \in DOMAIN i[p] : m[p][n] = l[p][n]
<1> DEFINE T == {p \in Pipeline : \E n \in DOMAIN i[p] : m[p][n] # l[p][n]}
<1>1. SUFFICES ASSUME T # {} PROVE FALSE
  OBVIOUS
<1>2. PICK p \in T : \A q \in T : p <= q
  <2>1. T \in SUBSET Nat
    BY GraphFacts
  <2> HIDE DEF T
  <2> QED BY <1>1, <2>1, LeastNat
<1>3. PICK n \in DOMAIN i[p] : m[p][n] # l[p][n]
  BY <1>2
<1>4. n \in DOMAIN j[p] /\ j[p][n].revs = i[p][n].revs
  BY <1>3
<1>5. l[p][n] = LeavesFrom(l, i[p][n].revs)
  BY <1>3, LeavesEquation
<1>6. m[p][n] = LeavesFrom(m, i[p][n].revs)
  BY <1>3, <1>4, LeavesEquation
<1>7. ASSUME NEW u \in DOMAIN i[p][n].revs \ Git
      PROVE  l[u][i[p][n].revs[u]] = m[u][i[p][n].revs[u]]
  <2>1. u \in Pipeline /\ u < p /\ i[p][n].revs[u] \in DOMAIN i[u]
    BY <1>3, <1>7, UpstreamOfInstance
  <2>2. u \notin T
    <3>1. ~ p <= u
      BY <2>1, GraphFacts
    <3> HIDE DEF T
    <3> QED BY <1>2, <3>1
  <2> QED BY <2>1, <2>2
<1>8. LeavesFrom(l, i[p][n].revs) = LeavesFrom(m, i[p][n].revs)
  BY <1>7, LeavesFromSame
<1> QED BY <1>3, <1>5, <1>6, <1>8

\* What the definition by recursion defines.
LeavesGiven(i) == CHOOSE l : LeavesUpTo(l, i, NPipelines)

LEMMA LeavesGivenFacts ==
  ASSUME NEW i, WellFormed(i)
  PROVE  LeavesUpTo(LeavesGiven(i), i, NPipelines)
BY LeavesExist DEF LeavesGiven

LEMMA LeavesOfFacts == LeavesOf = LeavesGiven(inst)
BY DEF LeavesOf, LeavesGiven, LeavesUpTo, LeavesFrom, Pipeline

LEMMA InstancesWellFormed == InstancesSound => WellFormed(inst)
<1> SUFFICES ASSUME InstancesSound, NEW p \in Pipeline, NEW n \in DOMAIN inst[p]
             PROVE  /\ DOMAIN inst[p][n].revs = Materials(p)
                    /\ \A u \in UpstreamsOf[p] : inst[p][n].revs[u] \in DOMAIN inst[u]
  BY DEF WellFormed
<1>1. Sound(inst[p][n].revs, Materials(p))
  BY DEF InstancesSound
<1> QED BY <1>1, GraphFacts DEF Sound, Begun

-----------------------------------------------------------------------------
(* What the resolver compared is still the same when it is inserted.       *)

FanInInv ==
  /\ FanInConsistent
  /\ \A x \in Process : proc[x].at = "insert" => Consistent(Leaves(proc[x].proposed))

\* Instances are added, and keep their revisions.
InstancesKept ==
  \A p \in Pipeline : \A n \in DOMAIN inst[p] :
    n \in DOMAIN inst'[p] /\ inst'[p][n].revs = inst[p][n].revs

LEMMA InstancesWellFormedNext == InstancesSound' => WellFormed(inst')
<1> SUFFICES ASSUME InstancesSound', NEW p \in Pipeline, NEW n \in DOMAIN inst'[p]
             PROVE  /\ DOMAIN inst'[p][n].revs = Materials(p)
                    /\ \A u \in UpstreamsOf[p] : inst'[p][n].revs[u] \in DOMAIN inst'[u]
  BY DEF WellFormed
<1>1. Sound(inst[p][n].revs, Materials(p))'
  BY DEF InstancesSound
<1> QED BY <1>1, GraphFacts DEF Sound, Begun

LEMMA LeavesOfNext == LeavesOf' = LeavesGiven(inst')
BY DEF LeavesOf, LeavesGiven, LeavesUpTo, LeavesFrom, Pipeline

LEMMA LeavesOfStay ==
  ASSUME FlowInv, FlowInv', InstancesKept
  PROVE  \A p \in Pipeline : \A n \in DOMAIN inst[p] : LeavesOf'[p][n] = LeavesOf[p][n]
<1>1. WellFormed(inst)
  BY InstancesWellFormed DEF FlowInv
<1>2. WellFormed(inst')
  BY InstancesWellFormedNext DEF FlowInv
<1>3. PICK i, j : i = inst /\ j = inst'
  OBVIOUS
<1>4. \A p \in Pipeline : \A n \in DOMAIN i[p] :
        n \in DOMAIN j[p] /\ j[p][n].revs = i[p][n].revs
  BY <1>3 DEF InstancesKept
<1>5. LeavesUpTo(LeavesGiven(i), i, NPipelines) /\ LeavesUpTo(LeavesGiven(j), j, NPipelines)
  BY <1>1, <1>2, <1>3, LeavesGivenFacts
<1>6. \A p \in Pipeline : \A n \in DOMAIN i[p] : LeavesGiven(j)[p][n] = LeavesGiven(i)[p][n]
  BY <1>1, <1>2, <1>3, <1>4, <1>5, LeavesStay
<1>7. LeavesOf = LeavesGiven(i)
  BY <1>3, LeavesOfFacts
<1>8. LeavesOf' = LeavesGiven(j)
  BY <1>3, LeavesOfNext
<1> QED BY <1>3, <1>6, <1>7, <1>8

LEMMA LeavesOfInstance ==
  ASSUME InstancesSound, NEW p \in Pipeline, NEW n \in DOMAIN inst[p]
  PROVE  LeavesOf[p][n] = Leaves(inst[p][n].revs)
<1>1. LeavesUpTo(LeavesOf, inst, NPipelines)
  BY InstancesWellFormed, LeavesGivenFacts, LeavesOfFacts
<1>2. LeavesOf[p][n] = LeavesFrom(LeavesOf, inst[p][n].revs)
  BY <1>1, LeavesEquation
<1> QED BY <1>2 DEF LeavesFrom, Leaves

LEMMA FanInFrame ==
  ASSUME FlowInv, FlowInv', FanInInv, InstancesKept,
         \A p \in Pipeline : \A n \in DOMAIN inst'[p] :
           \/ n \in DOMAIN inst[p]
           \/ \E x \in Process : /\ proc[x].at = "insert"
                                 /\ inst'[p][n].revs = proc[x].proposed,
         \A x \in Process : proc'[x].at = "insert" =>
           /\ Consistent(Leaves(proc'[x].proposed))
           /\ \E materials \in SUBSET (Git \cup Pipeline) :
                Sound(proc'[x].proposed, materials)
  PROVE  FanInInv'
<1>1. \A p \in Pipeline : \A n \in DOMAIN inst[p] : LeavesOf'[p][n] = LeavesOf[p][n]
  BY LeavesOfStay
\* What was read of instances that have passed has the leaves it had.
<1>2. ASSUME NEW revs, NEW materials \in SUBSET (Git \cup Pipeline), Sound(revs, materials)
      PROVE  Leaves(revs)' = Leaves(revs)
  <2>1. PICK l, m : l = LeavesOf /\ m = LeavesOf'
    OBVIOUS
  <2>2. \A u \in DOMAIN revs \ Git : l[u][revs[u]] = m[u][revs[u]]
    <3>1. \A u \in DOMAIN revs \ Git : u \in Pipeline /\ revs[u] \in DOMAIN inst[u]
      BY <1>2 DEF Sound, Begun
    <3> QED BY <1>1, <2>1, <3>1
  <2>3. LeavesFrom(l, revs) = LeavesFrom(m, revs)
    BY <2>2, LeavesFromSame
  <2> QED BY <2>1, <2>3 DEF LeavesFrom, Leaves
<1>3. ASSUME NEW p \in Pipeline, NEW n \in DOMAIN inst'[p]
      PROVE  Consistent(LeavesOf[p][n])'
  <2>1. CASE n \in DOMAIN inst[p]
    <3>1. LeavesOf'[p][n] = LeavesOf[p][n] /\ Consistent(LeavesOf[p][n])
      BY <1>1, <2>1 DEF FanInInv, FanInConsistent
    <3> QED BY <3>1 DEF Consistent
  <2>2. CASE n \notin DOMAIN inst[p]
    <3>0. PICK x \in Process : \E revs : /\ proc[x].at = "insert" /\ revs = proc[x].proposed
                                         /\ inst'[p][n].revs = revs
      BY <2>2
    <3>1. PICK revs : /\ proc[x].at = "insert" /\ revs = proc[x].proposed
                      /\ inst'[p][n].revs = revs
      BY <3>0
    <3>2. Consistent(Leaves(revs))
      BY <3>1 DEF FanInInv
    <3>3. /\ proc[x].pipeline \in Pipeline
          /\ Sound(revs, Materials(proc[x].pipeline) \ proc[x].unread)
      BY <3>1, ProcessFacts DEF Holds
    <3>4. Leaves(revs)' = Leaves(revs)
      BY <1>2, <3>3, GraphFacts
    <3>5. LeavesOf'[p][n] = Leaves(revs)'
      <4>1. LeavesUpTo(LeavesOf', inst', NPipelines)
        BY InstancesWellFormedNext, LeavesOfNext, LeavesGivenFacts DEF FlowInv
      <4>2. LeavesOf'[p][n] = LeavesFrom(LeavesOf', inst'[p][n].revs)
        BY <4>1, LeavesEquation
      <4> QED BY <3>1, <4>2 DEF LeavesFrom, Leaves
    <3>6. Consistent(LeavesOf'[p][n])
      BY <3>2, <3>4, <3>5
    <3> QED BY <3>6 DEF Consistent
  <2> QED BY <2>1, <2>2
<1>4. ASSUME NEW x \in Process, proc'[x].at = "insert"
      PROVE  Consistent(Leaves(proc[x].proposed))'
  <2>1. PICK revs : revs = proc'[x].proposed
    OBVIOUS
  <2>2. Consistent(Leaves(revs))
    BY <1>4, <2>1
  <2>3. Leaves(revs)' = Leaves(revs)
    BY <1>2, <1>4, <2>1
  <2> QED BY <2>1, <2>2, <2>3 DEF Consistent
<1> QED BY <1>3, <1>4 DEF FanInInv, FanInConsistent

\* The only step to "insert" is Verify.
LEMMA NoNewInsert ==
  ASSUME FlowInv, NEW x \in Process, TriggerStep(x), ~ Verify(x)
  PROVE  \A y \in Process : proc'[y].at = "insert" => proc'[y] = proc[y]
<1>0. proc \in [Process -> ProcState]
  BY DEF FlowInv, ProcessesSound
<1>1. CASE \E r \in ProcState : proc' = [proc EXCEPT ![x] = r] /\ r.at # "insert"
  BY <1>0, <1>1
<1>2. ASSUME NEW queue \in SUBSET Pipeline, proc' = Enqueue(x, queue)
      PROVE  \E r \in ProcState : proc' = [proc EXCEPT ![x] = r] /\ r.at # "insert"
  BY <1>2, EnqueueFacts
<1>3. CASE TakePipeline(x)
  BY <1>0, <1>3 DEF TakePipeline, Idle
<1>4. CASE RefusePaused(x)
  <2>1. PICK p \in proc[x].queue : proc' = Enqueue(x, proc[x].queue \ {p})
    BY <1>4 DEF RefusePaused
  <2>2. proc[x].queue \ {p} \in SUBSET Pipeline
    BY ProcessFacts
  <2> QED BY <1>1, <1>2, <2>1, <2>2
<1>5. ASSUME NEW g \in Git, ReadModification(x, g)
      PROVE  \E r \in ProcState : proc' = [proc EXCEPT ![x] = r] /\ r.at # "insert"
  <2>1. Last(mods[g]) \in Revision
    BY <1>5, LastFacts DEF ReadModification, FlowInv, OthersTyped
  <2>2. g \notin Pipeline
    BY GraphFacts
  <2> QED BY <1>5, <2>1, <2>2, ProposeFacts DEF ReadModification
<1>6. ASSUME NEW g \in Git, AskGit(x, g)
      PROVE  \A y \in Process : proc'[y].at = "insert" => proc'[y] = proc[y]
  BY <1>0, <1>6 DEF AskGit, ProcState
<1>7. CASE CreateModification(x)
  <2>1. PICK g, rev : g = proc[x].git /\ rev = proc[x].rev /\ proc' = Propose(x, g, rev)
    BY <1>7 DEF CreateModification
  <2>2. g \in Git /\ g \in proc[x].unread /\ rev \in Revision /\ g \notin Pipeline
    BY <1>7, <2>1, ProcessFacts, GraphFacts DEF CreateModification, Holds
  <2>3. proc[x].at \in {"read", "create"}
    BY <1>7 DEF CreateModification
  <2>4. \E r \in ProcState : Propose(x, g, rev) = [proc EXCEPT ![x] = r] /\ r.at = "read"
    BY <2>2, <2>3, ProposeFacts
  <2>5. \E r \in ProcState : proc' = [proc EXCEPT ![x] = r] /\ r.at # "insert"
    BY <2>1, <2>4
  <2> QED BY <1>1, <2>5
<1>8. CASE CreateRaises(x) \/ InsertRaises(x)
  BY <1>0, <1>8 DEF CreateRaises, InsertRaises, Raise, Idle
<1>9. CASE proc' = NextTrigger(x)
  BY <1>1, <1>2, <1>9, ProcessFacts DEF NextTrigger
<1>10. ASSUME NEW u \in Pipeline, NEW n \in Begun(u), ReadUpstream(x, u),
              proc' = Propose(x, u, n)
       PROVE  \E r \in ProcState : proc' = [proc EXCEPT ![x] = r] /\ r.at # "insert"
  <2>1. u \notin Git /\ u \in proc[x].unread /\ proc[x].at = "read"
    BY <1>10, GraphFacts DEF ReadUpstream
  <2> QED BY <1>10, <2>1, ProposeFacts
<1>11. ASSUME NEW u \in Pipeline, ReadUpstream(x, u)
       PROVE  \A y \in Process : proc'[y].at = "insert" => proc'[y] = proc[y]
  BY <1>1, <1>9, <1>10, <1>11, InstanceFacts DEF ReadUpstream, FlowInv
<1>12. CASE InsertInstance(x)
  BY <1>9, <1>12 DEF InsertInstance
<1> QED BY <1>1, <1>3, <1>4, <1>5, <1>6, <1>7, <1>8, <1>11, <1>12 DEF TriggerStep

LEMMA InsertedSound ==
  ASSUME FlowInv, NEW x \in Process, proc[x].at = "insert"
  PROVE  \E materials \in SUBSET (Git \cup Pipeline) : Sound(proc[x].proposed, materials)
<1>1. proc[x].pipeline \in Pipeline
      /\ Sound(proc[x].proposed, Materials(proc[x].pipeline) \ proc[x].unread)
  BY ProcessFacts DEF Holds
<1>2. Materials(proc[x].pipeline) \ proc[x].unread \in SUBSET (Git \cup Pipeline)
  BY <1>1, GraphFacts
<1> QED BY <1>1, <1>2

\* Instances that were read stay as they are; none is inserted unverified.
LEMMA FanInOthers ==
  ASSUME FlowInv, FlowInv', FanInInv, InstancesKept,
         \A p \in Pipeline : \A n \in DOMAIN inst'[p] :
           \/ n \in DOMAIN inst[p]
           \/ \E x \in Process : /\ proc[x].at = "insert"
                                 /\ inst'[p][n].revs = proc[x].proposed,
         \A y \in Process : proc'[y].at = "insert" => proc'[y] = proc[y]
  PROVE  FanInInv'
<1>1. ASSUME NEW x \in Process, proc'[x].at = "insert"
      PROVE  /\ Consistent(Leaves(proc'[x].proposed))
             /\ \E materials \in SUBSET (Git \cup Pipeline) :
                  Sound(proc'[x].proposed, materials)
  <2>1. proc'[x] = proc[x]
    BY <1>1
  <2>2. Consistent(Leaves(proc[x].proposed))
    BY <1>1, <2>1 DEF FanInInv
  <2>3. \E materials \in SUBSET (Git \cup Pipeline) : Sound(proc[x].proposed, materials)
    BY <1>1, <2>1, InsertedSound
  <2> QED BY <2>1, <2>2, <2>3
<1> QED BY <1>1, FanInFrame

LEMMA VerifyFanIn ==
  ASSUME FlowInv, FanInInv, NEW x \in Process, Verify(x)
  PROVE  FanInInv'
<1>0. FlowInv' /\ UNCHANGED inst
  BY VerifyFlow DEF Verify, rows
<1>1. InstancesKept
  BY <1>0 DEF InstancesKept
<1>2. CASE proc' = NextTrigger(x)
  <2>1. \E r \in ProcState : proc' = [proc EXCEPT ![x] = r] /\ r.at # "insert"
    <3>1. PICK queue \in SUBSET Pipeline : proc' = Enqueue(x, queue)
      BY <1>2, ProcessFacts DEF NextTrigger
    <3>2. PICK r \in ProcState : /\ Enqueue(x, queue) = [proc EXCEPT ![x] = r]
                                 /\ r.at \in {"idle", "trigger"}
      BY EnqueueFacts
    <3> QED BY <3>1, <3>2
  <2>2. \A y \in Process : proc'[y].at = "insert" => proc'[y] = proc[y]
    BY <2>1 DEF FlowInv, ProcessesSound
  <2> QED BY <1>0, <1>1, <2>2, FanInOthers
<1>3. CASE /\ Consistent(Leaves(proc[x].proposed))
           /\ proc' = [proc EXCEPT ![x].at = "insert",
                                   ![x].counter = Len(inst[proc[x].pipeline]) + 1]
  <2>1. /\ proc'[x].proposed = proc[x].proposed
        /\ \A y \in Process \ {x} : proc'[y] = proc[y]
    BY <1>3 DEF FlowInv, ProcessesSound, ProcState
  <2>2. \E materials \in SUBSET (Git \cup Pipeline) : Sound(proc[x].proposed, materials)
    <3>1. proc[x].pipeline \in Pipeline
          /\ Sound(proc[x].proposed, Materials(proc[x].pipeline) \ proc[x].unread)
      BY ProcessFacts DEF Holds, Verify
    <3>2. Materials(proc[x].pipeline) \ proc[x].unread \in SUBSET (Git \cup Pipeline)
      BY <3>1, GraphFacts
    <3> QED BY <3>1, <3>2
  <2>3. ASSUME NEW y \in Process, proc'[y].at = "insert"
        PROVE  /\ Consistent(Leaves(proc'[y].proposed))
               /\ \E materials \in SUBSET (Git \cup Pipeline) :
                    Sound(proc'[y].proposed, materials)
    <3>1. CASE y = x
      <4>1. PICK revs : revs = proc[x].proposed /\ revs = proc'[y].proposed
        BY <2>1, <3>1
      <4> QED BY <1>3, <2>2, <4>1
    <3>2. CASE y # x
      <4>1. PICK revs : revs = proc[y].proposed /\ revs = proc'[y].proposed
        BY <2>1, <3>2
      <4>2. proc[y].at = "insert"
        BY <2>1, <2>3, <3>2
      <4>3. Consistent(Leaves(revs))
        BY <4>1, <4>2 DEF FanInInv
      <4> QED BY <4>1, <4>2, <4>3, InsertedSound
    <3> QED BY <3>1, <3>2
  <2> QED BY <1>0, <1>1, <2>3, FanInFrame
<1> QED BY <1>2, <1>3 DEF Verify

LEMMA InsertFanIn ==
  ASSUME FlowInv, FanInInv, NEW x \in Process, InsertInstance(x)
  PROVE  FanInInv'
<1>0. FlowInv'
  BY InsertFlow
<1>1. PICK p \in Pipeline : p = proc[x].pipeline
  BY ProcessFacts
<1>2. /\ Len(inst'[p]) = Len(inst[p]) + 1
      /\ \A n \in 1..Len(inst[p]) : inst'[p][n] = inst[p][n]
      /\ inst'[p][Len(inst[p]) + 1] = [runs |-> NewRuns(p), revs |-> proc[x].proposed]
      /\ \A q \in Pipeline \ {p} : inst'[q] = inst[q]
  BY <1>1, InsertEffect
<1>3. /\ \A q \in Pipeline : /\ Len(inst[q]) \in Nat
                             /\ DOMAIN inst[q] = 1..Len(inst[q])
      /\ DOMAIN inst'[p] = 1..Len(inst[p]) + 1
  <2>1. inst' \in [Pipeline -> Seq(Instance)]
    BY <1>1, InsertEffect
  <2> QED BY <1>2, <2>1, InstanceFacts DEF FlowInv
<1>4. InstancesKept
  BY <1>2, <1>3 DEF InstancesKept
<1>5. ASSUME NEW q \in Pipeline, NEW n \in DOMAIN inst'[q], n \notin DOMAIN inst[q]
      PROVE  inst'[q][n].revs = proc[x].proposed
  <2>1. q = p /\ n = Len(inst[p]) + 1
    BY <1>2, <1>3, <1>5
  <2> QED BY <1>2, <2>1
<1>6. \A y \in Process : proc'[y].at = "insert" => proc'[y] = proc[y]
  <2>1. ~ Verify(x) /\ TriggerStep(x)
    BY DEF InsertInstance, Verify, TriggerStep
  <2> QED BY <2>1, NoNewInsert
<1>7. proc[x].at = "insert"
  BY DEF InsertInstance
<1> QED BY <1>0, <1>4, <1>5, <1>6, <1>7, FanInOthers

LEMMA SameInstancesFanIn ==
  ASSUME FlowInv, FlowInv', FanInInv, UNCHANGED inst,
         \A y \in Process : proc'[y].at = "insert" => proc'[y] = proc[y]
  PROVE  FanInInv'
<1>1. InstancesKept
  BY DEF InstancesKept
<1> QED BY <1>1, FanInOthers

\* Completions and reruns change the runs of instances, and nothing else of them.
InstancesFixed ==
  \A q \in Pipeline : /\ DOMAIN inst'[q] = DOMAIN inst[q] /\ Len(inst'[q]) = Len(inst[q])
                      /\ \A m \in DOMAIN inst[q] : inst'[q][m].revs = inst[q][m].revs

Completing(x) ==
  \/ ChannelStep(x)
  \/ \E p \in Pipeline : \E n \in DOMAIN inst[p], k \in RunsOf(p) :
       StartCompletion(x, p, n, k) \/ StartLateCompletion(x, p, n, k)

LEMMA VerdictFixed ==
  ASSUME FlowInv, NEW x \in Process, NEW verdict \in {"Passed", "Failed"},
         WriteVerdict(x, verdict)
  PROVE  InstancesFixed
<1>1. PICK p, n, k : /\ p \in Pipeline /\ p = proc[x].pipeline
                     /\ n = proc[x].counter /\ k = proc[x].run
  BY ProcessFacts
<1>2. \E v : /\ SetRun(p, n, k, v)
             /\ n \in DOMAIN inst[p] /\ k \in RunsOf(p) => v \in RunState
  BY <1>1, VerdictEffect
<1> QED BY <1>1, <1>2, RunEffect DEF FlowInv, InstancesFixed

LEMMA CompletingFixed ==
  ASSUME FlowInv, NEW x \in Process, Completing(x)
  PROVE  InstancesFixed
<1>1. CASE FailStage(x) \/ PassStage(x) \/ PassLastStage(x)
  BY <1>1, VerdictFixed DEF FailStage, PassStage, PassLastStage
<1>2. CASE InsertNextStage(x)
  <2>1. PICK p, n, k : /\ p \in Pipeline /\ p = proc[x].pipeline
                       /\ n = proc[x].counter /\ k = NextRun(proc[x].run)
    BY ProcessFacts
  <2>2. SetRun(p, n, k, "Building")
    BY <1>2, <2>1 DEF InsertNextStage, SetRun
  <2> QED BY <2>1, <2>2, RunEffect DEF FlowInv, InstancesFixed, RunState
<1>3. CASE UNCHANGED inst
  BY <1>3 DEF InstancesFixed
<1> QED BY <1>1, <1>2, <1>3 DEF Completing, ChannelStep, NextStageRaises, StartCompletion,
                               StartLateCompletion, rows

LEMMA RerunFixed ==
  ASSUME FlowInv, NEW p \in Pipeline, NEW n \in DOMAIN inst[p], NEW s \in 1..NStages[p],
         RerunStage(p, n, s)
  PROVE  InstancesFixed
<1>1. PICK r \in 1..(MaxRuns - 1) : SetRun(p, n, <<s, r + 1>>, "Building")
  BY DEF RerunStage, SetRun
<1> QED BY <1>1, RunEffect DEF FlowInv, InstancesFixed, RunState

\* What happens to the process.
LEMMA CompletingProcess ==
  ASSUME FlowInv, NEW x \in Process, Completing(x)
  PROVE  \E r : /\ proc' = [proc EXCEPT ![x] = r]
                /\ r.at \in {"idle", "complete", "next", "trigger"}
                /\ ~ PassLastStage(x) => r.queue \subseteq proc[x].queue
<1>1. CASE FailStage(x) \/ InsertNextStage(x) \/ NextStageRaises(x)
  <2>1. Idle.at = "idle" /\ Idle.queue = {} /\ proc' = [proc EXCEPT ![x] = Idle]
    BY <1>1 DEF FailStage, InsertNextStage, NextStageRaises, Idle
  <2> QED BY <2>1
<1>2. CASE PassStage(x)
  <2>1. PICK q \in ProcState : q = proc[x]
    BY ProcessFacts
  <2> DEFINE r == [q EXCEPT !.at = "next"]
  <2>2. r.at = "next" /\ r.queue = q.queue
    BY DEF ProcState
  <2>3. proc' = [proc EXCEPT ![x] = r]
    BY <1>2, <2>1 DEF PassStage, FlowInv, ProcessesSound, ProcState
  <2> HIDE DEF r
  <2> QED BY <2>1, <2>2, <2>3
<1>3. CASE PassLastStage(x)
  <2>1. Downstreams(proc[x].pipeline) \in SUBSET Pipeline
    BY DEF Downstreams
  <2>2. proc' = Enqueue(x, Downstreams(proc[x].pipeline))
    BY <1>3 DEF PassLastStage
  <2> QED BY <1>3, <2>1, <2>2, EnqueueFacts
<1>4. CASE \E p \in Pipeline : \E n \in DOMAIN inst[p], k \in RunsOf(p) :
             StartCompletion(x, p, n, k) \/ StartLateCompletion(x, p, n, k)
  <2>1. PICK p, n, k, seen :
          proc' = [proc EXCEPT ![x] = [Idle EXCEPT !.at = "complete", !.pipeline = p,
                                                   !.counter = n, !.run = k, !.seen = seen]]
    <3>1. PICK p \in Pipeline : \E n \in DOMAIN inst[p], k \in RunsOf(p) : Load(x, p, n, k)
      BY <1>4 DEF StartCompletion, StartLateCompletion
    <3>2. PICK n \in DOMAIN inst[p], k \in RunsOf(p) : Load(x, p, n, k)
      BY <3>1
    <3> QED BY <3>2 DEF Load
  <2> DEFINE r == [Idle EXCEPT !.at = "complete", !.pipeline = p, !.counter = n,
                               !.run = k, !.seen = seen]
  <2>2. r.at = "complete" /\ r.queue = {}
    BY DEF Idle
  <2>3. proc' = [proc EXCEPT ![x] = r]
    BY <2>1
  <2> HIDE DEF r
  <2> QED BY <2>2, <2>3
<1> QED BY <1>1, <1>2, <1>3, <1>4 DEF Completing, ChannelStep

LEMMA FixedFanIn ==
  ASSUME FlowInv, FlowInv', FanInInv, InstancesFixed,
         \A y \in Process : proc'[y].at = "insert" => proc'[y] = proc[y]
  PROVE  FanInInv'
<1>1. InstancesKept /\ \A q \in Pipeline : DOMAIN inst'[q] = DOMAIN inst[q]
  BY DEF InstancesKept, InstancesFixed
<1> QED BY <1>1, FanInOthers

LEMMA CompletingFanIn ==
  ASSUME FlowInv, FlowInv', FanInInv, NEW x \in Process, Completing(x)
  PROVE  FanInInv'
<1>1. \A y \in Process : proc'[y].at = "insert" => proc'[y] = proc[y]
  BY CompletingProcess DEF FlowInv, ProcessesSound
<1> QED BY <1>1, CompletingFixed, FixedFanIn

LEMMA RerunFanIn ==
  ASSUME FlowInv, FlowInv', FanInInv, NEW p \in Pipeline, NEW n \in DOMAIN inst[p],
         NEW s \in 1..NStages[p], RerunStage(p, n, s)
  PROVE  FanInInv'
<1>1. UNCHANGED proc
  BY DEF RerunStage
<1> QED BY <1>1, RerunFixed, FixedFanIn

LEMMA OtherProcessesFanIn ==
  ASSUME FlowInv, FlowInv', FanInInv,
         \/ \E x \in Poller : PollerStep(x) \/ \E g \in Git : AskLatestRevision(x, g)
         \/ \E x \in User, p \in Pipeline : UserTriggers(x, p)
         \/ \E p \in Pipeline : SetPaused(p)
         \/ \E g \in Git : Push(g)
         \/ UNCHANGED vars
  PROVE  FanInInv'
<1>0. proc \in [Process -> ProcState] /\ Poller \subseteq Process /\ User \subseteq Process
  BY DEF FlowInv, ProcessesSound, Process
<1>1. UNCHANGED inst
  BY DEF PollerStep, AskLatestRevision, CompareRevision, SaveModification, SaveFails,
         UserTriggers, SetPaused, Push, vars, rows, history, counters
<1>2. ASSUME NEW x \in Process, NEW queue \in SUBSET Pipeline, proc' = Enqueue(x, queue)
      PROVE  \A y \in Process : proc'[y].at = "insert" => proc'[y] = proc[y]
  <2>1. \E r \in ProcState : proc' = [proc EXCEPT ![x] = r] /\ r.at # "insert"
    BY <1>2, EnqueueFacts
  <2> QED BY <1>0, <2>1
<1>3. ASSUME NEW x \in Poller, PollerStep(x) \/ \E g \in Git : AskLatestRevision(x, g)
      PROVE  \A y \in Process : proc'[y].at = "insert" => proc'[y] = proc[y]
  <2>0. x \in Process
    BY <1>0
  <2>1. CASE SaveModification(x)
    <3>1. PipelinesOf(proc[x].git) \in SUBSET Pipeline
      BY DEF PipelinesOf
    <3> QED BY <1>2, <2>0, <2>1, <3>1 DEF SaveModification
  <2>2. CASE CompareRevision(x) \/ SaveFails(x) \/ \E g \in Git : AskLatestRevision(x, g)
    <3>1. /\ \A y \in Process \ {x} : proc'[y] = proc[y]
          /\ proc'[x].at \in {"idle", "compare", "save"}
      <4>1. CASE proc' = [proc EXCEPT ![x] = Idle]
        BY <1>0, <2>0, <4>1 DEF Idle
      <4>2. CASE proc' = [proc EXCEPT ![x].at = "save"]
        BY <1>0, <2>0, <4>2 DEF ProcState
      <4>3. ASSUME NEW g \in Git, AskLatestRevision(x, g)
            PROVE  /\ \A y \in Process \ {x} : proc'[y] = proc[y]
                   /\ proc'[x].at \in {"idle", "compare", "save"}
        BY <1>0, <2>0, <4>3 DEF AskLatestRevision, Idle
      <4> QED BY <2>2, <4>1, <4>2, <4>3 DEF CompareRevision, SaveFails
    <3> QED BY <3>1
  <2> QED BY <1>3, <2>1, <2>2 DEF PollerStep
<1>4. ASSUME NEW x \in User, NEW p \in Pipeline, UserTriggers(x, p)
      PROVE  \A y \in Process : proc'[y].at = "insert" => proc'[y] = proc[y]
  <2>1. proc' = Enqueue(x, {p}) /\ {p} \in SUBSET Pipeline /\ x \in Process
    BY <1>0, <1>4 DEF UserTriggers
  <2> QED BY <1>2, <2>1
<1>5. ASSUME UNCHANGED proc
      PROVE  \A y \in Process : proc'[y].at = "insert" => proc'[y] = proc[y]
  BY <1>5
<1>6. \A y \in Process : proc'[y].at = "insert" => proc'[y] = proc[y]
  BY <1>3, <1>4, <1>5 DEF SetPaused, Push, vars
<1> QED BY <1>1, <1>6, SameInstancesFanIn

LEMMA InitFanIn == Init => FanInInv
<1> SUFFICES ASSUME Init PROVE FanInInv
  OBVIOUS
<1>1. \A p \in Pipeline : DOMAIN inst[p] = {}
  BY DEF Init
<1>2. \A x \in Process : proc[x].at # "insert"
  BY DEF Init, Idle
<1> QED BY <1>1, <1>2 DEF FanInInv, FanInConsistent

LEMMA NextFanIn == FlowInv /\ FanInInv /\ [Next]_vars => FanInInv'
<1> SUFFICES ASSUME FlowInv, FanInInv, [Next]_vars PROVE FanInInv'
  OBVIOUS
<1>0. FlowInv'
  BY NextFlow
<1>1. ASSUME NEW x \in Process, TriggerStep(x)
      PROVE  FanInInv'
  <2>1. CASE ~ Verify(x) /\ ~ InsertInstance(x)
    <3>1. UNCHANGED inst
      BY <1>1, <2>1 DEF TriggerStep, TakePipeline, RefusePaused, ReadModification, AskGit,
         CreateModification, CreateRaises, Raise, ReadUpstream, InsertRaises, rows
    <3>2. \A y \in Process : proc'[y].at = "insert" => proc'[y] = proc[y]
      BY <1>1, <2>1, NoNewInsert
    <3> QED BY <1>0, <3>1, <3>2, SameInstancesFanIn
  <2> QED BY <2>1, VerifyFanIn, InsertFanIn
<1>2. ASSUME NEW x \in Channel, Completing(x)
      PROVE  FanInInv'
  <2>1. x \in Process
    BY DEF Process
  <2> QED BY <1>0, <1>2, <2>1, CompletingFanIn
<1> QED BY <1>0, <1>1, <1>2, OtherProcessesFanIn, RerunFanIn DEF Next, Completing

(***************************************************************************)
(* All paths from an instance to a git material end at the same revision:  *)
(* what the resolver compared before the insert is what the instance has   *)
(* after it, and instances that others are built from do not change.       *)
(***************************************************************************)
THEOREM FanInAgrees == Spec => []FanInConsistent
<1>1. Init => FlowInv /\ FanInInv
  BY InitFlow, InitFanIn
<1>2. FlowInv /\ FanInInv /\ [Next]_vars => (FlowInv /\ FanInInv)'
  BY NextFlow, NextFanIn
<1>3. FanInInv => FanInConsistent
  BY DEF FanInInv
<1> QED BY <1>1, <1>2, <1>3, PTL DEF Spec

-----------------------------------------------------------------------------
(* A pipeline has no more instances, and processes about to make one, than *)
(* causes.                                                                 *)

Busy == {"read", "create", "insert"}

Wants(r) == r.queue \cup (IF r.at \in Busy THEN {r.pipeline} ELSE {})

Pending(p) == {x \in Process : p \in Wants(proc[x])}

SavedRecorded == \A c \in saved : c[2] \in Range(mods[c[1]])

CausesFinite ==
  /\ IsFiniteSet(saved)
  /\ \A p \in Pipeline : IsFiniteSet(Pending(p)) /\ IsFiniteSet(PassesFor(p))

CausesSuffice ==
  \A p \in Pipeline : Len(inst[p]) + Cardinality(Pending(p)) <= Causes(p)

CausesInv == SavedRecorded /\ CausesFinite /\ CausesSuffice

LEMMA CausesFacts ==
  ASSUME FlowInv, CausesFinite, NEW p \in Pipeline
  PROVE  /\ IsFiniteSet(SavedFor(p)) /\ Cardinality(SavedFor(p)) \in Nat
         /\ Cardinality(PassesFor(p)) \in Nat /\ Cardinality(Pending(p)) \in Nat
         /\ userTriggers[p] \in Nat /\ Causes(p) \in Nat /\ Len(inst[p]) \in Nat
<1>1. IsFiniteSet(SavedFor(p))
  BY FS_Subset DEF CausesFinite, SavedFor
<1>2. IsFiniteSet(PassesFor(p)) /\ IsFiniteSet(Pending(p))
  BY DEF CausesFinite
<1>3. /\ Cardinality(SavedFor(p)) \in Nat
      /\ Cardinality(PassesFor(p)) \in Nat /\ Cardinality(Pending(p)) \in Nat
  BY <1>1, <1>2, FS_CardinalityType
<1>4. userTriggers[p] \in Nat
  BY BoundAssumption DEF FlowInv, OthersTyped
<1>5. Len(inst[p]) \in Nat
  BY InstanceFacts DEF FlowInv
<1> QED BY <1>1, <1>3, <1>4, <1>5 DEF Causes

LEMMA FewerPending ==
  ASSUME FlowInv, CausesFinite, NEW p \in Pipeline, Pending(p)' \subseteq Pending(p)
  PROVE  IsFiniteSet(Pending(p)') /\ Cardinality(Pending(p)') <= Cardinality(Pending(p))
BY FS_Subset DEF CausesFinite

LEMMA OneMorePending ==
  ASSUME FlowInv, CausesFinite, NEW p \in Pipeline, NEW x,
         Pending(p)' \subseteq Pending(p) \cup {x}
  PROVE  IsFiniteSet(Pending(p)') /\ Cardinality(Pending(p)') <= Cardinality(Pending(p)) + 1
<1>1. IsFiniteSet(Pending(p)) /\ Cardinality(Pending(p)) \in Nat
  BY CausesFacts DEF CausesFinite
<1>2. /\ IsFiniteSet(Pending(p) \cup {x})
      /\ Cardinality(Pending(p) \cup {x}) <= Cardinality(Pending(p)) + 1
  BY <1>1, FS_AddElement
<1>3. /\ IsFiniteSet(Pending(p)')
      /\ Cardinality(Pending(p)') <= Cardinality(Pending(p) \cup {x})
  BY <1>2, FS_Subset
<1>4. Cardinality(Pending(p)') \in Nat /\ Cardinality(Pending(p) \cup {x}) \in Nat
  BY <1>2, <1>3, FS_CardinalityType
<1> QED BY <1>1, <1>2, <1>3, <1>4

\* Processes go on, or give up, and nothing else happens.
LEMMA CausesFrame ==
  ASSUME FlowInv, CausesInv, UNCHANGED <<saved, passes, userTriggers>>, SavedRecorded',
         \A q \in Pipeline : Len(inst'[q]) = Len(inst[q]),
         \A y \in Process : Wants(proc[y])' \subseteq Wants(proc[y])
  PROVE  CausesInv'
<1>1. \A p \in Pipeline : Pending(p)' \subseteq Pending(p)
  BY DEF Pending
<1>2. \A p \in Pipeline : PassesFor(p)' = PassesFor(p) /\ Causes(p)' = Causes(p)
  BY DEF PassesFor, Causes, SavedFor
<1>3. CausesFinite'
  BY <1>1, <1>2, FewerPending DEF CausesInv, CausesFinite
<1>4. ASSUME NEW p \in Pipeline
      PROVE  Len(inst'[p]) + Cardinality(Pending(p)') <= Causes(p)'
  <2>1. Cardinality(Pending(p)') <= Cardinality(Pending(p))
        /\ Cardinality(Pending(p)') \in Nat
    BY <1>1, FewerPending, FS_CardinalityType DEF CausesInv
  <2>2. Len(inst[p]) + Cardinality(Pending(p)) <= Causes(p)
    BY DEF CausesInv, CausesSuffice
  <2> QED BY <1>2, <2>1, <2>2, CausesFacts DEF CausesInv
<1> QED BY <1>3, <1>4 DEF CausesInv, CausesSuffice

\* A process is asked to trigger these pipelines, each for a cause of its own.
LEMMA CausesGrow ==
  ASSUME FlowInv, FlowInv', CausesInv, SavedRecorded', IsFiniteSet(saved'),
         NEW x \in Process, NEW queue \in SUBSET Pipeline, proc' = Enqueue(x, queue),
         \A p \in Pipeline : /\ IsFiniteSet(PassesFor(p)') /\ Len(inst'[p]) = Len(inst[p])
                             /\ Causes(p)' >= Causes(p)
                             /\ p \in queue => Causes(p)' >= Causes(p) + 1
  PROVE  CausesInv'
<1>0. proc \in [Process -> ProcState]
  BY DEF FlowInv, ProcessesSound
<1>1. PICK r \in ProcState : /\ proc' = [proc EXCEPT ![x] = r]
                             /\ r.at \in {"idle", "trigger"} /\ r.queue = queue
  BY EnqueueFacts
<1>2. Wants(r) = queue
  BY <1>1 DEF Wants, Busy
<1>3. \A p \in Pipeline : Pending(p)' \subseteq Pending(p) \cup {x}
  BY <1>0, <1>1 DEF Pending
<1>4. \A p \in Pipeline \ queue : Pending(p)' \subseteq Pending(p)
  BY <1>0, <1>1, <1>2 DEF Pending
<1>5. CausesFinite'
  BY <1>3, OneMorePending DEF CausesInv, CausesFinite
<1>6. ASSUME NEW p \in Pipeline
      PROVE  Len(inst'[p]) + Cardinality(Pending(p)') <= Causes(p)'
  <2>1. Len(inst[p]) + Cardinality(Pending(p)) <= Causes(p)
    BY DEF CausesInv, CausesSuffice
  <2>2. /\ Len(inst[p]) \in Nat /\ Cardinality(Pending(p)) \in Nat /\ Causes(p) \in Nat
    BY CausesFacts DEF CausesInv
  <2>3. Cardinality(Pending(p)') \in Nat
    BY <1>3, OneMorePending, FS_CardinalityType DEF CausesInv
  <2>4. Causes(p)' \in Nat
    <3>1. IsFiniteSet(SavedFor(p)')
      BY FS_Subset DEF SavedFor
    <3>2. Cardinality(SavedFor(p)') \in Nat /\ Cardinality(PassesFor(p)') \in Nat
      BY <3>1, FS_CardinalityType
    <3>3. userTriggers'[p] \in Nat
      BY BoundAssumption DEF FlowInv, OthersTyped
    <3> QED BY <3>2, <3>3 DEF Causes
  <2>5. CASE p \in queue
    <3>1. Cardinality(Pending(p)') <= Cardinality(Pending(p)) + 1
      BY <1>3, OneMorePending DEF CausesInv
    <3> QED BY <2>1, <2>2, <2>3, <2>4, <2>5, <3>1
  <2>6. CASE p \notin queue
    <3>1. Cardinality(Pending(p)') <= Cardinality(Pending(p))
      BY <1>4, <2>6, FewerPending DEF CausesInv
    <3> QED BY <2>1, <2>2, <2>3, <2>4, <3>1
  <2> QED BY <2>5, <2>6
<1> QED BY <1>5, <1>6 DEF CausesInv, CausesSuffice

LEMMA InsertCauses ==
  ASSUME FlowInv, CausesInv, NEW x \in Process, InsertInstance(x)
  PROVE  CausesInv'
<1>1. PICK p \in Pipeline : p = proc[x].pipeline
  BY ProcessFacts
<1>2. /\ Len(inst'[p]) = Len(inst[p]) + 1
      /\ \A n \in 1..Len(inst[p]) : inst'[p][n] = inst[p][n]
      /\ inst'[p][Len(inst[p]) + 1] = [runs |-> NewRuns(p), revs |-> proc[x].proposed]
      /\ \A q \in Pipeline \ {p} : inst'[q] = inst[q]
      /\ proc' = NextTrigger(x)
  BY <1>1, InsertEffect
<1>3. /\ UNCHANGED <<saved, mods, passes, userTriggers>> /\ proc[x].at = "insert"
  BY DEF InsertInstance, history, counters
<1>4. PICK r \in ProcState : /\ proc' = [proc EXCEPT ![x] = r]
                             /\ r.at \in {"idle", "trigger"} /\ r.queue = proc[x].queue
  <2>1. proc' = Enqueue(x, proc[x].queue)
    BY <1>2 DEF NextTrigger
  <2>2. proc[x].queue \in SUBSET Pipeline
    BY ProcessFacts
  <2> QED BY <2>1, <2>2, EnqueueFacts
<1>5. Wants(r) = proc[x].queue /\ Wants(proc[x]) = proc[x].queue \cup {p} /\ p \notin Wants(r)
  BY <1>1, <1>3, <1>4, ProcessFacts DEF Wants, Busy, Holds
<1>6. proc \in [Process -> ProcState]
  BY DEF FlowInv, ProcessesSound
<1>7. \A q \in Pipeline : Pending(q)' \subseteq Pending(q)
  BY <1>4, <1>5, <1>6 DEF Pending
<1>8. Pending(p)' = Pending(p) \ {x} /\ x \in Pending(p)
  BY <1>4, <1>5, <1>6 DEF Pending
<1>10. \A q \in Pipeline : PassesFor(q)' = PassesFor(q)
  BY <1>3 DEF PassesFor
<1>11. \A q \in Pipeline : Causes(q)' = Causes(q)
  BY <1>3, <1>10 DEF Causes, SavedFor
<1>12. CausesFinite'
  BY <1>3, <1>7, <1>10, FewerPending DEF CausesInv, CausesFinite
<1>13. ASSUME NEW q \in Pipeline
       PROVE  Len(inst'[q]) + Cardinality(Pending(q)') <= Causes(q)'
  <2>1. Len(inst[q]) + Cardinality(Pending(q)) <= Causes(q)
    BY DEF CausesInv, CausesSuffice
  <2>2. /\ Len(inst[q]) \in Nat /\ Cardinality(Pending(q)) \in Nat /\ Causes(q) \in Nat
    BY CausesFacts DEF CausesInv
  <2>3. CASE q = p
    <3>1. Cardinality(Pending(q)') = Cardinality(Pending(q)) - 1
      BY <1>8, <2>3, FS_RemoveElement DEF CausesInv, CausesFinite
    <3> QED BY <1>2, <1>11, <2>1, <2>2, <2>3, <3>1
  <2>4. CASE q # p
    <3>1. Cardinality(Pending(q)') <= Cardinality(Pending(q))
      BY <1>7, FewerPending DEF CausesInv
    <3>2. Cardinality(Pending(q)') \in Nat
      BY <1>7, FewerPending, FS_CardinalityType DEF CausesInv
    <3> QED BY <1>2, <1>11, <2>1, <2>2, <2>4, <3>1, <3>2
  <2> QED BY <2>3, <2>4
<1>14. SavedRecorded'
  BY <1>3 DEF CausesInv, SavedRecorded
<1> QED BY <1>12, <1>13, <1>14 DEF CausesInv, CausesSuffice

\* Every other step of a trigger goes on with what the process has to do.
LEMMA TriggerWants ==
  ASSUME FlowInv, NEW x \in Process, TriggerStep(x)
  PROVE  \A y \in Process : Wants(proc[y])' \subseteq Wants(proc[y])
<1>0. proc \in [Process -> ProcState]
  BY DEF FlowInv, ProcessesSound
<1>1. CASE \E r \in ProcState : /\ proc' = [proc EXCEPT ![x] = r]
                                /\ Wants(r) \subseteq Wants(proc[x])
  <2>1. PICK r \in ProcState : /\ proc' = [proc EXCEPT ![x] = r]
                               /\ Wants(r) \subseteq Wants(proc[x])
    BY <1>1
  <2>2. proc'[x] = r /\ \A y \in Process \ {x} : proc'[y] = proc[y]
    BY <1>0, <2>1
  <2> QED BY <2>1, <2>2 DEF Wants
<1>2. CASE \E queue \in SUBSET proc[x].queue : proc' = Enqueue(x, queue)
  <2>1. PICK queue \in SUBSET proc[x].queue : proc' = Enqueue(x, queue)
    BY <1>2
  <2>2. queue \in SUBSET Pipeline
    BY ProcessFacts
  <2>3. PICK r \in ProcState : /\ proc' = [proc EXCEPT ![x] = r]
                               /\ r.at \in {"idle", "trigger"} /\ r.queue = queue
    BY <2>1, <2>2, EnqueueFacts
  <2>4. Wants(r) \subseteq Wants(proc[x])
    BY <2>3 DEF Wants, Busy
  <2> QED BY <1>1, <2>3, <2>4
<1>3. ASSUME proc[x].at \in Busy,
             \E r \in ProcState : /\ proc' = [proc EXCEPT ![x] = r] /\ r.at \in Busy
                                  /\ r.pipeline = proc[x].pipeline
                                  /\ r.queue = proc[x].queue
      PROVE  \A y \in Process : Wants(proc[y])' \subseteq Wants(proc[y])
  <2>1. PICK r \in ProcState : /\ proc' = [proc EXCEPT ![x] = r] /\ r.at \in Busy
                               /\ r.pipeline = proc[x].pipeline
                               /\ r.queue = proc[x].queue
    BY <1>3
  <2>2. Wants(r) = Wants(proc[x])
    BY <1>3, <2>1 DEF Wants
  <2> QED BY <1>1, <2>1, <2>2
<1>4. CASE TakePipeline(x)
  <2>1. PICK p \in proc[x].queue :
          proc' = [proc EXCEPT ![x] =
            [Idle EXCEPT !.at = "read", !.queue = proc[x].queue \ {p}, !.pipeline = p,
                         !.unread = Materials(p)]]
    BY <1>4 DEF TakePipeline
  <2>2. /\ proc'[x].queue = proc[x].queue \ {p} /\ proc'[x].pipeline = p
        /\ proc'[x].at = "read" /\ \A y \in Process \ {x} : proc'[y] = proc[y]
    BY <1>0, <2>1 DEF Idle
  <2> QED BY <2>2 DEF Wants, Busy
<1>5. CASE RefusePaused(x)
  <2>1. \E queue \in SUBSET proc[x].queue : proc' = Enqueue(x, queue)
    BY <1>5 DEF RefusePaused
  <2> QED BY <1>2, <2>1
<1>6. ASSUME NEW m \in proc[x].unread, NEW value, proc' = Propose(x, m, value),
             proc[x].at \in {"read", "create"},
             m \in Git => value \in Revision,
             m \in Pipeline => value \in Begun(m)
      PROVE  \A y \in Process : Wants(proc[y])' \subseteq Wants(proc[y])
  <2>1. \E r \in ProcState : /\ proc' = [proc EXCEPT ![x] = r] /\ r.at = "read"
                             /\ r.pipeline = proc[x].pipeline /\ r.queue = proc[x].queue
    BY <1>6, ProposeFacts
  <2> QED BY <1>3, <1>6, <2>1 DEF Busy
<1>7. ASSUME NEW g \in Git, ReadModification(x, g)
      PROVE  \A y \in Process : Wants(proc[y])' \subseteq Wants(proc[y])
  <2>1. Last(mods[g]) \in Revision
    BY <1>7, LastFacts DEF ReadModification, FlowInv, OthersTyped
  <2>2. g \notin Pipeline
    BY GraphFacts
  <2> QED BY <1>6, <1>7, <2>1, <2>2 DEF ReadModification
<1>8. ASSUME NEW g \in Git, AskGit(x, g)
      PROVE  \A y \in Process : Wants(proc[y])' \subseteq Wants(proc[y])
  <2>1. /\ proc'[x].queue = proc[x].queue /\ proc'[x].pipeline = proc[x].pipeline
        /\ proc'[x].at = "create" /\ proc[x].at = "read"
        /\ \A y \in Process \ {x} : proc'[y] = proc[y]
    BY <1>0, <1>8 DEF AskGit, ProcState
  <2> QED BY <2>1 DEF Wants, Busy
<1>9. CASE CreateModification(x)
  <2>1. PICK g, rev : g = proc[x].git /\ rev = proc[x].rev /\ proc' = Propose(x, g, rev)
    BY <1>9 DEF CreateModification
  <2>2. g \in Git /\ g \in proc[x].unread /\ rev \in Revision /\ g \notin Pipeline
    BY <1>9, <2>1, ProcessFacts, GraphFacts DEF CreateModification, Holds
  <2>3. proc[x].at \in {"read", "create"}
    BY <1>9 DEF CreateModification
  <2> QED BY <1>6, <2>1, <2>2, <2>3
<1>10. CASE CreateRaises(x) \/ InsertRaises(x)
  <2>1. proc' = [proc EXCEPT ![x] = Idle] /\ Wants(Idle) = {}
    BY <1>10 DEF CreateRaises, InsertRaises, Raise, Wants, Busy, Idle
  <2> QED BY <1>1, <2>1, IdleFacts
<1>11. CASE proc' = NextTrigger(x)
  BY <1>2, <1>11 DEF NextTrigger
<1>12. ASSUME NEW u \in Pipeline, ReadUpstream(x, u)
       PROVE  \A y \in Process : Wants(proc[y])' \subseteq Wants(proc[y])
  <2>1. u \notin Git /\ u \in proc[x].unread /\ proc[x].at = "read"
    BY <1>12, GraphFacts DEF ReadUpstream
  <2> QED BY <1>6, <1>11, <1>12, <2>1, InstanceFacts DEF ReadUpstream, FlowInv
<1>13. CASE Verify(x)
  <2>1. CASE proc' = [proc EXCEPT ![x].at = "insert",
                                  ![x].counter = Len(inst[proc[x].pipeline]) + 1]
    <3>1. /\ proc'[x].queue = proc[x].queue /\ proc'[x].pipeline = proc[x].pipeline
          /\ proc'[x].at = "insert" /\ \A y \in Process \ {x} : proc'[y] = proc[y]
      BY <1>0, <2>1 DEF ProcState
    <3>2. proc[x].at = "read"
      BY <1>13 DEF Verify
    <3> QED BY <3>1, <3>2 DEF Wants, Busy
  <2> QED BY <1>11, <1>13, <2>1 DEF Verify
<1>14. CASE InsertInstance(x)
  BY <1>11, <1>14 DEF InsertInstance
<1> QED BY <1>4, <1>5, <1>7, <1>8, <1>9, <1>10, <1>12, <1>13, <1>14 DEF TriggerStep

LEMMA AppendRange ==
  ASSUME NEW S, NEW s \in Seq(S), NEW e \in S
  PROVE  Range(s) \subseteq Range(Append(s, e))
<1>1. \A i \in 1..Len(s) : i \in 1..Len(Append(s, e)) /\ Append(s, e)[i] = s[i]
  BY AppendProperties, LenProperties
<1>2. DOMAIN s = 1..Len(s) /\ DOMAIN Append(s, e) = 1..Len(Append(s, e))
  BY AppendProperties, LenProperties
<1> QED BY <1>1, <1>2 DEF Range

LEMMA InsertAtRange ==
  ASSUME NEW S, NEW s \in Seq(S), NEW e \in S, NEW k \in 0..Len(s)
  PROVE  Range(s) \cup {e} \subseteq Range(InsertAt(s, k + 1, e))
<1> DEFINE a == SubSeq(s, 1, k)
           b == SubSeq(s, k + 1, Len(s))
           c == a \o <<e>>
<1>1. PICK l \in Nat : l = Len(s)
  BY LenProperties
<1>2. k \in Nat /\ k <= l /\ DOMAIN s = 1..l
  BY <1>1, LenProperties
<1>3. InsertAt(s, k + 1, e) = c \o b
  <2>1. PICK j : j = k + 1
    OBVIOUS
  <2>2. InsertAt(s, j, e) = (SubSeq(s, 1, j - 1) \o <<e>>) \o SubSeq(s, j, Len(s))
    BY Zenon DEF InsertAt
  <2>3. j - 1 = k
    BY <1>2, <2>1
  <2> QED BY <2>1, <2>2, <2>3, Zenon
<1>4. a \in Seq(S) /\ Len(a) = k /\ \A i \in 1..k : a[i] = s[i]
  <2>1. \A i \in 1..k : s[i] \in S
    BY <1>1, <1>2, ElementOfSeq
  <2>2. /\ a \in Seq(S) /\ Len(a) = IF 1 <= k THEN k - 1 + 1 ELSE 0
        /\ \A i \in 1..k - 1 + 1 : a[i] = s[1 + i - 1]
    BY <1>2, <2>1, SubSeqProperties
  <2> HIDE DEF a
  <2> QED BY <1>2, <2>2
<1>5. /\ b \in Seq(S) /\ Len(b) = l - k
      /\ \A i \in 1..l - k : b[i] = s[k + i]
  <2>1. \A i \in k + 1..l : s[i] \in S
    BY <1>1, <1>2, ElementOfSeq
  <2>2. /\ b \in Seq(S) /\ Len(b) = IF k + 1 <= l THEN l - (k + 1) + 1 ELSE 0
        /\ \A i \in 1..l - (k + 1) + 1 : b[i] = s[k + 1 + i - 1]
    BY <1>1, <1>2, <2>1, SubSeqProperties
  <2> HIDE DEF b
  <2>3. Len(b) = l - k
    BY <1>2, <2>2
  <2>4. \A i \in 1..l - k : b[i] = s[k + i]
    <3>1. l - (k + 1) + 1 = l - k /\ \A i \in 1..l - k : k + 1 + i - 1 = k + i
      BY <1>2
    <3> QED BY <2>2, <3>1
  <2> QED BY <2>2, <2>3, <2>4
<1> HIDE DEF a, b
<1>6. /\ c \in Seq(S) /\ Len(c) = k + 1 /\ c[k + 1] = e
      /\ \A i \in 1..k : c[i] = s[i]
  <2>1. <<e>> \in Seq(S) /\ Len(<<e>>) = 1 /\ <<e>>[1] = e
    OBVIOUS
  <2>2. /\ c \in Seq(S) /\ Len(c) = k + 1
        /\ \A i \in 1..k + 1 : c[i] = IF i <= k THEN a[i] ELSE <<e>>[i - k]
    BY <1>4, <2>1, ConcatProperties
  <2> HIDE DEF c
  <2> QED BY <1>2, <1>4, <2>1, <2>2
<1> HIDE DEF c
<1> DEFINE t == c \o b
<1>7. /\ t \in Seq(S) /\ Len(t) = (k + 1) + (l - k)
      /\ \A i \in 1..(k + 1) + (l - k) : t[i] = IF i <= k + 1 THEN c[i] ELSE b[i - (k + 1)]
  <2>1. /\ t \in Seq(S) /\ Len(t) = Len(c) + Len(b)
        /\ \A i \in 1..Len(c) + Len(b) : t[i] = IF i <= Len(c) THEN c[i] ELSE b[i - Len(c)]
    BY <1>5, <1>6, ConcatProperties
  <2> HIDE DEF t
  <2> QED BY <1>5, <1>6, <2>1, Zenon
<1> HIDE DEF t
<1>8. DOMAIN t = 1..l + 1
  <2>1. (k + 1) + (l - k) = l + 1
    BY <1>1, <1>2
  <2> QED BY <1>7, <2>1, LenProperties
<1>9. t[k + 1] = e /\ \A i \in 1..k : t[i] = s[i]
  <2>1. \A i \in 1..k + 1 : i \in 1..(k + 1) + (l - k) /\ i <= k + 1
    BY <1>1, <1>2
  <2>2. \A i \in 1..k + 1 : t[i] = c[i]
    BY <1>7, <2>1, Zenon
  <2>3. k + 1 \in 1..k + 1 /\ 1..k \subseteq 1..k + 1
    BY <1>2
  <2> QED BY <1>6, <2>2, <2>3, Zenon
<1>10. \A i \in k + 1..l : t[i + 1] = s[i]
  <2> TAKE i \in k + 1..l
  <2>1. t[i + 1] = b[i + 1 - (k + 1)]
    BY <1>1, <1>2, <1>7
  <2>2. i + 1 - (k + 1) = i - k /\ i - k \in 1..l - k /\ k + (i - k) = i
    BY <1>1, <1>2
  <2> QED BY <1>5, <2>1, <2>2
<1>11. e \in Range(t)
  BY <1>1, <1>2, <1>8, <1>9 DEF Range
<1>12. ASSUME NEW i \in 1..l
       PROVE  s[i] \in Range(t)
  <2>1. CASE i \in 1..k
    <3>1. i \in DOMAIN t /\ t[i] = s[i]
      BY <1>2, <1>8, <1>9, <2>1
    <3> QED BY <3>1, Zenon DEF Range
  <2>2. CASE i \in k + 1..l
    <3>1. i + 1 \in DOMAIN t /\ t[i + 1] = s[i]
      BY <1>2, <1>8, <1>10, <2>2
    <3> QED BY <3>1, Zenon DEF Range
  <2> QED BY <1>2, <2>1, <2>2
<1>13. Range(s) \cup {e} \subseteq Range(t)
  BY <1>1, <1>2, <1>11, <1>12 DEF Range
<1> QED BY <1>3, <1>13 DEF t

LEMMA RecordedStays ==
  ASSUME FlowInv, SavedRecorded, UNCHANGED saved,
         \A g \in Git : Range(mods[g]) \subseteq Range(mods'[g])
  PROVE  SavedRecorded'
BY DEF FlowInv, OthersTyped, SavedRecorded

\* A saved commit is a cause for each pipeline of its material, once.
LEMMA SaveCauses ==
  ASSUME FlowInv, CausesInv, NEW x \in Process, SaveModification(x)
  PROVE  CausesInv'
<1>1. PICK g, rev : g = proc[x].git /\ rev = proc[x].rev
  OBVIOUS
<1>2. g \in Git /\ rev \in Commit /\ rev \in Revision /\ proc[x].known \in Nat
  BY <1>1, ProcessFacts, RevisionFacts DEF SaveModification, Holds
<1>3. PICK k \in proc[x].known..Len(mods[g]) :
        mods' = [mods EXCEPT ![g] = InsertAt(@, k + 1, rev)]
  BY <1>1 DEF SaveModification, Record
<1>4. mods \in [Git -> Seq(Revision)] /\ mods[g] \in Seq(Revision)
  BY <1>2 DEF FlowInv, OthersTyped
<1>5. k \in 0..Len(mods[g])
  BY <1>2, <1>3, <1>4, LenProperties
<1>6. Range(mods[g]) \cup {rev} \subseteq Range(mods'[g])
  <2>1. mods'[g] = InsertAt(mods[g], k + 1, rev)
    BY <1>2, <1>3, <1>4
  <2> QED BY <1>2, <1>4, <1>5, <2>1, InsertAtRange
<1>7. \A h \in Git \ {g} : mods'[h] = mods[h]
  BY <1>3, <1>4
<1>8. /\ saved' = saved \cup {<<g, rev>>} /\ proc' = Enqueue(x, PipelinesOf(g))
      /\ rev \notin Range(mods[g]) /\ UNCHANGED <<inst, passes, userTriggers>>
  BY <1>1 DEF SaveModification, counters
<1>9. SavedRecorded'
  BY <1>6, <1>7, <1>8 DEF CausesInv, SavedRecorded, FlowInv, OthersTyped
<1>10. <<g, rev>> \notin saved
  BY <1>8 DEF CausesInv, SavedRecorded
<1>11. IsFiniteSet(saved')
  BY <1>8, FS_AddElement DEF CausesInv, CausesFinite
<1>12. PipelinesOf(g) \in SUBSET Pipeline
  BY DEF PipelinesOf
<1>13. ASSUME NEW p \in Pipeline
       PROVE  /\ IsFiniteSet(PassesFor(p)') /\ Len(inst'[p]) = Len(inst[p])
              /\ Causes(p)' >= Causes(p)
              /\ p \in PipelinesOf(g) => Causes(p)' >= Causes(p) + 1
  <2>1. PassesFor(p)' = PassesFor(p)
    BY <1>8 DEF PassesFor
  <2>2. /\ IsFiniteSet(PassesFor(p)) /\ IsFiniteSet(SavedFor(p))
        /\ Cardinality(SavedFor(p)) \in Nat /\ Cardinality(PassesFor(p)) \in Nat
        /\ userTriggers[p] \in Nat
    BY CausesFacts DEF CausesInv, CausesFinite
  <2>3. p \in PipelinesOf(g) => Cardinality(SavedFor(p)') = Cardinality(SavedFor(p)) + 1
    <3>1. SUFFICES ASSUME p \in PipelinesOf(g)
                   PROVE  Cardinality(SavedFor(p)') = Cardinality(SavedFor(p)) + 1
      OBVIOUS
    <3>2. /\ SavedFor(p)' = SavedFor(p) \cup {<<g, rev>>}
          /\ <<g, rev>> \notin SavedFor(p)
      BY <1>8, <1>10, <3>1 DEF SavedFor, PipelinesOf
    <3> QED BY <2>2, <3>2, FS_AddElement
  <2>4. p \notin PipelinesOf(g) => SavedFor(p)' = SavedFor(p)
    BY <1>8 DEF SavedFor, PipelinesOf
  <2> QED BY <1>8, <2>1, <2>2, <2>3, <2>4 DEF Causes
<1>14. FlowInv'
  BY SaveFlow
<1> QED BY <1>8, <1>9, <1>11, <1>12, <1>13, <1>14, CausesGrow

\* Who passes the last stage is a cause for each pipeline downstream, once.
LEMMA PassCauses ==
  ASSUME FlowInv, CausesInv, NEW x \in Process, PassLastStage(x)
  PROVE  CausesInv'
<1>1. PICK p \in Pipeline : p = proc[x].pipeline
  BY ProcessFacts
<1>2. /\ proc' = Enqueue(x, Downstreams(p)) /\ UNCHANGED <<saved, mods, userTriggers>>
      /\ passes' = [passes EXCEPT ![p] = @ + 1]
  BY <1>1 DEF PassLastStage, counters
<1>3. passes \in [Pipeline -> Nat]
  BY DEF FlowInv, OthersTyped
<1>4. PICK n \in Nat : n = passes[p] + 1
  BY <1>3
<1>5. /\ 1..passes'[p] = (1..passes[p]) \cup {n} /\ n \notin 1..passes[p]
      /\ \A q \in Pipeline \ {p} : passes'[q] = passes[q]
  BY <1>2, <1>3, <1>4
<1>6. Downstreams(p) \in SUBSET Pipeline
  BY DEF Downstreams
<1>7. \A q \in Pipeline : Len(inst'[q]) = Len(inst[q])
  BY CompletingFixed DEF Completing, ChannelStep, InstancesFixed
<1>8. ASSUME NEW q \in Pipeline
      PROVE  /\ IsFiniteSet(PassesFor(q)') /\ Causes(q)' >= Causes(q)
             /\ q \in Downstreams(p) => Causes(q)' >= Causes(q) + 1
  <2>1. SavedFor(q)' = SavedFor(q)
    BY <1>2 DEF SavedFor
  <2>2. /\ IsFiniteSet(PassesFor(q))
        /\ Cardinality(SavedFor(q)) \in Nat /\ Cardinality(PassesFor(q)) \in Nat
        /\ userTriggers[q] \in Nat
    BY CausesFacts DEF CausesInv, CausesFinite
  <2>3. UpstreamsOf[q] \subseteq Pipeline
    BY GraphFacts
  <2>4. CASE q \in Downstreams(p)
    <3>1. p \in UpstreamsOf[q]
      BY <2>4 DEF Downstreams
    <3>2. <<p, n>> \notin PassesFor(q)
      BY <1>5 DEF PassesFor
    <3>3. ASSUME NEW c
          PROVE  c \in PassesFor(q)' <=> c \in PassesFor(q) \cup {<<p, n>>}
      <4>1. c \in PassesFor(q) <=> \E u \in UpstreamsOf[q] : c \in {u} \X (1..passes[u])
        BY DEF PassesFor
      <4>2. c \in PassesFor(q)' <=> \E u \in UpstreamsOf[q] : c \in {u} \X (1..passes'[u])
        BY DEF PassesFor
      <4>3. ASSUME NEW u \in UpstreamsOf[q]
            PROVE  c \in {u} \X (1..passes'[u]) <=>
                     c \in {u} \X (1..passes[u]) \/ (u = p /\ c = <<p, n>>)
        <5>1. CASE u = p
          BY <1>5, <5>1
        <5>2. CASE u # p
          BY <1>5, <2>3, <5>2
        <5> QED BY <5>1, <5>2
      <4> QED BY <3>1, <4>1, <4>2, <4>3
    <3>4. PassesFor(q)' = PassesFor(q) \cup {<<p, n>>}
      BY <3>3
    <3>5. /\ IsFiniteSet(PassesFor(q)')
          /\ Cardinality(PassesFor(q)') = Cardinality(PassesFor(q)) + 1
      <4>1. /\ IsFiniteSet(PassesFor(q) \cup {<<p, n>>})
            /\ Cardinality(PassesFor(q) \cup {<<p, n>>}) = Cardinality(PassesFor(q)) + 1
        BY <2>2, <3>2, FS_AddElement
      <4> QED BY <3>4, <4>1, Zenon
    <3> QED BY <1>2, <2>1, <2>2, <3>5 DEF Causes
  <2>5. CASE q \notin Downstreams(p)
    <3>1. \A u \in UpstreamsOf[q] : passes'[u] = passes[u]
      BY <1>5, <2>3, <2>5 DEF Downstreams
    <3>2. PassesFor(q)' = PassesFor(q)
      BY <3>1, Zenon DEF PassesFor
    <3> QED BY <1>2, <2>1, <2>2, <2>5, <3>2 DEF Causes
  <2> QED BY <2>4, <2>5
<1>9. SavedRecorded' /\ IsFiniteSet(saved')
  BY <1>2 DEF CausesInv, SavedRecorded, CausesFinite
<1>10. FlowInv'
  BY CompleteFlow
<1> QED BY <1>2, <1>6, <1>7, <1>8, <1>9, <1>10, CausesGrow

LEMMA UserCauses ==
  ASSUME FlowInv, CausesInv, NEW x \in User, NEW p \in Pipeline, UserTriggers(x, p)
  PROVE  CausesInv'
<1>1. /\ UNCHANGED <<inst, mods, saved, passes>>
      /\ userTriggers' = [userTriggers EXCEPT ![p] = @ + 1]
      /\ proc' = Enqueue(x, {p}) /\ x \in Process /\ {p} \in SUBSET Pipeline
  BY DEF UserTriggers, rows, history, Process
<1>2. FlowInv'
  BY InputFlow
<1>3. SavedRecorded' /\ IsFiniteSet(saved')
  BY <1>1 DEF CausesInv, SavedRecorded, CausesFinite
<1>4. ASSUME NEW q \in Pipeline
      PROVE  /\ IsFiniteSet(PassesFor(q)') /\ Len(inst'[q]) = Len(inst[q])
             /\ Causes(q)' >= Causes(q)
             /\ q \in {p} => Causes(q)' >= Causes(q) + 1
  <2>1. PassesFor(q)' = PassesFor(q) /\ SavedFor(q)' = SavedFor(q)
    BY <1>1 DEF PassesFor, SavedFor
  <2>2. /\ IsFiniteSet(PassesFor(q)) /\ Cardinality(SavedFor(q)) \in Nat
        /\ Cardinality(PassesFor(q)) \in Nat /\ userTriggers[q] \in Nat
    BY CausesFacts DEF CausesInv, CausesFinite
  <2>3. /\ userTriggers'[q] \in Nat /\ userTriggers'[q] >= userTriggers[q]
        /\ q \in {p} => userTriggers'[q] = userTriggers[q] + 1
    BY <1>1, <2>2 DEF FlowInv, OthersTyped
  <2> QED BY <1>1, <2>1, <2>2, <2>3 DEF Causes
<1> QED BY <1>1, <1>2, <1>3, <1>4, CausesGrow

\* The other steps of completions trigger nothing.
LEMMA CompletingCauses ==
  ASSUME FlowInv, CausesInv, NEW x \in Process, Completing(x), ~ PassLastStage(x)
  PROVE  CausesInv'
<1>1. UNCHANGED <<saved, mods, passes, userTriggers>>
  BY DEF Completing, ChannelStep, FailStage, PassStage, InsertNextStage, NextStageRaises,
         StartCompletion, StartLateCompletion, rows, history, counters
<1>2. \A q \in Pipeline : Len(inst'[q]) = Len(inst[q])
  BY CompletingFixed DEF InstancesFixed
<1>3. PICK r : /\ proc' = [proc EXCEPT ![x] = r] /\ r.at \in {"idle", "complete", "next", "trigger"}
               /\ r.queue \subseteq proc[x].queue
  BY CompletingProcess
<1>4. proc'[x] = r /\ \A y \in Process \ {x} : proc'[y] = proc[y]
  BY <1>3 DEF FlowInv, ProcessesSound
<1>5. \A y \in Process : Wants(proc[y])' \subseteq Wants(proc[y])
  BY <1>3, <1>4 DEF Wants, Busy
<1>6. SavedRecorded'
  BY <1>1 DEF CausesInv, SavedRecorded
<1> QED BY <1>1, <1>2, <1>5, <1>6, CausesFrame

\* The poller that has compared has nothing to trigger yet.
LEMMA PollCauses ==
  ASSUME FlowInv, CausesInv, NEW x \in Process,
         \/ CompareRevision(x) \/ SaveFails(x)
         \/ \E g \in Git : AskLatestRevision(x, g)
  PROVE  CausesInv'
<1>0. proc \in [Process -> ProcState]
  BY DEF FlowInv, ProcessesSound
<1>1. UNCHANGED <<inst, saved, mods, passes, userTriggers>>
  BY DEF CompareRevision, SaveFails, AskLatestRevision, rows, history, counters
<1>2. /\ proc'[x].queue \subseteq proc[x].queue
      /\ proc'[x].at \in {"idle", "compare", "save"}
      /\ \A y \in Process \ {x} : proc'[y] = proc[y]
  <2>1. CASE proc' = [proc EXCEPT ![x] = Idle]
    BY <1>0, <2>1 DEF Idle
  <2>2. CASE proc' = [proc EXCEPT ![x].at = "save"]
    BY <1>0, <2>2 DEF ProcState
  <2>3. CASE \E g \in Git : AskLatestRevision(x, g)
    <3>1. PICK g \in Git :
            proc' = [proc EXCEPT ![x] =
              [Idle EXCEPT !.at = "compare", !.git = g, !.rev = head[g],
                           !.known = Len(mods[g])]]
      BY <2>3 DEF AskLatestRevision
    <3> QED BY <1>0, <3>1 DEF Idle
  <2> QED BY <2>1, <2>2, <2>3 DEF CompareRevision, SaveFails
<1>3. \A y \in Process : Wants(proc[y])' \subseteq Wants(proc[y])
  BY <1>2 DEF Wants, Busy
<1>4. SavedRecorded'
  BY <1>1 DEF CausesInv, SavedRecorded
<1> QED BY <1>1, <1>3, <1>4, CausesFrame

LEMMA TriggerCauses ==
  ASSUME FlowInv, CausesInv, NEW x \in Process, TriggerStep(x)
  PROVE  CausesInv'
<1>1. CASE InsertInstance(x)
  BY <1>1, InsertCauses
<1>2. CASE ~InsertInstance(x)
  <2>1. UNCHANGED <<inst, saved, passes, userTriggers>>
    BY <1>2 DEF TriggerStep, TakePipeline, RefusePaused, ReadModification, AskGit,
                CreateModification, CreateRaises, ReadUpstream, Verify, InsertRaises, Raise,
                rows, history, counters
  <2>2. CASE UNCHANGED mods
    <3>1. SavedRecorded'
      BY <2>1, <2>2 DEF CausesInv, SavedRecorded
    <3> QED BY <2>1, <3>1, TriggerWants, CausesFrame
  <2>3. CASE CreateModification(x)
    <3>1. PICK g, rev : /\ g = proc[x].git /\ rev = proc[x].rev
                        /\ mods' = [mods EXCEPT ![g] = Append(@, rev)]
      BY <2>3 DEF CreateModification
    <3>2. rev \in Revision /\ mods \in [Git -> Seq(Revision)]
      BY <3>1, ProcessFacts DEF FlowInv, OthersTyped
    <3>3. \A h \in Git : Range(mods[h]) \subseteq Range(mods'[h])
      BY <3>1, <3>2, AppendRange
    <3>4. SavedRecorded'
      BY <2>1, <3>3, RecordedStays DEF CausesInv
    <3> QED BY <2>1, <3>4, TriggerWants, CausesFrame
  <2> QED
    BY <1>2, <2>2, <2>3
       DEF TriggerStep, TakePipeline, RefusePaused, ReadModification, AskGit, CreateRaises,
           ReadUpstream, Verify, InsertRaises, Raise, rows
<1> QED BY <1>1, <1>2

LEMMA InitCauses == Init => CausesInv
<1> SUFFICES ASSUME Init PROVE CausesInv
  OBVIOUS
<1>1. saved = {} /\ SavedRecorded
  BY DEF Init, SavedRecorded
<1>2. ASSUME NEW p \in Pipeline
      PROVE  /\ Pending(p) = {} /\ PassesFor(p) = {} /\ SavedFor(p) = {}
             /\ Len(inst[p]) = 0
  <2>1. inst[p] = <<>> /\ \A u \in Pipeline : passes[u] = 0
    BY DEF Init
  <2>3. PassesFor(p) = {}
    <3>1. \A u \in UpstreamsOf[p] : passes[u] = 0
      BY <2>1, GraphFacts
    <3>2. \A c \in PassesFor(p) : \E u \in UpstreamsOf[p] : c \in {u} \X (1..passes[u])
      BY DEF PassesFor
    <3> QED BY <3>1, <3>2
  <2>4. Pending(p) = {}
    BY DEF Init, Pending, Wants, Busy, Idle
  <2> QED BY <1>1, <2>1, <2>3, <2>4 DEF SavedFor
<1>3. CausesFinite
  BY <1>1, <1>2, FS_EmptySet DEF CausesFinite
<1>4. CausesSuffice
  <2> SUFFICES ASSUME NEW p \in Pipeline
               PROVE  Len(inst[p]) + Cardinality(Pending(p)) <= Causes(p)
    BY DEF CausesSuffice
  <2>1. Cardinality(Pending(p)) = 0 /\ Causes(p) = 0
    <3>1. userTriggers[p] = 0
      BY DEF Init
    <3>2. /\ Cardinality(Pending(p)) = 0 /\ Cardinality(SavedFor(p)) = 0
          /\ Cardinality(PassesFor(p)) = 0
      BY <1>2, FS_EmptySet, Zenon
    <3> QED BY <3>1, <3>2 DEF Causes
  <2> QED BY <1>2, <2>1
<1> QED BY <1>1, <1>3, <1>4 DEF CausesInv

LEMMA NextCauses == FlowInv /\ CausesInv /\ [Next]_vars => CausesInv'
<1>1. ASSUME FlowInv, CausesInv, NEW x \in Poller,
             PollerStep(x) \/ \E g \in Git : AskLatestRevision(x, g)
      PROVE  CausesInv'
  <2>1. x \in Process
    BY DEF Process
  <2> QED BY <1>1, <2>1, PollCauses, SaveCauses DEF PollerStep
<1>2. ASSUME FlowInv, CausesInv, NEW x \in Channel, Completing(x)
      PROVE  CausesInv'
  <2>1. x \in Process
    BY DEF Process
  <2> QED BY <1>2, <2>1, PassCauses, CompletingCauses
<1>3. ASSUME FlowInv, CausesInv,
             \/ \E p \in Pipeline : \E n \in DOMAIN inst[p], s \in 1..NStages[p] :
                  RerunStage(p, n, s)
             \/ \E p \in Pipeline : SetPaused(p)
             \/ \E g \in Git : Push(g)
             \/ UNCHANGED vars
      PROVE  CausesInv'
  <2>1. UNCHANGED <<proc, saved, mods, passes, userTriggers>>
    BY <1>3 DEF RerunStage, SetPaused, Push, rows, history, counters, vars
  <2>3. \A q \in Pipeline : Len(inst'[q]) = Len(inst[q])
    BY <1>3, RerunFixed DEF SetPaused, Push, rows, vars, InstancesFixed
  <2>2. SavedRecorded' /\ \A y \in Process : Wants(proc[y])' \subseteq Wants(proc[y])
    BY <1>3, <2>1 DEF CausesInv, SavedRecorded, Wants
  <2> QED BY <1>3, <2>1, <2>2, <2>3, CausesFrame
<1> QED BY <1>1, <1>2, <1>3, TriggerCauses, UserCauses DEF Next, Completing

(***************************************************************************)
(* A pipeline has no more instances than there are saved commits, calls of *)
(* users, and processes that passed the last stage of a pipeline upstream: *)
(* each of these processes triggers it once, and nobody else does.         *)
(***************************************************************************)
THEOREM BuildsHaveCauses == Spec => []NoSpuriousBuild
<1>1. FlowInv /\ CausesInv => NoSpuriousBuild
  <2> SUFFICES ASSUME FlowInv, CausesInv, NEW p \in Pipeline
               PROVE  Len(inst[p]) <= Causes(p)
    BY DEF NoSpuriousBuild
  <2>1. Len(inst[p]) + Cardinality(Pending(p)) <= Causes(p)
    BY DEF CausesInv, CausesSuffice
  <2>2. Cardinality(Pending(p)) \in Nat /\ Causes(p) \in Nat /\ Len(inst[p]) \in Nat
    BY CausesFacts DEF CausesInv
  <2> QED BY <2>1, <2>2
<1> QED BY <1>1, InitFlow, NextFlow, InitCauses, NextCauses, PTL DEF Spec

=============================================================================
