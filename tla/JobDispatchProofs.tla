-------------------------- MODULE JobDispatchProofs --------------------------
(***************************************************************************)
(* Proofs about JobDispatch, for every number of agents, jobs and runs and *)
(* every bound on faults:                                                  *)
(*   - TypeCorrect: every state is well typed;                             *)
(*   - DispatchedAtMostOnce: no job is sent to agents twice.               *)
(***************************************************************************)
EXTENDS JobDispatch, SequenceTheorems, TLAPS

-----------------------------------------------------------------------------
(* Type correctness is inductive together with what each process knows in  *)
(* the middle of its handler: an interrupted handler holds the agent, job, *)
(* run and result its next step writes.                                    *)

ProcessFacts ==
  /\ sched.at # "idle" => sched.agent \in Agent /\ sched.job \in Job
  /\ sched.at \in {"created", "linked", "marked"} => sched.run \in Run
  /\ \A a \in Agent : chan[a].at = "complete" =>
       chan[a].run \in Run /\ chan[a].result # "none"
  /\ mon.at # "idle" => mon.run \in Run

TypeInv == TypeOK /\ ProcessFacts

-----------------------------------------------------------------------------
(* Sequences and messages                                                  *)

LEMMA SeqTypes ==
  ASSUME NEW S, NEW s \in Seq(S)
  PROVE  /\ s # <<>> => Head(s) \in S /\ Tail(s) \in Seq(S)
         /\ \A x \in S : Append(s, x) \in Seq(S)
         /\ \A t \in Seq(S) : s \o t \in Seq(S)
         /\ \A m, n \in Int : 1 <= m /\ n <= Len(s) => SubSeq(s, m, n) \in Seq(S)
<1>1. \A x \in S : Append(s, x) \in Seq(S)
  BY AppendProperties
<1>2. \A t \in Seq(S) : s \o t \in Seq(S)
  BY ConcatProperties
<1>3. ASSUME NEW m \in Int, NEW n \in Int, 1 <= m, n <= Len(s)
      PROVE  SubSeq(s, m, n) \in Seq(S)
  <2>1. \A i \in m..n : s[i] \in S
    BY <1>3, ElementOfSeq, LenProperties
  <2> QED BY <2>1, SubSeqProperties
<1>4. s # <<>> => Head(s) \in S /\ Tail(s) \in Seq(S)
  BY HeadTailProperties
<1> QED BY <1>1, <1>2, <1>3, <1>4

LEMMA MessageTypes ==
  /\ Ping \in UpMsg
  /\ \A r \in Run, result \in Verdict :
       /\ Report(r, "Building", "none") \in UpMsg
       /\ Report(r, "Completing", result) \in UpMsg
       /\ Report(r, "Completed", result) \in UpMsg
  /\ \A r \in Run : Build(r) \in DownMsg /\ Cancel(r) \in DownMsg
BY DEF Ping, Report, Build, Cancel, UpMsg, DownMsg, Verdict

LEMMA ReceivedUp ==
  ASSUME NEW msg \in UpMsg, msg.kind = "report"
  PROVE  /\ msg.run \in Run
         /\ msg.state \in {"Building", "Completing", "Completed"}
         /\ msg.result \in Verdict \cup {"none"}
BY DEF UpMsg, Ping

LEMMA TransmitType ==
  ASSUME AgentTypeOK, NEW a \in Agent, NEW msgs \in Seq(UpMsg), Transmit(a, msgs)
  PROVE  uplink' \in [Agent -> Seq(UpMsg)]
<1>1. uplink[a] \o msgs \in Seq(UpMsg)
  BY SeqTypes DEF AgentTypeOK
<1> QED BY <1>1 DEF Transmit, AgentTypeOK

LEMMA DeliverType ==
  ASSUME AgentTypeOK, NEW a, NEW msg \in DownMsg, Deliver(a, msg)
  PROVE  downlink' \in [Agent -> Seq(DownMsg)]
<1>1. CASE a \in Agent
  <2>1. Append(downlink[a], msg) \in Seq(DownMsg)
    BY <1>1, SeqTypes DEF AgentTypeOK
  <2> QED BY <1>1, <2>1 DEF Deliver, AgentTypeOK
<1>2. CASE a \notin Agent
  BY <1>2 DEF Deliver, AgentTypeOK
<1> QED BY <1>1, <1>2

LEMMA ReceiveUp ==
  ASSUME AgentTypeOK, NEW a \in Agent, uplink[a] # <<>>,
         uplink' = [uplink EXCEPT ![a] = Tail(@)]
  PROVE  uplink' \in [Agent -> Seq(UpMsg)] /\ Head(uplink[a]) \in UpMsg
<1>1. Head(uplink[a]) \in UpMsg /\ Tail(uplink[a]) \in Seq(UpMsg)
  BY SeqTypes DEF AgentTypeOK
<1> QED BY <1>1 DEF AgentTypeOK

LEMMA ReceiveDown ==
  ASSUME AgentTypeOK, NEW a \in Agent, downlink[a] # <<>>,
         downlink' = [downlink EXCEPT ![a] = Tail(@)]
  PROVE  downlink' \in [Agent -> Seq(DownMsg)] /\ Head(downlink[a]).run \in Run
<1>1. Head(downlink[a]) \in DownMsg /\ Tail(downlink[a]) \in Seq(DownMsg)
  BY SeqTypes DEF AgentTypeOK
<1>2. Head(downlink[a]).run \in Run
  BY <1>1 DEF DownMsg
<1> QED BY <1>1, <1>2 DEF AgentTypeOK

LEMMA CompleteJobType ==
  ASSUME JobTypeOK, RunTypeOK, NEW r \in Run, NEW result \in Verdict,
         CompleteJobOf(r, result)
  PROVE  /\ jobState' \in [DbJob -> {"None", "Scheduled", "Assigned", "Completed", "Deleted"}]
         /\ jobResult' \in [DbJob -> Verdict \cup {"Unknown"}]
<1>1. CASE runJob[r] = NoJob
  BY <1>1 DEF CompleteJobOf, JobTypeOK
<1>2. CASE runJob[r] # NoJob
  BY <1>2 DEF CompleteJobOf, JobTypeOK, RunTypeOK
<1> QED BY <1>1, <1>2

LEMMA DequeueType ==
  ASSUME JobTypeOK, NEW j, Dequeue(j)
  PROVE  memQueue' \in Seq(MemJob)
<1>1. ASSUME NEW i \in DOMAIN memQueue,
             memQueue' = SubSeq(memQueue, 1, i - 1) \o SubSeq(memQueue, i + 1, Len(memQueue))
      PROVE  memQueue' \in Seq(MemJob)
  <2>1. i \in 1..Len(memQueue)
    BY LenProperties DEF JobTypeOK
  <2>2. /\ SubSeq(memQueue, 1, i - 1) \in Seq(MemJob)
        /\ SubSeq(memQueue, i + 1, Len(memQueue)) \in Seq(MemJob)
    BY <2>1, SeqTypes, LenProperties DEF JobTypeOK
  <2> QED BY <1>1, <2>2, SeqTypes
<1> QED BY <1>1 DEF Dequeue, JobTypeOK
-----------------------------------------------------------------------------
(* What a step leaves alone stays well typed                               *)

LEMMA JobFrame ==
  ASSUME TypeInv, UNCHANGED <<jobState, jobResult, jobAgent, memQueue, enqueued>>
  PROVE  JobTypeOK'
BY DEF TypeInv, TypeOK, JobTypeOK

LEMMA RunFrame ==
  ASSUME TypeInv, UNCHANGED <<runState, runResult, runAgent, runJob, sentFor>>
  PROVE  RunTypeOK'
BY DEF TypeInv, TypeOK, RunTypeOK

LEMMA AgentFrame ==
  ASSUME TypeInv,
         UNCHANGED <<agentState, presence, link, uplink, downlink, building>>
  PROVE  AgentTypeOK'
BY DEF TypeInv, TypeOK, AgentTypeOK, presence

LEMMA ProcessFrame ==
  ASSUME TypeInv, UNCHANGED <<chan, inbox, sched, scan, mon>>,
         UNCHANGED <<deletions, cuts, crashes, restarts>>
  PROVE  ProcessTypeOK' /\ ProcessFacts'
BY DEF TypeInv, TypeOK, ProcessTypeOK, ProcessFacts

-----------------------------------------------------------------------------
(* One lemma per action, one step per group of variables it changes        *)

LEMMA InitType == Init => TypeInv
BY BoundAssumption DEF Init, TypeInv, TypeOK, JobTypeOK, RunTypeOK, AgentTypeOK,
   ProcessTypeOK, ProcessFacts, IdleChannel, IdleScheduler, IdleMonitor, Verdict

LEMMA InsertJobInstanceType ==
  ASSUME TypeInv, NEW j \in DbJob, InsertJobInstance(j)
  PROVE  TypeInv'
<1>1. JobTypeOK'
  BY DEF TypeInv, TypeOK, JobTypeOK, InsertJobInstance, runVars, presence, wireVars,
     faultVars, queueVars, monVars, schedVars
<1> QED BY <1>1, RunFrame, AgentFrame, ProcessFrame DEF TypeInv, TypeOK,
     InsertJobInstance, runVars, presence, wireVars, faultVars, queueVars, monVars,
     schedVars

LEMMA ScheduleInMemoryType ==
  ASSUME TypeInv, NEW j \in MemJob, ScheduleInMemory(j)
  PROVE  TypeInv'
<1>1. JobTypeOK'
  BY DEF TypeInv, TypeOK, JobTypeOK, ScheduleInMemory, runVars, Connected,
     presence, wireVars, faultVars, monVars, jobVars
<1>2. ProcessTypeOK' /\ ProcessFacts'
  BY DEF TypeInv, TypeOK, ProcessFacts, ProcessTypeOK, ScheduleInMemory, runVars,
     Connected, presence, wireVars, faultVars, monVars, jobVars
<1> QED BY <1>1, <1>2, RunFrame, AgentFrame DEF TypeInv, TypeOK,
     ScheduleInMemory, runVars, presence, wireVars, faultVars, monVars, jobVars

LEMMA DeleteJobInstanceType ==
  ASSUME TypeInv, NEW j \in DbJob, DeleteJobInstance(j)
  PROVE  TypeInv'
<1>1. JobTypeOK'
  BY DEF TypeInv, TypeOK, JobTypeOK, DeleteJobInstance, presence, wireVars, schedVars,
     queueVars, monVars
<1>2. RunTypeOK'
  BY DEF TypeInv, TypeOK, RunTypeOK, DeleteJobInstance, presence, wireVars, schedVars,
     queueVars, monVars
<1>3. ProcessTypeOK' /\ ProcessFacts'
  BY BoundAssumption DEF TypeInv, TypeOK, ProcessFacts, ProcessTypeOK,
     DeleteJobInstance, presence, wireVars, schedVars, queueVars, monVars
<1> QED BY <1>1, <1>2, <1>3, AgentFrame DEF TypeInv, TypeOK, DeleteJobInstance,
     presence, wireVars, schedVars, queueVars, monVars

LEMMA TriggerAssignmentType ==
  ASSUME TypeInv, TriggerAssignment
  PROVE  TypeInv'
<1>1. ProcessTypeOK' /\ ProcessFacts'
  BY DEF TypeInv, TypeOK, ProcessFacts, ProcessTypeOK, TriggerAssignment,
     monVars, faultVars, runVars, Connected, jobVars, queueVars, presence, wireVars
<1> QED BY <1>1, JobFrame, RunFrame, AgentFrame DEF TypeInv, TypeOK,
     TriggerAssignment, monVars, faultVars, runVars, jobVars, queueVars,
     presence, wireVars

LEMMA SkipRequestType ==
  ASSUME TypeInv, NEW a \in Agent, NEW call \in BOOLEAN, SkipRequest(a, call)
  PROVE  TypeInv'
<1>1. ProcessTypeOK' /\ ProcessFacts'
  BY DEF TypeInv, TypeOK, ProcessFacts, ProcessTypeOK, SkipRequest, runVars,
     Requested, presence, wireVars, faultVars, queueVars, Reply, monVars, jobVars,
     IdleChannel, ScheduledJobs
<1> QED BY <1>1, JobFrame, RunFrame, AgentFrame DEF TypeInv, TypeOK,
     SkipRequest, runVars, presence, wireVars, faultVars, queueVars, monVars, jobVars

LEMMA PickJobType ==
  ASSUME TypeInv, NEW a \in Agent, NEW call \in BOOLEAN, PickJob(a, call)
  PROVE  TypeInv'
<1>1. ProcessTypeOK' /\ ProcessFacts'
  BY DEF TypeInv, TypeOK, ProcessFacts, ProcessTypeOK, PickJob, runVars,
     Requested, presence, wireVars, faultVars, queueVars, jobVars, monVars, ScheduledJobs
<1> QED BY <1>1, JobFrame, RunFrame, AgentFrame DEF TypeInv, TypeOK, PickJob,
     runVars, presence, wireVars, faultVars, queueVars, jobVars, monVars

LEMMA CreateRunType ==
  ASSUME TypeInv, CreateRun
  PROVE  TypeInv'
<1>1. RunTypeOK'
  <2> DEFINE linked == sched.job \in DbJob /\ jobState[sched.job] # "Deleted"
  <2>1. PICK r \in Run :
          /\ runState' = [runState EXCEPT ![r] = "Assigned"]
          /\ runAgent' = [runAgent EXCEPT ![r] = sched.agent]
          /\ runJob' = [runJob EXCEPT ![r] = IF linked THEN sched.job ELSE NoJob]
    BY DEF CreateRun
  <2>2. sched.agent \in Agent
    BY DEF TypeInv, ProcessFacts, CreateRun
  <2>3. (IF linked THEN sched.job ELSE NoJob) \in DbJob \cup {NoJob}
    OBVIOUS
  <2> QED BY <2>1, <2>2, <2>3 DEF TypeInv, TypeOK, RunTypeOK, CreateRun
<1>2. ProcessTypeOK' /\ ProcessFacts'
  <2>1. PICK r \in Run : sched' = [sched EXCEPT !.at = "created", !.run = r]
    BY DEF CreateRun
  <2>2. sched.at = "picked" /\ UNCHANGED <<chan, inbox, monVars, faultVars>>
    BY DEF CreateRun
  <2> QED BY <2>1, <2>2 DEF TypeInv, TypeOK, ProcessTypeOK, ProcessFacts, monVars,
       faultVars
<1> QED BY <1>1, <1>2, JobFrame, AgentFrame DEF TypeInv, TypeOK, CreateRun,
     presence, wireVars, faultVars, queueVars, monVars, jobVars

LEMMA AssignJobInstanceType ==
  ASSUME TypeInv, AssignJobInstance
  PROVE  TypeInv'
<1>1. JobTypeOK'
  <2>1. sched.agent \in Agent
    BY DEF TypeInv, ProcessFacts, AssignJobInstance
  <2>2. CASE sched.job \in DbJob /\ jobState[sched.job] # "Deleted"
    BY <2>1, <2>2 DEF TypeInv, TypeOK, JobTypeOK, AssignJobInstance, queueVars
  <2>3. CASE ~ (sched.job \in DbJob /\ jobState[sched.job] # "Deleted")
    BY <2>3 DEF TypeInv, TypeOK, JobTypeOK, AssignJobInstance, queueVars
  <2> QED BY <2>2, <2>3
<1>2. ProcessTypeOK' /\ ProcessFacts'
  BY DEF TypeInv, TypeOK, ProcessFacts, ProcessTypeOK, AssignJobInstance,
     runVars, presence, wireVars, faultVars, queueVars, monVars
<1> QED BY <1>1, <1>2, RunFrame, AgentFrame DEF TypeInv, TypeOK,
     AssignJobInstance, runVars, presence, wireVars, faultVars, queueVars, monVars

LEMMA MarkAgentBuildingType ==
  ASSUME TypeInv, MarkAgentBuilding
  PROVE  TypeInv'
<1>1. AgentTypeOK'
  BY DEF TypeInv, TypeOK, AgentTypeOK, MarkAgentBuilding, runVars, presence, wireVars,
     faultVars, queueVars, monVars, jobVars
<1>2. ProcessTypeOK' /\ ProcessFacts'
  BY DEF TypeInv, TypeOK, ProcessFacts, ProcessTypeOK, MarkAgentBuilding,
     runVars, presence, wireVars, faultVars, queueVars, monVars, jobVars
<1> QED BY <1>1, <1>2, JobFrame, RunFrame DEF TypeInv, TypeOK,
     MarkAgentBuilding, runVars, presence, wireVars, faultVars, queueVars, monVars,
     jobVars

LEMMA SendBuildType ==
  ASSUME TypeInv, SendBuild
  PROVE  TypeInv'
<1>1. JobTypeOK'
  <2>1. memQueue' \in Seq(MemJob)
    BY DequeueType DEF TypeInv, TypeOK, SendBuild
  <2> QED BY <2>1 DEF TypeInv, TypeOK, JobTypeOK, SendBuild, jobVars
<1>2. RunTypeOK'
  BY DEF TypeInv, TypeOK, RunTypeOK, ProcessTypeOK, Job, SendBuild, runVars,
     faultVars, monVars, IdleScheduler, jobVars, IdleChannel
<1>3. AgentTypeOK'
  <2>1. Build(sched.run) \in DownMsg
    BY MessageTypes DEF TypeInv, ProcessFacts, SendBuild
  <2>2. downlink' \in [Agent -> Seq(DownMsg)]
    BY <2>1, DeliverType DEF TypeInv, TypeOK, SendBuild
  <2> QED BY <2>2 DEF TypeInv, TypeOK, AgentTypeOK, SendBuild, presence
<1>4. ProcessTypeOK' /\ ProcessFacts'
  BY DEF TypeInv, TypeOK, ProcessFacts, ProcessTypeOK, SendBuild, runVars,
     faultVars, Reply, monVars, Dequeue, IdleScheduler, jobVars, IdleChannel
<1> QED BY <1>1, <1>2, <1>3, <1>4 DEF TypeInv, TypeOK, SendBuild, runVars,
     faultVars, monVars, jobVars

LEMMA ClearQueueType ==
  ASSUME TypeInv, ClearQueue
  PROVE  TypeInv'
<1>1. JobTypeOK'
  BY DEF TypeInv, TypeOK, JobTypeOK, ClearQueue, ScheduledJobs, presence, wireVars,
     schedVars, monVars
<1>2. RunTypeOK'
  BY DEF TypeInv, TypeOK, RunTypeOK, ClearQueue, ScheduledJobs, presence, wireVars,
     schedVars, monVars
<1>3. ProcessTypeOK' /\ ProcessFacts'
  BY BoundAssumption DEF TypeInv, TypeOK, ProcessFacts, ProcessTypeOK,
     ClearQueue, ScheduledJobs, presence, wireVars, schedVars, monVars
<1> QED BY <1>1, <1>2, <1>3, AgentFrame DEF TypeInv, TypeOK, ClearQueue,
     presence, wireVars, schedVars, monVars

LEMMA HandlePingType ==
  ASSUME TypeInv, NEW a \in Agent, HandlePing(a)
  PROVE  TypeInv'
<1>1. AgentTypeOK'
  <2>1. uplink' \in [Agent -> Seq(UpMsg)]
    BY ReceiveUp DEF TypeInv, TypeOK, HandlePing
  <2> QED BY <2>1 DEF TypeInv, TypeOK, AgentTypeOK, HandlePing, presence, wireVars
<1>2. ProcessTypeOK' /\ ProcessFacts'
  BY DEF TypeInv, TypeOK, ProcessFacts, ProcessTypeOK, HandlePing, runVars,
     IdleChannel, faultVars, queueVars, monVars, jobVars, schedVars
<1> QED BY <1>1, <1>2, JobFrame, RunFrame DEF TypeInv, TypeOK, HandlePing,
     runVars, faultVars, queueVars, monVars, jobVars, schedVars

LEMMA HandleReportType ==
  ASSUME TypeInv, NEW a \in Agent, HandleReport(a)
  PROVE  TypeInv'
<1>1. RunTypeOK'
  <2> DEFINE msg == Head(uplink[a])
  <2>1. msg \in UpMsg /\ msg.kind = "report"
    BY ReceiveUp DEF TypeInv, TypeOK, HandleReport
  <2>2. /\ msg.run \in Run /\ msg.state \in {"Building", "Completing", "Completed"}
        /\ msg.result \in Verdict \cup {"none"}
    BY <2>1, ReceivedUp
  <2>3. UpdateRun(msg.run, msg.state, msg.result)
    BY DEF HandleReport
  <2> QED BY <2>2, <2>3 DEF TypeInv, TypeOK, RunTypeOK, HandleReport, UpdateRun
<1>2. AgentTypeOK'
  <2>1. uplink' \in [Agent -> Seq(UpMsg)]
    BY ReceiveUp DEF TypeInv, TypeOK, HandleReport
  <2> QED BY <2>1 DEF TypeInv, TypeOK, AgentTypeOK, HandleReport, presence
<1>3. ProcessTypeOK' /\ ProcessFacts'
  <2> DEFINE msg == Head(uplink[a])
  <2>1. msg \in UpMsg /\ msg.kind = "report"
    BY ReceiveUp DEF TypeInv, TypeOK, HandleReport
  <2>2. /\ msg.run \in Run /\ msg.state \in {"Building", "Completing", "Completed"}
        /\ msg.result \in Verdict \cup {"none"}
    BY <2>1, ReceivedUp
  <2>3. chan' = [chan EXCEPT ![a] =
          [at |-> IF CompletesJob(msg.run, msg.state, msg.result)
                  THEN "complete" ELSE "runtime",
           run |-> msg.run, result |-> msg.result]]
    BY DEF HandleReport
  <2> QED BY <2>2, <2>3 DEF TypeInv, TypeOK, ProcessTypeOK, ProcessFacts, HandleReport,
       CompletesJob, schedVars, monVars, faultVars
<1> QED BY <1>1, <1>2, <1>3, JobFrame DEF TypeInv, TypeOK, HandleReport,
     faultVars, queueVars, monVars, jobVars, schedVars

LEMMA CompleteReportedJobType ==
  ASSUME TypeInv, NEW a \in Agent, CompleteReportedJob(a)
  PROVE  TypeInv'
<1>1. JobTypeOK'
  <2>1. chan[a].run \in Run /\ chan[a].result \in Verdict
    BY DEF TypeInv, TypeOK, ProcessTypeOK, ProcessFacts, CompleteReportedJob
  <2>2. CompleteJobOf(chan[a].run, chan[a].result)
    BY DEF CompleteReportedJob
  <2>3. /\ jobState' \in [DbJob -> {"None", "Scheduled", "Assigned", "Completed", "Deleted"}]
        /\ jobResult' \in [DbJob -> Verdict \cup {"Unknown"}]
    BY <2>1, <2>2, CompleteJobType DEF TypeInv, TypeOK
  <2> QED BY <2>3 DEF TypeInv, TypeOK, JobTypeOK, CompleteReportedJob,
       queueVars
<1>2. ProcessTypeOK' /\ ProcessFacts'
  BY DEF TypeInv, TypeOK, ProcessFacts, ProcessTypeOK, CompleteReportedJob,
     runVars, presence, wireVars, faultVars, CompleteJobOf, queueVars, monVars, schedVars
<1> QED BY <1>1, <1>2, RunFrame, AgentFrame DEF TypeInv, TypeOK,
     CompleteReportedJob, runVars, presence, wireVars, faultVars, queueVars, monVars,
     schedVars

LEMMA FinishReportType ==
  ASSUME TypeInv, NEW a \in Agent, FinishReport(a)
  PROVE  TypeInv'
<1>1. AgentTypeOK'
  BY DEF TypeInv, TypeOK, AgentTypeOK, FinishReport, runVars, presence, wireVars,
     IdleChannel, faultVars, queueVars, monVars, jobVars, schedVars
<1>2. ProcessTypeOK' /\ ProcessFacts'
  BY DEF TypeInv, TypeOK, ProcessFacts, ProcessTypeOK, FinishReport, runVars,
     presence, wireVars, IdleChannel, faultVars, queueVars, monVars, jobVars, schedVars
<1> QED BY <1>1, <1>2, JobFrame, RunFrame DEF TypeInv, TypeOK, FinishReport,
     runVars, presence, wireVars, faultVars, queueVars, monVars, jobVars, schedVars

LEMMA ChannelTerminateType ==
  ASSUME TypeInv, NEW a \in Agent, ChannelTerminate(a)
  PROVE  TypeInv'
<1>1. AgentTypeOK'
  BY DEF TypeInv, TypeOK, AgentTypeOK, ChannelTerminate, runVars, presence, wireVars,
     faultVars, queueVars, monVars, jobVars, schedVars
<1> QED BY <1>1, JobFrame, RunFrame, ProcessFrame DEF TypeInv, TypeOK,
     ChannelTerminate, runVars, presence, wireVars, faultVars, queueVars, monVars,
     jobVars, schedVars

LEMMA MarkLostContactType ==
  ASSUME TypeInv, NEW a \in Agent, MarkLostContact(a)
  PROVE  TypeInv'
<1>1. AgentTypeOK'
  BY DEF TypeInv, TypeOK, AgentTypeOK, MarkLostContact, runVars, presence, wireVars,
     faultVars, queueVars, monVars, jobVars, schedVars
<1> QED BY <1>1, JobFrame, RunFrame, ProcessFrame DEF TypeInv, TypeOK,
     MarkLostContact, runVars, presence, wireVars, faultVars, queueVars, monVars,
     jobVars, schedVars

LEMMA DropUnmatchedType ==
  ASSUME TypeInv, NEW a \in Agent, DropUnmatched(a)
  PROVE  TypeInv'
<1>1. AgentTypeOK'
  <2>1. uplink' \in [Agent -> Seq(UpMsg)]
    BY ReceiveUp DEF TypeInv, TypeOK, DropUnmatched
  <2> QED BY <2>1 DEF TypeInv, TypeOK, AgentTypeOK, DropUnmatched, presence, wireVars
<1> QED BY <1>1, JobFrame, RunFrame, ProcessFrame DEF TypeInv, TypeOK,
     DropUnmatched, monVars, faultVars, runVars, jobVars, queueVars, schedVars

LEMMA SendPingType ==
  ASSUME TypeInv, NEW a \in Agent, SendPing(a)
  PROVE  TypeInv'
<1>1. AgentTypeOK'
  <2>1. <<Ping>> \in Seq(UpMsg)
    BY MessageTypes
  <2>2. uplink' \in [Agent -> Seq(UpMsg)]
    BY <2>1, TransmitType DEF TypeInv, TypeOK, SendPing
  <2> QED BY <2>2 DEF TypeInv, TypeOK, AgentTypeOK, SendPing, presence
<1> QED BY <1>1, JobFrame, RunFrame, ProcessFrame DEF TypeInv, TypeOK,
     SendPing, runVars, faultVars, queueVars, monVars, jobVars, schedVars

LEMMA StartBuildType ==
  ASSUME TypeInv, NEW a \in Agent, StartBuild(a)
  PROVE  TypeInv'
<1>1. AgentTypeOK'
  <2> DEFINE r == Head(downlink[a]).run
  <2>1. downlink' \in [Agent -> Seq(DownMsg)] /\ r \in Run
    BY ReceiveDown DEF TypeInv, TypeOK, StartBuild
  <2>2. Report(r, "Building", "none") \in UpMsg
    BY <2>1, MessageTypes DEF Verdict
  <2>3. <<Report(r, "Building", "none")>> \in Seq(UpMsg)
    BY <2>2
  <2>4. uplink' \in [Agent -> Seq(UpMsg)]
    BY <2>3, TransmitType DEF TypeInv, TypeOK, StartBuild
  <2> QED BY <2>1, <2>4 DEF TypeInv, TypeOK, AgentTypeOK, StartBuild, presence
<1> QED BY <1>1, JobFrame, RunFrame, ProcessFrame DEF TypeInv, TypeOK,
     StartBuild, runVars, schedVars, faultVars, queueVars, monVars, jobVars

LEMMA FinishBuildType ==
  ASSUME TypeInv, NEW a \in Agent, FinishBuild(a)
  PROVE  TypeInv'
<1>1. AgentTypeOK'
  <2> DEFINE r == building[a]
  <2>1. r \in Run
    BY DEF TypeInv, TypeOK, AgentTypeOK, FinishBuild, InLoop
  <2>2. PICK result \in {"Passed", "Failed"} :
          Transmit(a, <<Report(r, "Completing", result), Report(r, "Completed", result)>>)
    BY DEF FinishBuild
  <2>3. /\ Report(r, "Completing", result) \in UpMsg
        /\ Report(r, "Completed", result) \in UpMsg
    BY <2>1, MessageTypes DEF Verdict
  <2>4. <<Report(r, "Completing", result), Report(r, "Completed", result)>> \in Seq(UpMsg)
    BY <2>3
  <2>5. uplink' \in [Agent -> Seq(UpMsg)]
    BY <2>2, <2>4, TransmitType DEF TypeInv, TypeOK
  <2> QED BY <2>5 DEF TypeInv, TypeOK, AgentTypeOK, FinishBuild, presence
<1> QED BY <1>1, JobFrame, RunFrame, ProcessFrame DEF TypeInv, TypeOK,
     FinishBuild, runVars, faultVars, queueVars, monVars, jobVars, schedVars

LEMMA IgnoreCancelType ==
  ASSUME TypeInv, NEW a \in Agent, IgnoreCancel(a)
  PROVE  TypeInv'
<1>1. AgentTypeOK'
  <2>1. downlink' \in [Agent -> Seq(DownMsg)]
    BY ReceiveDown DEF TypeInv, TypeOK, IgnoreCancel
  <2> QED BY <2>1 DEF TypeInv, TypeOK, AgentTypeOK, IgnoreCancel, presence
<1> QED BY <1>1, JobFrame, RunFrame, ProcessFrame DEF TypeInv, TypeOK,
     IgnoreCancel, runVars, faultVars, queueVars, monVars, jobVars, schedVars

LEMMA ConnectType ==
  ASSUME TypeInv, NEW a \in Agent, Connect(a)
  PROVE  TypeInv'
<1>1. AgentTypeOK'
  BY DEF TypeInv, TypeOK, AgentTypeOK, Connect, runVars, faultVars, queueVars,
     InLoop, monVars, jobVars, schedVars
<1> QED BY <1>1, JobFrame, RunFrame, ProcessFrame DEF TypeInv, TypeOK, Connect,
     runVars, faultVars, queueVars, monVars, jobVars, schedVars

LEMMA ScanRunsType ==
  ASSUME TypeInv, ScanRuns
  PROVE  TypeInv'
<1>1. ProcessTypeOK' /\ ProcessFacts'
  BY DEF TypeInv, TypeOK, ProcessFacts, ProcessTypeOK, ScanRuns, runVars,
     presence, wireVars, faultVars, queueVars, QuietRuns, jobVars, schedVars,
     ActiveStates, Completing
<1> QED BY <1>1, JobFrame, RunFrame, AgentFrame DEF TypeInv, TypeOK, ScanRuns,
     runVars, presence, wireVars, faultVars, queueVars, jobVars, schedVars

LEMMA CancelRunType ==
  ASSUME TypeInv, NEW r \in Run, CancelRun(r)
  PROVE  TypeInv'
<1>1. AgentTypeOK'
  <2>1. downlink' \in [Agent -> Seq(DownMsg)]
    BY MessageTypes, DeliverType DEF TypeInv, TypeOK, CancelRun
  <2> QED BY <2>1 DEF TypeInv, TypeOK, AgentTypeOK, CancelRun, presence
<1>2. ProcessTypeOK' /\ ProcessFacts'
  BY DEF TypeInv, TypeOK, ProcessFacts, ProcessTypeOK, CancelRun, runVars,
     faultVars, queueVars, jobVars, schedVars
<1> QED BY <1>1, <1>2, JobFrame, RunFrame DEF TypeInv, TypeOK, CancelRun,
     runVars, faultVars, queueVars, jobVars, schedVars

LEMMA ReportCancelledType ==
  ASSUME TypeInv, ReportCancelled
  PROVE  TypeInv'
<1>1. RunTypeOK'
  BY DEF TypeInv, TypeOK, RunTypeOK, Verdict, ReportCancelled, UpdateRun,
     presence, wireVars, faultVars, queueVars, CompletesJob, jobVars, schedVars,
     IdleMonitor
<1>2. ProcessTypeOK' /\ ProcessFacts'
  BY DEF TypeInv, TypeOK, ProcessFacts, ProcessTypeOK, ReportCancelled,
     UpdateRun, presence, wireVars, faultVars, queueVars, CompletesJob, jobVars,
     schedVars, IdleMonitor
<1> QED BY <1>1, <1>2, JobFrame, AgentFrame DEF TypeInv, TypeOK,
     ReportCancelled, presence, wireVars, faultVars, queueVars, jobVars, schedVars

LEMMA CompleteCancelledJobType ==
  ASSUME TypeInv, CompleteCancelledJob
  PROVE  TypeInv'
<1>1. JobTypeOK'
  <2>1. mon.run \in Run /\ "Cancelled" \in Verdict
    BY DEF TypeInv, ProcessFacts, CompleteCancelledJob, Verdict
  <2>2. /\ jobState' \in [DbJob -> {"None", "Scheduled", "Assigned", "Completed", "Deleted"}]
        /\ jobResult' \in [DbJob -> Verdict \cup {"Unknown"}]
    BY <2>1, CompleteJobType DEF TypeInv, TypeOK, CompleteCancelledJob
  <2> QED BY <2>2 DEF TypeInv, TypeOK, JobTypeOK, CompleteCancelledJob,
       queueVars
<1>2. ProcessTypeOK' /\ ProcessFacts'
  BY DEF TypeInv, TypeOK, ProcessFacts, ProcessTypeOK, CompleteCancelledJob,
     runVars, presence, wireVars, faultVars, CompleteJobOf, queueVars, schedVars,
     IdleMonitor
<1> QED BY <1>1, <1>2, RunFrame, AgentFrame DEF TypeInv, TypeOK,
     CompleteCancelledJob, runVars, presence, wireVars, faultVars, queueVars, schedVars

LEMMA CutLinkType ==
  ASSUME TypeInv, NEW a \in Agent, CutLink(a)
  PROVE  TypeInv'
<1>1. AgentTypeOK'
  <2>1. PICK n \in 0..Len(uplink[a]) : uplink' = [uplink EXCEPT ![a] = SubSeq(@, 1, n)]
    BY DEF CutLink
  <2>2. SubSeq(uplink[a], 1, n) \in Seq(UpMsg)
    BY SeqTypes, LenProperties DEF TypeInv, TypeOK, AgentTypeOK
  <2>3. PICK m \in 0..Len(downlink[a]) :
          downlink' = [downlink EXCEPT ![a] = SubSeq(@, 1, m)]
    BY DEF CutLink
  <2>4. SubSeq(downlink[a], 1, m) \in Seq(DownMsg)
    BY SeqTypes, LenProperties DEF TypeInv, TypeOK, AgentTypeOK
  <2> QED BY <2>1, <2>2, <2>3, <2>4 DEF TypeInv, TypeOK, AgentTypeOK, CutLink, presence
<1>2. ProcessTypeOK' /\ ProcessFacts'
  BY BoundAssumption DEF TypeInv, TypeOK, ProcessFacts, ProcessTypeOK, CutLink,
     runVars, queueVars, monVars, jobVars, schedVars
<1> QED BY <1>1, <1>2, JobFrame, RunFrame DEF TypeInv, TypeOK, CutLink,
     runVars, queueVars, monVars, jobVars, schedVars

LEMMA SchedulerCrashType ==
  ASSUME TypeInv, SchedulerCrash
  PROVE  TypeInv'
<1>1. JobTypeOK'
  BY DEF TypeInv, TypeOK, JobTypeOK, SchedulerCrash, runVars, presence, wireVars,
     IdleChannel, monVars, IdleScheduler, jobVars
<1>2. AgentTypeOK'
  BY DEF TypeInv, TypeOK, AgentTypeOK, SchedulerCrash, runVars, presence, wireVars,
     IdleChannel, monVars, IdleScheduler, jobVars
<1>3. ProcessTypeOK' /\ ProcessFacts'
  BY BoundAssumption DEF TypeInv, TypeOK, ProcessFacts, ProcessTypeOK,
     IdleChannel, Verdict, SchedulerCrash, runVars, presence, wireVars, monVars,
     IdleScheduler, jobVars
<1> QED BY <1>1, <1>2, <1>3, RunFrame DEF TypeInv, TypeOK, SchedulerCrash,
     runVars, presence, wireVars, monVars, jobVars

LEMMA ServerRestartType ==
  ASSUME TypeInv, ServerRestart
  PROVE  TypeInv'
<1>1. JobTypeOK'
  BY DEF TypeInv, TypeOK, JobTypeOK, ServerRestart, runVars, IdleChannel,
     IdleScheduler, jobVars, IdleMonitor
<1>2. AgentTypeOK'
  BY DEF TypeInv, TypeOK, AgentTypeOK, ServerRestart, runVars, IdleChannel,
     IdleScheduler, jobVars, IdleMonitor
<1>3. ProcessTypeOK' /\ ProcessFacts'
  BY BoundAssumption DEF TypeInv, TypeOK, ProcessFacts, ProcessTypeOK, Verdict,
     ServerRestart, runVars, IdleChannel, IdleScheduler, jobVars, IdleMonitor
<1> QED BY <1>1, <1>2, <1>3, RunFrame DEF TypeInv, TypeOK, ServerRestart,
     runVars, jobVars

LEMMA NextType == TypeInv /\ [Next]_vars => TypeInv'
<1> SUFFICES ASSUME TypeInv, [Next]_vars PROVE TypeInv'
  OBVIOUS
<1>1. CASE CallerStep
  BY <1>1, InsertJobInstanceType, DeleteJobInstanceType, ScheduleInMemoryType
  DEF CallerStep
<1>2. CASE SchedulerStep
  BY <1>2, TriggerAssignmentType, SkipRequestType, PickJobType, CreateRunType,
     AssignJobInstanceType, MarkAgentBuildingType, SendBuildType, ClearQueueType
  DEF SchedulerStep
<1>3. ASSUME NEW a \in Agent, ChannelStep(a) PROVE TypeInv'
  BY <1>3, HandlePingType, HandleReportType, CompleteReportedJobType,
     FinishReportType, ChannelTerminateType, MarkLostContactType, DropUnmatchedType
  DEF ChannelStep
<1>4. ASSUME NEW a \in Agent, AgentStep(a) PROVE TypeInv'
  BY <1>4, SendPingType, StartBuildType, FinishBuildType, IgnoreCancelType,
     ConnectType
  DEF AgentStep
<1>5. CASE MonitorStep
  BY <1>5, ScanRunsType, CancelRunType, ReportCancelledType,
     CompleteCancelledJobType
  DEF MonitorStep
<1>6. CASE FaultStep
  BY <1>6, CutLinkType, SchedulerCrashType, ServerRestartType DEF FaultStep
<1>7. CASE UNCHANGED vars
  BY <1>7, JobFrame, RunFrame, AgentFrame, ProcessFrame
  DEF vars, jobVars, queueVars, runVars, presence, wireVars, schedVars, monVars, faultVars,
      TypeInv, TypeOK
<1> QED BY <1>1, <1>2, <1>3, <1>4, <1>5, <1>6, <1>7 DEF Next

(***************************************************************************)
(* Every reachable state is well typed: rows, messages and handlers only   *)
(* ever hold the values the code gives them.                               *)
(***************************************************************************)
THEOREM TypeCorrect == Spec => []TypeOK
<1>1. TypeInv => TypeOK
  BY DEF TypeInv
<1> QED BY <1>1, InitType, NextType, PTL DEF Spec

-----------------------------------------------------------------------------
(* At most one dispatch.  A job can be picked only from the in-memory      *)
(* queue or among the Scheduled job instances, so it is enough that a job  *)
(* has left both for good when its build is broadcast: the row because     *)
(* assign_job_instance comes before the broadcast and nothing makes a row  *)
(* Scheduled again, the entry because it is dropped with the broadcast and *)
(* ids are not used twice.                                                 *)

Pending == {"None", "Scheduled"}

SentRowsNotPending ==
  \A r \in Run, j \in DbJob : sentFor[r] = j => jobState[j] \notin Pending

SentEntriesNotQueued ==
  \A r \in Run, j \in MemJob : sentFor[r] = j =>
    j \in enqueued /\ \A i \in DOMAIN memQueue : memQueue[i] # j

QueueOfDistinct ==
  /\ \A i \in DOMAIN memQueue : memQueue[i] \in enqueued
  /\ \A i, k \in DOMAIN memQueue : memQueue[i] = memQueue[k] => i = k

PickedNotSent ==
  sched.at # "idle" =>
    /\ \A r \in Run : sentFor[r] # sched.job
    /\ sched.job \in MemJob => sched.job \in enqueued

AssignedBeforeSent ==
  sched.at \in {"linked", "marked"} /\ sched.job \in DbJob
    => jobState[sched.job] \notin Pending

DispatchInv ==
  /\ SentRowsNotPending
  /\ SentEntriesNotQueued
  /\ QueueOfDistinct
  /\ PickedNotSent
  /\ AssignedBeforeSent
  /\ AtMostOnceDispatch

LEMMA InitDispatch == Init => DispatchInv
BY JobAssumption DEF Init, DispatchInv, SentRowsNotPending, SentEntriesNotQueued,
   QueueOfDistinct, PickedNotSent, AssignedBeforeSent, AtMostOnceDispatch,
   IdleScheduler, Job

\* Rows only move away from Pending, and the queue and the scheduler stand still.
LEMMA RowsMoveOn ==
  ASSUME DispatchInv, UNCHANGED <<memQueue, enqueued, sentFor, sched>>,
         \A j \in DbJob : jobState[j] \notin Pending => jobState'[j] \notin Pending
  PROVE  DispatchInv'
BY DEF DispatchInv, SentRowsNotPending, SentEntriesNotQueued, QueueOfDistinct,
   PickedNotSent, AssignedBeforeSent, AtMostOnceDispatch

\* The scheduler forgets what it was doing; the queue stays or is emptied.
LEMMA SchedulerForgets ==
  ASSUME DispatchInv, UNCHANGED <<enqueued, sentFor>>, sched'.at = "idle",
         memQueue' = <<>>,
         \A j \in DbJob : jobState[j] \notin Pending => jobState'[j] \notin Pending
  PROVE  DispatchInv'
BY DEF DispatchInv, SentRowsNotPending, SentEntriesNotQueued, QueueOfDistinct,
   PickedNotSent, AssignedBeforeSent, AtMostOnceDispatch

LEMMA CompletionMovesOn ==
  ASSUME TypeInv, NEW r, NEW result, CompleteJobOf(r, result)
  PROVE  \A j \in DbJob : jobState[j] \notin Pending => jobState'[j] \notin Pending
<1>1. CASE runJob[r] = NoJob
  BY <1>1 DEF CompleteJobOf
<1>2. CASE runJob[r] # NoJob
  BY <1>2 DEF CompleteJobOf, TypeInv, TypeOK, JobTypeOK, Pending
<1> QED BY <1>1, <1>2

LEMMA InsertJobInstanceDispatch ==
  ASSUME TypeInv, DispatchInv, NEW j \in DbJob, InsertJobInstance(j)
  PROVE  DispatchInv'
<1>1. \A k \in DbJob : jobState[k] \notin Pending => jobState'[k] \notin Pending
  BY DEF InsertJobInstance, TypeInv, TypeOK, JobTypeOK, Pending
<1> QED BY <1>1, RowsMoveOn DEF InsertJobInstance, queueVars, schedVars

LEMMA DeleteJobInstanceDispatch ==
  ASSUME TypeInv, DispatchInv, NEW j \in DbJob, DeleteJobInstance(j)
  PROVE  DispatchInv'
<1>1. \A k \in DbJob : jobState[k] \notin Pending => jobState'[k] \notin Pending
  BY DEF DeleteJobInstance, TypeInv, TypeOK, JobTypeOK, Pending
<1> QED BY <1>1, RowsMoveOn DEF DeleteJobInstance, queueVars, schedVars

LEMMA ScheduleInMemoryDispatch ==
  ASSUME TypeInv, DispatchInv, NEW j \in MemJob, ScheduleInMemory(j)
  PROVE  DispatchInv'
<1>1. /\ memQueue' = Append(memQueue, j) /\ j \notin enqueued
      /\ enqueued' = enqueued \cup {j}
      /\ UNCHANGED <<jobState, sentFor, sched>>
  BY DEF ScheduleInMemory, jobVars
<1>2. /\ DOMAIN memQueue' = 1..(Len(memQueue) + 1) /\ DOMAIN memQueue = 1..Len(memQueue)
      /\ \A i \in 1..Len(memQueue) : memQueue'[i] = memQueue[i]
      /\ memQueue'[Len(memQueue) + 1] = j
      /\ Len(memQueue) \in Nat
  BY <1>1, AppendProperties, LenProperties DEF TypeInv, TypeOK, JobTypeOK
<1>3. QueueOfDistinct'
  BY <1>1, <1>2 DEF DispatchInv, QueueOfDistinct
<1>4. SentEntriesNotQueued'
  BY <1>1, <1>2 DEF DispatchInv, SentEntriesNotQueued
<1>5. /\ SentRowsNotPending' /\ PickedNotSent' /\ AssignedBeforeSent'
      /\ AtMostOnceDispatch'
  BY <1>1 DEF DispatchInv, SentRowsNotPending, PickedNotSent, AssignedBeforeSent,
     AtMostOnceDispatch
<1> QED BY <1>3, <1>4, <1>5 DEF DispatchInv

LEMMA PickJobDispatch ==
  ASSUME TypeInv, DispatchInv, NEW a \in Agent, NEW call \in BOOLEAN, PickJob(a, call)
  PROVE  DispatchInv'
<1>1. PICK j \in Job : FirstMatch(j, a) /\ sched' =
        [at |-> "picked", agent |-> a, job |-> j, run |-> NoRun, call |-> call]
  BY DEF PickJob
<1>2. UNCHANGED <<jobState, memQueue, enqueued, sentFor>>
  BY DEF PickJob, jobVars, queueVars
<1>3. /\ \A r \in Run : sentFor[r] # j
      /\ j \in MemJob => j \in enqueued
  <2>1. CASE FirstInMemory(j, a)
    <3>1. PICK i \in DOMAIN memQueue : memQueue[i] = j
      BY <2>1 DEF FirstInMemory
    <3>2. j \in MemJob
      BY <3>1, ElementOfSeq, LenProperties DEF TypeInv, TypeOK, JobTypeOK
    <3> QED BY <3>1, <3>2 DEF DispatchInv, SentEntriesNotQueued, QueueOfDistinct
  <2>2. CASE FirstInDatabase(j, a)
    BY <2>2, JobAssumption
    DEF FirstInDatabase, ScheduledJobs, DispatchInv, SentRowsNotPending, Pending
  <2> QED BY <1>1, <2>1, <2>2 DEF FirstMatch
<1>4. PickedNotSent' /\ AssignedBeforeSent'
  BY <1>1, <1>2, <1>3 DEF PickedNotSent, AssignedBeforeSent
<1>5. /\ SentRowsNotPending' /\ SentEntriesNotQueued' /\ QueueOfDistinct'
      /\ AtMostOnceDispatch'
  BY <1>2 DEF DispatchInv, SentRowsNotPending, SentEntriesNotQueued,
     QueueOfDistinct, AtMostOnceDispatch
<1> QED BY <1>4, <1>5 DEF DispatchInv

LEMMA CreateRunDispatch ==
  ASSUME TypeInv, DispatchInv, CreateRun
  PROVE  DispatchInv'
<1>1. /\ sched.at = "picked" /\ sched'.at = "created" /\ sched'.job = sched.job
      /\ UNCHANGED <<jobState, memQueue, enqueued, sentFor>>
  BY DEF CreateRun, jobVars, queueVars, TypeInv, TypeOK, ProcessTypeOK
<1> QED BY <1>1 DEF DispatchInv, SentRowsNotPending, SentEntriesNotQueued,
        QueueOfDistinct, PickedNotSent, AssignedBeforeSent, AtMostOnceDispatch

\* The row leaves Pending here, one step before the agent is marked and two
\* before the build is broadcast.
LEMMA AssignJobInstanceDispatch ==
  ASSUME TypeInv, DispatchInv, AssignJobInstance
  PROVE  DispatchInv'
<1>1. /\ sched.at = "created" /\ sched'.job = sched.job
      /\ UNCHANGED <<memQueue, enqueued, sentFor>>
  BY DEF AssignJobInstance, queueVars, TypeInv, TypeOK, ProcessTypeOK
<1>2. /\ \A j \in DbJob : jobState[j] \notin Pending => jobState'[j] \notin Pending
      /\ sched.job \in DbJob => jobState'[sched.job] \notin Pending
  <2>1. CASE sched.job \in DbJob /\ jobState[sched.job] # "Deleted"
    BY <2>1 DEF AssignJobInstance, TypeInv, TypeOK, JobTypeOK, Pending
  <2>2. CASE ~ (sched.job \in DbJob /\ jobState[sched.job] # "Deleted")
    BY <2>2 DEF AssignJobInstance, Pending
  <2> QED BY <2>1, <2>2
<1> QED BY <1>1, <1>2 DEF DispatchInv, SentRowsNotPending, SentEntriesNotQueued,
        QueueOfDistinct, PickedNotSent, AssignedBeforeSent, AtMostOnceDispatch

LEMMA MarkAgentBuildingDispatch ==
  ASSUME TypeInv, DispatchInv, MarkAgentBuilding
  PROVE  DispatchInv'
<1>1. /\ sched.at = "linked" /\ sched'.at = "marked" /\ sched'.job = sched.job
      /\ UNCHANGED <<jobState, memQueue, enqueued, sentFor>>
  BY DEF MarkAgentBuilding, jobVars, queueVars, TypeInv, TypeOK, ProcessTypeOK
<1> QED BY <1>1 DEF DispatchInv, SentRowsNotPending, SentEntriesNotQueued,
        QueueOfDistinct, PickedNotSent, AssignedBeforeSent, AtMostOnceDispatch

\* What is left of the queue: its entries, without the one that was dropped.
LEMMA DequeueKeeps ==
  ASSUME TypeInv, QueueOfDistinct, NEW j, Dequeue(j)
  PROVE  /\ \A k \in DOMAIN memQueue' : memQueue'[k] # j
         /\ \A k \in DOMAIN memQueue' : \E i \in DOMAIN memQueue : memQueue'[k] = memQueue[i]
         /\ \A k, m \in DOMAIN memQueue' : memQueue'[k] = memQueue'[m] => k = m
<1>1. CASE UNCHANGED memQueue /\ \A i \in DOMAIN memQueue : memQueue[i] # j
  BY <1>1 DEF QueueOfDistinct
<1>2. ASSUME NEW i \in DOMAIN memQueue, memQueue[i] = j,
             memQueue' = SubSeq(memQueue, 1, i - 1)
                           \o SubSeq(memQueue, i + 1, Len(memQueue))
      PROVE  /\ \A k \in DOMAIN memQueue' : memQueue'[k] # j
             /\ \A k \in DOMAIN memQueue' :
                  \E l \in DOMAIN memQueue : memQueue'[k] = memQueue[l]
             /\ \A k, m \in DOMAIN memQueue' : memQueue'[k] = memQueue'[m] => k = m
  <2> DEFINE n == Len(memQueue)
             Old(k) == IF k < i THEN k ELSE k + 1
             left == SubSeq(memQueue, 1, i - 1)
             right == SubSeq(memQueue, i + 1, n)
  <2>1. n \in Nat /\ DOMAIN memQueue = 1..n /\ i \in 1..n
    BY LenProperties DEF TypeInv, TypeOK, JobTypeOK
  <2>2. \A l \in 1..n : memQueue[l] \in MemJob
    BY ElementOfSeq DEF TypeInv, TypeOK, JobTypeOK
  <2>3. /\ left \in Seq(MemJob) /\ Len(left) = i - 1
        /\ \A k \in 1..(i - 1) : left[k] = memQueue[k]
    <3>1. \A l \in 1..(i - 1) : memQueue[l] \in MemJob
      BY <2>1, <2>2
    <3> QED BY <2>1, <3>1, SubSeqProperties
  <2>4. /\ right \in Seq(MemJob) /\ Len(right) = n - i
        /\ \A k \in 1..(n - i) : right[k] = memQueue[i + k]
    <3>1. \A l \in (i + 1)..n : memQueue[l] \in MemJob
      BY <2>1, <2>2
    <3> QED BY <2>1, <3>1, SubSeqProperties
  <2>5. /\ DOMAIN memQueue' = 1..(n - 1)
        /\ \A k \in 1..(n - 1) : memQueue'[k] = memQueue[Old(k)]
    <3> HIDE DEF left, right
    <3>1. memQueue' = left \o right
      BY <1>2 DEF left, right
    <3>2. /\ left \o right \in Seq(MemJob)
          /\ Len(left \o right) = Len(left) + Len(right)
          /\ \A k \in 1..Len(left) + Len(right) : (left \o right)[k] =
               IF k <= Len(left) THEN left[k] ELSE right[k - Len(left)]
      BY <2>3, <2>4, ConcatProperties
    <3>3. Len(left) + Len(right) = n - 1
      BY <2>1, <2>3, <2>4
    <3>4. DOMAIN memQueue' = 1..(n - 1)
      BY <3>1, <3>2, <3>3, LenProperties
    <3>5. ASSUME NEW k \in 1..(n - 1)  PROVE memQueue'[k] = memQueue[Old(k)]
      <4>1. CASE k < i
        BY <2>1, <2>3, <3>1, <3>2, <3>3, <4>1
      <4>2. CASE ~ (k < i)
        <5>1. k - (i - 1) \in 1..(n - i) /\ i + (k - (i - 1)) = k + 1
          BY <2>1, <4>2
        <5>2. right[k - (i - 1)] = memQueue[k + 1]
          BY <2>4, <5>1
        <5>3. memQueue'[k] = right[k - (i - 1)]
          BY <2>1, <2>3, <3>1, <3>2, <3>3, <4>2
        <5> QED BY <4>2, <5>2, <5>3
      <4> QED BY <4>1, <4>2
    <3> QED BY <3>4, <3>5
  <2>6. \A k \in 1..(n - 1) : Old(k) \in 1..n /\ Old(k) # i
    BY <2>1
  <2>7. \A k, m \in 1..(n - 1) : Old(k) = Old(m) => k = m
    BY <2>1
  <2>8. \A l, m \in 1..n : memQueue[l] = memQueue[m] => l = m
    BY <2>1 DEF QueueOfDistinct
  <2> HIDE DEF Old, n
  <2>9. \A k \in DOMAIN memQueue' : memQueue'[k] # j
    <3> SUFFICES ASSUME NEW k \in DOMAIN memQueue', memQueue'[k] = j  PROVE FALSE
      OBVIOUS
    <3>1. k \in 1..(n - 1)
      BY <2>5
    <3>2. Old(k) \in 1..n /\ Old(k) # i
      BY <2>6, <3>1
    <3>3. memQueue[Old(k)] = memQueue[i]
      BY <1>2, <2>5, <3>1
    <3> QED BY <2>1, <2>8, <3>2, <3>3
  <2>10. \A k \in DOMAIN memQueue' :
          \E l \in DOMAIN memQueue : memQueue'[k] = memQueue[l]
    BY <2>1, <2>5, <2>6
  <2>11. \A k, m \in DOMAIN memQueue' : memQueue'[k] = memQueue'[m] => k = m
    <3> TAKE k, m \in DOMAIN memQueue'
    <3> HAVE memQueue'[k] = memQueue'[m]
    <3>1. k \in 1..(n - 1) /\ m \in 1..(n - 1)
      BY <2>5
    <3>2. memQueue[Old(k)] = memQueue[Old(m)]
      BY <2>5, <3>1
    <3>3. Old(k) \in 1..n /\ Old(m) \in 1..n
      BY <2>6, <3>1
    <3>4. Old(k) = Old(m)
      BY <2>8, <3>2, <3>3
    <3> QED BY <2>7, <3>1, <3>4
  <2> QED BY <2>9, <2>10, <2>11
<1> QED BY <1>1, <1>2 DEF Dequeue

LEMMA SendBuildDispatch ==
  ASSUME TypeInv, DispatchInv, SendBuild
  PROVE  DispatchInv'
<1> DEFINE job == sched.job
<1>1. /\ sched.at = "marked" /\ sched'.at = "idle"
      /\ sentFor' = [sentFor EXCEPT ![sched.run] = job]
      /\ UNCHANGED <<jobState, enqueued>>
  BY DEF SendBuild, jobVars, IdleScheduler
<1>2. /\ \A r \in Run : sentFor[r] # job
      /\ job \in Job
      /\ job \in MemJob => job \in enqueued
      /\ job \in DbJob => jobState[job] \notin Pending
  BY <1>1 DEF TypeInv, ProcessFacts, DispatchInv, PickedNotSent, AssignedBeforeSent
<1>3. \A r \in Run : sentFor'[r] = IF r = sched.run THEN job ELSE sentFor[r]
  BY <1>1 DEF TypeInv, TypeOK, RunTypeOK
<1>4. /\ \A k \in DOMAIN memQueue' : memQueue'[k] # job
      /\ \A k \in DOMAIN memQueue' : \E i \in DOMAIN memQueue : memQueue'[k] = memQueue[i]
      /\ \A k, m \in DOMAIN memQueue' : memQueue'[k] = memQueue'[m] => k = m
  BY DequeueKeeps DEF SendBuild, DispatchInv
<1> HIDE DEF job
<1>5. SentRowsNotPending'
  BY <1>1, <1>2, <1>3 DEF DispatchInv, SentRowsNotPending
<1>6. SentEntriesNotQueued'
  BY <1>1, <1>2, <1>3, <1>4 DEF DispatchInv, SentEntriesNotQueued
<1>7. QueueOfDistinct'
  BY <1>1, <1>4 DEF DispatchInv, QueueOfDistinct
<1>8. PickedNotSent' /\ AssignedBeforeSent'
  BY <1>1 DEF PickedNotSent, AssignedBeforeSent
<1>9. AtMostOnceDispatch'
  BY <1>2, <1>3, JobAssumption DEF DispatchInv, AtMostOnceDispatch
<1> QED BY <1>5, <1>6, <1>7, <1>8, <1>9 DEF DispatchInv

LEMMA ClearQueueDispatch ==
  ASSUME TypeInv, DispatchInv, ClearQueue
  PROVE  DispatchInv'
<1>1. \A j \in DbJob : jobState[j] \notin Pending => jobState'[j] \notin Pending
  BY DEF ClearQueue, Pending
<1> QED BY <1>1, SchedulerForgets DEF ClearQueue, schedVars

LEMMA NextDispatch == TypeInv /\ DispatchInv /\ [Next]_vars => DispatchInv'
<1> SUFFICES ASSUME TypeInv, DispatchInv, [Next]_vars PROVE DispatchInv'
  OBVIOUS
<1>1. CASE CallerStep
  BY <1>1, InsertJobInstanceDispatch, DeleteJobInstanceDispatch,
     ScheduleInMemoryDispatch
  DEF CallerStep
<1>2. CASE SchedulerStep
  <2>1. CASE TriggerAssignment
    BY <2>1, RowsMoveOn DEF TriggerAssignment, jobVars, queueVars
  <2>2. ASSUME NEW a \in Agent, NEW call \in BOOLEAN, SkipRequest(a, call)
        PROVE  DispatchInv'
    BY <2>2, RowsMoveOn DEF SkipRequest, jobVars, queueVars
  <2> QED BY <1>2, <2>1, <2>2, PickJobDispatch, CreateRunDispatch,
          AssignJobInstanceDispatch, MarkAgentBuildingDispatch, SendBuildDispatch,
          ClearQueueDispatch
      DEF SchedulerStep
<1>3. ASSUME NEW a \in Agent, ChannelStep(a) PROVE DispatchInv'
  <2>1. CASE CompleteReportedJob(a)
    BY <2>1, CompletionMovesOn, RowsMoveOn
    DEF CompleteReportedJob, queueVars, schedVars
  <2>2. UNCHANGED <<jobState, memQueue, enqueued, sentFor, sched>>
          \/ CompleteReportedJob(a)
    BY <1>3 DEF ChannelStep, HandlePing, HandleReport, FinishReport,
       ChannelTerminate, MarkLostContact, DropUnmatched, jobVars, queueVars, schedVars
  <2> QED BY <2>1, <2>2, RowsMoveOn
<1>4. ASSUME NEW a \in Agent, AgentStep(a) PROVE DispatchInv'
  <2>1. UNCHANGED <<jobState, memQueue, enqueued, sentFor, sched>>
    BY <1>4 DEF AgentStep, SendPing, StartBuild, FinishBuild, IgnoreCancel,
       Connect, jobVars, queueVars, schedVars
  <2> QED BY <2>1, RowsMoveOn
<1>5. CASE MonitorStep
  <2>1. CASE CompleteCancelledJob
    BY <2>1, CompletionMovesOn, RowsMoveOn
    DEF CompleteCancelledJob, queueVars, schedVars
  <2>2. UNCHANGED <<jobState, memQueue, enqueued, sentFor, sched>>
          \/ CompleteCancelledJob
    BY <1>5 DEF MonitorStep, ScanRuns, CancelRun, ReportCancelled, jobVars,
       queueVars, schedVars
  <2> QED BY <2>1, <2>2, RowsMoveOn
<1>6. CASE FaultStep
  <2>1. ASSUME NEW a \in Agent, CutLink(a) PROVE DispatchInv'
    BY <2>1, RowsMoveOn DEF CutLink, jobVars, queueVars, schedVars
  <2>2. CASE SchedulerCrash
    BY <2>2, SchedulerForgets DEF SchedulerCrash, jobVars, IdleScheduler
  <2>3. CASE ServerRestart
    BY <2>3, SchedulerForgets DEF ServerRestart, jobVars, IdleScheduler
  <2> QED BY <1>6, <2>1, <2>2, <2>3 DEF FaultStep
<1>7. CASE UNCHANGED vars
  BY <1>7, RowsMoveOn DEF vars, jobVars, queueVars, schedVars
<1> QED BY <1>1, <1>2, <1>3, <1>4, <1>5, <1>6, <1>7 DEF Next

(***************************************************************************)
(* No job is sent to agents twice, whatever the number of agents that ask  *)
(* for work at once and wherever crashes and restarts interrupt a dispatch.*)
(***************************************************************************)
THEOREM DispatchedAtMostOnce == Spec => []AtMostOnceDispatch
<1>1. Init => TypeInv /\ DispatchInv
  BY InitType, InitDispatch
<1>2. TypeInv /\ DispatchInv /\ [Next]_vars => (TypeInv /\ DispatchInv)'
  BY NextType, NextDispatch
<1>3. DispatchInv => AtMostOnceDispatch
  BY DEF DispatchInv
<1> QED BY <1>1, <1>2, <1>3, PTL DEF Spec

==============================================================================
