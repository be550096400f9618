------------------------- MODULE JobContractProofs -------------------------
(***************************************************************************)
(* Proofs that JobDispatch keeps the contract, for every number of agents, *)
(* jobs and runs and every bound on faults:                                *)
(*   - DispatchKeepsContract: every step is a step of JobContract;         *)
(*   - AssignedJobsCanEnd: no job is stranded, until the server restarts;  *)
(*   - CompletedJobsStay: and none is reopened, until something crashes;   *)
(*   - QuiescentAgentsAreDone: without faults no report is lost.           *)
(***************************************************************************)
EXTENDS JobDispatchProofs

-----------------------------------------------------------------------------
(* Which runs are known outside the scheduler, and where.                  *)

Dispatching == sched.at \in {"created", "linked", "marked"}

Known(r) == r \in Run /\ runState[r] # "None" /\ ~ (Dispatching /\ sched.run = r)

Sent(r) == r \in Run /\ sentFor[r] # NoJob

SentTo(r, a) == Sent(r) /\ runAgent[r] = a

AgentVerdict == {"Passed", "Failed"}

UpOf(a) ==
  {m \in UpMsg : /\ m.kind = "report" => SentTo(m.run, a)
                 /\ m.state = "Completed" => m.result \in AgentVerdict}

DownOf(a) == {m \in DownMsg : m.kind = "build" => SentTo(m.run, a)}

Reporting(a) == chan[a].at = "complete"

\* A run that anybody speaks of has been broadcast, or the monitor has read it.
RunsKnown ==
  /\ \A r \in Run : Sent(r) => Known(r)
  /\ \A r \in scan : Known(r)
  /\ mon.at # "idle" => Known(mon.run)
  /\ \A a \in Agent :
       /\ uplink[a] \in Seq(UpOf(a)) /\ downlink[a] \in Seq(DownOf(a))
       /\ building[a] # NoRun => SentTo(building[a], a)
       /\ Reporting(a) => SentTo(chan[a].run, a) /\ chan[a].result \in AgentVerdict

\* What the scheduler knows of the run it has created.
RunMatchesDispatch ==
  /\ sched.at # "idle" =>
       /\ sched.call => chan[sched.agent].at = "call"
       /\ Matches(sched.job, sched.agent)
       /\ sched.job \in DbJob => jobState[sched.job] # "None"
  /\ Dispatching =>
       /\ runState[sched.run] = "Assigned" /\ runAgent[sched.run] = sched.agent
       /\ runJob[sched.run] \in {NoJob, sched.job}
       /\ sched.job \in DbJob /\ jobState[sched.job] # "Deleted"
            => runJob[sched.run] = sched.job

LinksSound ==
  \A r \in Run :
    /\ Sent(r) => runJob[r] \in {NoJob, sentFor[r]}
    /\ runJob[r] # NoJob => jobState[runJob[r]] \notin {"None", "Deleted"}

RunInv == RunsKnown /\ RunMatchesDispatch /\ LinksSound

\* Without a crash, a run that is known belongs to a job that is past Scheduled.
NoOrphan ==
  crashes = 0 /\ restarts = 0 =>
    /\ \A r \in Run : Known(r) /\ runJob[r] # NoJob => jobState[runJob[r]] \notin Pending
    /\ sched.at \in {"picked", "created"} /\ sched.job \in DbJob
         => jobState[sched.job] \in {"Scheduled", "Deleted"}

-----------------------------------------------------------------------------
(* Where the verdict of a run is on its way: a build that is not read, a   *)
(* build that is executed, a last report, a channel that has read it.      *)

In(s, M) == \E i \in DOMAIN s : s[i] \in M

Once(s, M) == \A i, k \in DOMAIN s : s[i] \in M /\ s[k] \in M => i = k

Final(r) == {m \in UpMsg : m.kind = "report" /\ m.run = r /\ m.state = "Completed"}

Unread(a, r)    == In(downlink[a], {Build(r)})
Executed(a, r)  == building[a] = r
Reported(a, r)  == In(uplink[a], Final(r))
Received(a, r)  == Reporting(a) /\ chan[a].run = r

OnItsWay(a, r) == Unread(a, r) \/ Executed(a, r) \/ Reported(a, r) \/ Received(a, r)

OneVerdict ==
  \A a \in Agent, r \in Run :
    /\ Once(downlink[a], {Build(r)}) /\ Once(uplink[a], Final(r))
    /\ Unread(a, r) => ~ Executed(a, r) /\ ~ Reported(a, r) /\ ~ Received(a, r)
    /\ Executed(a, r) => ~ Reported(a, r) /\ ~ Received(a, r)
    /\ Reported(a, r) => ~ Received(a, r)

VerdictsOpen ==
  /\ \A a \in Agent, r \in Run : OnItsWay(a, r) /\ runJob[r] # NoJob =>
       jobResult[runJob[r]] \notin AgentVerdict
  /\ \A j \in DbJob : jobResult[j] \in AgentVerdict => \E r \in Run : sentFor[r] = j

VerdictInv == OneVerdict /\ VerdictsOpen

-----------------------------------------------------------------------------
(* Without faults nothing is lost.                                         *)

NoFaults == cuts = 0 /\ crashes = 0 /\ restarts = 0

LinksTracked ==
  /\ \A a \in Agent :
       IF link[a] = "up" THEN tracked[a]
       ELSE ~ tracked[a] /\ uplink[a] = <<>> /\ downlink[a] = <<>> /\ building[a] = NoRun
  /\ \A a \in Agent : ~ closing[a]
  /\ sched.at # "idle" => tracked[sched.agent]

\* A report that is not the last of its run is followed by the last one, or the
\* agent is still executing the build and will send it.
Follows(s, executed) ==
  \A i \in DOMAIN s : s[i].kind = "report" /\ s[i].state # "Completed" =>
    \/ s[i].run = executed
    \/ \E k \in DOMAIN s : k > i /\ s[k] \in Final(s[i].run)

\* An active run will be reported completed, and not by its last report but one.
ReportsFollow ==
  /\ \A r \in Run : Known(r) => Sent(r)
  /\ \A r \in Run, a \in Agent : Known(r) /\ runState[r] \in ActiveStates /\ runAgent[r] = a =>
       Unread(a, r) \/ Executed(a, r) \/ Reported(a, r)
  /\ \A a \in Agent : Follows(uplink[a], building[a])

QuietInv == NoFaults => LinksTracked /\ ReportsFollow

-----------------------------------------------------------------------------
(* Sequences of messages                                                   *)

LEMMA SeqGrows ==
  ASSUME NEW S, NEW T, S \subseteq T, NEW s \in Seq(S)
  PROVE  s \in Seq(T)
<1>1. s \in [1..Len(s) -> T] /\ Len(s) \in Nat
  BY ElementOfSeq, LenProperties
<1> QED BY <1>1, SeqDef

LEMMA TailKeeps ==
  ASSUME NEW S, NEW s \in Seq(S), s # <<>>, NEW M
  PROVE  /\ In(Tail(s), M) => In(s, M)
         /\ Head(s) \in M => In(s, M)
         /\ In(s, M) /\ Head(s) \notin M => In(Tail(s), M)
         /\ Once(s, M) => Once(Tail(s), M)
         /\ Once(s, M) /\ Head(s) \in M => ~ In(Tail(s), M)
<1>1. PICK n \in Nat : Len(s) = n + 1
  BY EmptySeq, LenProperties
<1>2. DOMAIN s = 1..n + 1 /\ Head(s) = s[1]
  BY <1>1, LenProperties
<1>3. DOMAIN Tail(s) = 1..n /\ \A i \in 1..n : Tail(s)[i] = s[i + 1]
  BY <1>1, HeadTailProperties, LenProperties
<1>4. \A i \in 1..n + 1 : i = 1 \/ \E k \in 1..n : i = k + 1
  <2> TAKE i \in 1..n + 1
  <2>1. i = 1 \/ (i - 1 \in 1..n /\ i = (i - 1) + 1)
    OBVIOUS
  <2> QED BY <2>1
<1>5. \A i, k \in 1..n : i + 1 \in 1..n + 1 /\ i + 1 # 1 /\ (i + 1 = k + 1 => i = k)
  OBVIOUS
<1> DEFINE t == Tail(s)
<1>6. \A i \in DOMAIN t : i + 1 \in DOMAIN s /\ t[i] = s[i + 1]
  BY <1>2, <1>3, <1>5
<1>7. 1 \in DOMAIN s
  BY <1>2
<1>8. \A i \in DOMAIN s : i = 1 \/ \E k \in DOMAIN t : i = k + 1
  BY <1>2, <1>3, <1>4
<1>9. \A i, k \in DOMAIN t : i + 1 # 1 /\ (i + 1 = k + 1 => i = k)
  BY <1>3, <1>5
<1> HIDE DEF t
<1>10. In(t, M) => In(s, M)
  BY <1>6 DEF In
<1>11. Head(s) \in M => In(s, M)
  BY <1>2, <1>7 DEF In
<1>12. In(s, M) /\ Head(s) \notin M => In(t, M)
  BY <1>2, <1>6, <1>8 DEF In
<1>13. Once(s, M) => Once(t, M)
  BY <1>6, <1>9 DEF Once
<1>14. Once(s, M) /\ Head(s) \in M => ~ In(t, M)
  BY <1>2, <1>6, <1>7, <1>9 DEF In, Once
<1> QED BY <1>10, <1>11, <1>12, <1>13, <1>14 DEF t

LEMMA AppendKeeps ==
  ASSUME NEW S, NEW s \in Seq(S), NEW e \in S, NEW M
  PROVE  /\ In(Append(s, e), M) <=> In(s, M) \/ e \in M
         /\ Once(s, M) /\ (e \in M => ~ In(s, M)) => Once(Append(s, e), M)
<1>1. PICK n \in Nat : Len(s) = n
  BY LenProperties
<1> DEFINE t == Append(s, e)
<1>2. /\ DOMAIN s = 1..n /\ DOMAIN t = 1..n + 1 /\ t[n + 1] = e
      /\ \A i \in 1..n : t[i] = s[i]
  BY <1>1, AppendProperties, LenProperties
<1>3. n + 1 \in 1..n + 1 /\ \A i \in 1..n + 1 : i \in 1..n \/ i = n + 1
  OBVIOUS
<1>4. 1..n \subseteq 1..n + 1
  OBVIOUS
<1> HIDE DEF t
<1>5. In(t, M) <=> In(s, M) \/ e \in M
  BY <1>2, <1>3, <1>4, Zenon DEF In
<1>6. Once(s, M) /\ (e \in M => ~ In(s, M)) => Once(t, M)
  BY <1>2, <1>3 DEF In, Once
<1> QED BY <1>5, <1>6 DEF t

LEMMA PrefixKeeps ==
  ASSUME NEW S, NEW s \in Seq(S), NEW n \in 0..Len(s), NEW M
  PROVE  /\ SubSeq(s, 1, n) \in Seq(S)
         /\ In(SubSeq(s, 1, n), M) => In(s, M)
         /\ Once(s, M) => Once(SubSeq(s, 1, n), M)
<1> DEFINE t == SubSeq(s, 1, n)
<1>1. Len(s) \in Nat /\ n \in Nat /\ n <= Len(s) /\ DOMAIN s = 1..Len(s)
  BY LenProperties
<1>2. \A i \in 1..n : s[i] \in S
  BY <1>1, ElementOfSeq
<1>3. /\ t \in Seq(S) /\ Len(t) = IF 1 <= n THEN n - 1 + 1 ELSE 0
      /\ \A i \in 1..n - 1 + 1 : t[i] = s[1 + i - 1]
  BY <1>1, <1>2, SubSeqProperties
<1> HIDE DEF t
<1>4. DOMAIN t = 1..n
  <2>1. Len(t) = n
    BY <1>1, <1>3
  <2> QED BY <1>3, <2>1, LenProperties
<1>5. \A i \in DOMAIN t : i \in DOMAIN s /\ t[i] = s[i]
  BY <1>1, <1>3, <1>4
<1>6. In(t, M) => In(s, M)
  BY <1>5 DEF In
<1>7. Once(s, M) => Once(t, M)
  BY <1>5 DEF Once
<1> QED BY <1>3, <1>6, <1>7 DEF t

\* What FinishBuild sends at once.
LEMMA TwoAppended ==
  ASSUME NEW S, NEW s \in Seq(S), NEW e \in S, NEW f \in S
  PROVE  s \o <<e, f>> = Append(Append(s, e), f)
<1>1. Append(s, e) = s \o <<e>> /\ Append(s, e) \in Seq(S)
  BY AppendIsConcat, AppendProperties
<1>2. Append(Append(s, e), f) = Append(s, e) \o <<f>>
  BY <1>1, AppendIsConcat
<1>3. <<e>> \in Seq(S) /\ <<f>> \in Seq(S)
  OBVIOUS
<1>4. (s \o <<e>>) \o <<f>> = s \o (<<e>> \o <<f>>)
  BY <1>3, ConcatAssociative
<1>5. <<e>> \o <<f>> = <<e, f>>
  <2>1. Append(<<e>>, f) = <<e>> \o <<f>>
    BY <1>3, AppendIsConcat
  <2>2. /\ Append(<<e>>, f) \in Seq(S) /\ Len(Append(<<e>>, f)) = 2
        /\ Append(<<e>>, f)[1] = e /\ Append(<<e>>, f)[2] = f
    BY <1>3, AppendProperties
  <2>3. /\ <<e, f>> \in Seq(S) /\ Len(<<e, f>>) = 2
        /\ <<e, f>>[1] = e /\ <<e, f>>[2] = f
    OBVIOUS
  <2>4. \A i \in 1..2 : i = 1 \/ i = 2
    OBVIOUS
  <2>5. Append(<<e>>, f) = <<e, f>>
    BY <2>2, <2>3, <2>4, SeqEqual
  <2> QED BY <2>1, <2>5
<1> QED BY <1>1, <1>2, <1>4, <1>5

-----------------------------------------------------------------------------
(* Who writes what.                                                        *)

LEMMA RunWriters ==
  ASSUME [Next]_vars
  PROVE  /\ \/ UNCHANGED <<runState, runResult>> \/ CreateRun \/ ReportCancelled
            \/ \E a \in Agent : HandleReport(a)
         /\ UNCHANGED runAgent \/ CreateRun
         /\ \/ UNCHANGED runJob \/ CreateRun \/ ClearQueue
            \/ \E j \in DbJob : DeleteJobInstance(j)
         /\ UNCHANGED sentFor \/ SendBuild
<1>1. CASE CallerStep
  BY <1>1 DEF CallerStep, InsertJobInstance, ScheduleInMemory, DeleteJobInstance, runVars
<1>2. CASE SchedulerStep
  BY <1>2 DEF SchedulerStep, TriggerAssignment, SkipRequest, PickJob, CreateRun,
              AssignJobInstance, MarkAgentBuilding, SendBuild, ClearQueue, runVars
<1>3. ASSUME NEW a \in Agent, ChannelStep(a)
      PROVE  /\ UNCHANGED <<runState, runResult>> \/ HandleReport(a)
             /\ UNCHANGED <<runAgent, runJob, sentFor>>
  BY <1>3 DEF ChannelStep, HandlePing, HandleReport, CompleteReportedJob, FinishReport,
              ChannelTerminate, MarkLostContact, DropUnmatched, runVars
<1>4. ASSUME NEW a \in Agent, AgentStep(a)
      PROVE  UNCHANGED <<runState, runResult, runAgent, runJob, sentFor>>
  BY <1>4 DEF AgentStep, SendPing, StartBuild, FinishBuild, IgnoreCancel, Connect, runVars
<1>5. CASE MonitorStep
  BY <1>5 DEF MonitorStep, ScanRuns, CancelRun, ReportCancelled, CompleteCancelledJob, runVars
<1>6. CASE FaultStep
  BY <1>6 DEF FaultStep, CutLink, SchedulerCrash, ServerRestart, runVars
<1>7. CASE UNCHANGED vars
  BY <1>7 DEF vars, runVars
<1> QED BY <1>1, <1>2, <1>3, <1>4, <1>5, <1>6, <1>7 DEF Next

LEMMA JobWriters ==
  ASSUME [Next]_vars
  PROVE  /\ \/ UNCHANGED jobState \/ AssignJobInstance \/ ClearQueue \/ CompleteCancelledJob
            \/ \E j \in DbJob : InsertJobInstance(j) \/ DeleteJobInstance(j)
            \/ \E a \in Agent : CompleteReportedJob(a)
         /\ \/ UNCHANGED jobResult \/ CompleteCancelledJob
            \/ \E a \in Agent : CompleteReportedJob(a)
<1>1. CASE CallerStep
  BY <1>1 DEF CallerStep, InsertJobInstance, ScheduleInMemory, DeleteJobInstance, jobVars
<1>2. CASE SchedulerStep
  BY <1>2 DEF SchedulerStep, TriggerAssignment, SkipRequest, PickJob, CreateRun,
              AssignJobInstance, MarkAgentBuilding, SendBuild, ClearQueue, jobVars
<1>3. ASSUME NEW a \in Agent, ChannelStep(a)
      PROVE  UNCHANGED <<jobState, jobResult>> \/ CompleteReportedJob(a)
  BY <1>3 DEF ChannelStep, HandlePing, HandleReport, FinishReport,
              ChannelTerminate, MarkLostContact, DropUnmatched, jobVars
<1>4. ASSUME NEW a \in Agent, AgentStep(a)
      PROVE  UNCHANGED <<jobState, jobResult>>
  BY <1>4 DEF AgentStep, SendPing, StartBuild, FinishBuild, IgnoreCancel, Connect, jobVars
<1>5. CASE MonitorStep
  BY <1>5 DEF MonitorStep, ScanRuns, CancelRun, ReportCancelled, jobVars
<1>6. CASE FaultStep
  BY <1>6 DEF FaultStep, CutLink, SchedulerCrash, ServerRestart, jobVars
<1>7. CASE UNCHANGED vars
  BY <1>7 DEF vars, jobVars
<1> QED BY <1>1, <1>2, <1>3, <1>4, <1>5, <1>6, <1>7 DEF Next

LEMMA ProcessWriters ==
  ASSUME [Next]_vars
  PROVE  /\ \/ UNCHANGED sched \/ CreateRun \/ AssignJobInstance \/ MarkAgentBuilding
            \/ SendBuild \/ SchedulerCrash \/ ServerRestart
            \/ \E a \in Agent, call \in BOOLEAN : PickJob(a, call)
         /\ UNCHANGED scan \/ ScanRuns \/ ServerRestart \/ \E r \in Run : CancelRun(r)
         /\ \/ UNCHANGED mon \/ ReportCancelled \/ CompleteCancelledJob \/ ServerRestart
            \/ \E r \in Run : CancelRun(r)
         /\ \/ UNCHANGED chan \/ SendBuild \/ SchedulerCrash \/ ServerRestart
            \/ \E a \in Agent : \/ HandlePing(a) \/ HandleReport(a)
                                \/ CompleteReportedJob(a) \/ FinishReport(a)
                                \/ \E call \in BOOLEAN : SkipRequest(a, call)
<1>1. CASE CallerStep
  BY <1>1 DEF CallerStep, InsertJobInstance, ScheduleInMemory, DeleteJobInstance, schedVars,
              monVars
<1>2. CASE SchedulerStep
  <2>1. CASE \E a \in Agent, call \in BOOLEAN : SkipRequest(a, call) \/ PickJob(a, call)
    BY <2>1 DEF SkipRequest, PickJob, schedVars, monVars
  <2>2. CASE TriggerAssignment \/ ClearQueue \/ SendBuild
    BY <2>2 DEF TriggerAssignment, ClearQueue, SendBuild, schedVars, monVars
  <2>3. CASE CreateRun \/ AssignJobInstance \/ MarkAgentBuilding
    BY <2>3 DEF CreateRun, AssignJobInstance, MarkAgentBuilding, monVars
  <2> QED BY <1>2, <2>1, <2>2, <2>3 DEF SchedulerStep
<1>3. ASSUME NEW a \in Agent, ChannelStep(a)
      PROVE  /\ UNCHANGED <<sched, scan, mon>>
             /\ \/ UNCHANGED chan \/ HandlePing(a) \/ HandleReport(a)
                \/ CompleteReportedJob(a) \/ FinishReport(a)
  BY <1>3 DEF ChannelStep, HandlePing, HandleReport, CompleteReportedJob, FinishReport,
              ChannelTerminate, MarkLostContact, DropUnmatched, schedVars, monVars
<1>4. ASSUME NEW a \in Agent, AgentStep(a)
      PROVE  UNCHANGED <<sched, scan, mon, chan>>
  BY <1>4 DEF AgentStep, SendPing, StartBuild, FinishBuild, IgnoreCancel, Connect, schedVars,
              monVars
<1>5. CASE MonitorStep
  BY <1>5 DEF MonitorStep, ScanRuns, CancelRun, ReportCancelled, CompleteCancelledJob, schedVars,
              monVars
<1>6. CASE FaultStep
  BY <1>6 DEF FaultStep, CutLink, SchedulerCrash, schedVars, monVars
<1>7. CASE UNCHANGED vars
  BY <1>7 DEF vars, schedVars, monVars
<1> QED BY <1>1, <1>2, <1>3, <1>4, <1>5, <1>6, <1>7 DEF Next

LEMMA WireWriters ==
  ASSUME [Next]_vars
  PROVE  /\ \/ UNCHANGED uplink \/ ServerRestart
            \/ \E a \in Agent : \/ HandlePing(a) \/ HandleReport(a) \/ DropUnmatched(a)
                                \/ SendPing(a) \/ StartBuild(a) \/ FinishBuild(a) \/ CutLink(a)
         /\ \/ UNCHANGED downlink \/ SendBuild \/ ServerRestart
            \/ \E r \in Run : CancelRun(r)
            \/ \E a \in Agent : StartBuild(a) \/ IgnoreCancel(a) \/ CutLink(a)
         /\ UNCHANGED building \/ \E a \in Agent : StartBuild(a) \/ FinishBuild(a)
<1>1. CASE CallerStep
  BY <1>1 DEF CallerStep, InsertJobInstance, ScheduleInMemory, DeleteJobInstance, presence, wireVars
<1>2. CASE SchedulerStep
  BY <1>2 DEF SchedulerStep, TriggerAssignment, SkipRequest, PickJob, CreateRun,
              AssignJobInstance, MarkAgentBuilding, SendBuild, ClearQueue, presence, wireVars
<1>3. ASSUME NEW a \in Agent, ChannelStep(a)
      PROVE  /\ UNCHANGED <<downlink, building>>
             /\ UNCHANGED uplink \/ HandlePing(a) \/ HandleReport(a) \/ DropUnmatched(a)
  BY <1>3 DEF ChannelStep, HandlePing, HandleReport, CompleteReportedJob, FinishReport,
              ChannelTerminate, MarkLostContact, DropUnmatched, presence, wireVars
<1>4. ASSUME NEW a \in Agent, AgentStep(a)
      PROVE  /\ UNCHANGED uplink \/ SendPing(a) \/ StartBuild(a) \/ FinishBuild(a)
             /\ UNCHANGED downlink \/ StartBuild(a) \/ IgnoreCancel(a)
             /\ UNCHANGED building \/ StartBuild(a) \/ FinishBuild(a)
  BY <1>4 DEF AgentStep, SendPing, FinishBuild, IgnoreCancel, Connect
<1>5. CASE MonitorStep
  BY <1>5 DEF MonitorStep, ScanRuns, CancelRun, ReportCancelled, CompleteCancelledJob, presence, wireVars
<1>6. CASE FaultStep
  BY <1>6 DEF FaultStep, CutLink, SchedulerCrash, ServerRestart, presence, wireVars
<1>7. CASE UNCHANGED vars
  BY <1>7 DEF vars, presence, wireVars
<1> QED BY <1>1, <1>2, <1>3, <1>4, <1>5, <1>6, <1>7 DEF Next


LEMMA LinkWriters ==
  ASSUME [Next]_vars
  PROVE  /\ \/ UNCHANGED link \/ ServerRestart
            \/ \E a \in Agent : CutLink(a) \/ Connect(a)
         /\ \/ UNCHANGED tracked \/ SchedulerCrash \/ ServerRestart
            \/ \E a \in Agent : ChannelTerminate(a) \/ Connect(a)
         /\ \/ UNCHANGED closing \/ SchedulerCrash \/ ServerRestart
            \/ \E a \in Agent : ChannelTerminate(a) \/ MarkLostContact(a)
<1>1. CASE CallerStep
  BY <1>1 DEF CallerStep, InsertJobInstance, ScheduleInMemory, DeleteJobInstance, presence, wireVars
<1>2. CASE SchedulerStep
  BY <1>2 DEF SchedulerStep, TriggerAssignment, SkipRequest, PickJob, CreateRun,
              AssignJobInstance, MarkAgentBuilding, SendBuild, ClearQueue, presence, wireVars
<1>3. ASSUME NEW a \in Agent, ChannelStep(a)
      PROVE  /\ UNCHANGED link /\ (UNCHANGED tracked \/ ChannelTerminate(a))
             /\ UNCHANGED closing \/ ChannelTerminate(a) \/ MarkLostContact(a)
  BY <1>3 DEF ChannelStep, HandlePing, HandleReport, CompleteReportedJob, FinishReport,
              ChannelTerminate, MarkLostContact, DropUnmatched, presence, wireVars
<1>4. ASSUME NEW a \in Agent, AgentStep(a)
      PROVE  /\ UNCHANGED <<link, tracked>> \/ Connect(a)
             /\ UNCHANGED closing
  BY <1>4 DEF AgentStep, SendPing, StartBuild, FinishBuild, IgnoreCancel, Connect, presence
<1>5. CASE MonitorStep
  BY <1>5 DEF MonitorStep, ScanRuns, CancelRun, ReportCancelled, CompleteCancelledJob, presence, wireVars
<1>6. CASE FaultStep
  BY <1>6 DEF FaultStep, CutLink, SchedulerCrash, ServerRestart, presence, wireVars
<1>7. CASE UNCHANGED vars
  BY <1>7 DEF vars, presence, wireVars
<1> QED BY <1>1, <1>2, <1>3, <1>4, <1>5, <1>6, <1>7 DEF Next

\* The counters of faults only grow, each with its own fault.
LEMMA FaultsCounted ==
  ASSUME [Next]_vars
  PROVE  /\ UNCHANGED cuts \/ cuts' = cuts + 1
         /\ UNCHANGED crashes \/ crashes' = crashes + 1
         /\ UNCHANGED restarts \/ restarts' = restarts + 1
<1>1. CASE CallerStep
  BY <1>1 DEF CallerStep, InsertJobInstance, ScheduleInMemory, DeleteJobInstance, faultVars
<1>2. CASE SchedulerStep
  BY <1>2 DEF SchedulerStep, TriggerAssignment, SkipRequest, PickJob, CreateRun,
              AssignJobInstance, MarkAgentBuilding, SendBuild, ClearQueue, faultVars
<1>3. ASSUME NEW a \in Agent, ChannelStep(a)
      PROVE  UNCHANGED <<cuts, crashes, restarts>>
  BY <1>3 DEF ChannelStep, HandlePing, HandleReport, CompleteReportedJob, FinishReport,
              ChannelTerminate, MarkLostContact, DropUnmatched, faultVars
<1>4. ASSUME NEW a \in Agent, AgentStep(a)
      PROVE  UNCHANGED <<cuts, crashes, restarts>>
  BY <1>4 DEF AgentStep, SendPing, StartBuild, FinishBuild, IgnoreCancel, Connect, faultVars
<1>5. CASE MonitorStep
  BY <1>5 DEF MonitorStep, ScanRuns, CancelRun, ReportCancelled, CompleteCancelledJob, faultVars
<1>6. CASE FaultStep
  BY <1>6 DEF FaultStep, CutLink, SchedulerCrash, ServerRestart
<1>7. CASE UNCHANGED vars
  BY <1>7 DEF vars, faultVars
<1> QED BY <1>1, <1>2, <1>3, <1>4, <1>5, <1>6, <1>7 DEF Next

\* What was never counted did not happen now either.
LEMMA NoFaultYet ==
  ASSUME TypeInv, [Next]_vars
  PROVE  /\ cuts' = 0 => cuts = 0 /\ \A a \in Agent : ~ CutLink(a)
         /\ crashes' = 0 => crashes = 0 /\ ~ SchedulerCrash
         /\ restarts' = 0 => restarts = 0 /\ ~ ServerRestart
<1>1. cuts \in Nat /\ crashes \in Nat /\ restarts \in Nat
  BY BoundAssumption DEF TypeInv, TypeOK, ProcessTypeOK
<1>2. \A n \in Nat : n + 1 # 0
  OBVIOUS
<1> QED BY <1>1, <1>2, FaultsCounted DEF CutLink, SchedulerCrash, ServerRestart

\* What one step can do to the messages and the handler of one agent.
UplinkKept(a)    == uplink'[a] = uplink[a]
UplinkRead(a)    ==
  /\ uplink[a] # <<>> /\ uplink'[a] = Tail(uplink[a])
  /\ HandlePing(a) \/ HandleReport(a) \/ DropUnmatched(a)
UplinkCut(a)     ==
  /\ CutLink(a)
  /\ \E n \in 0..Len(uplink[a]) : uplink'[a] = SubSeq(uplink[a], 1, n)
UplinkDropped(a) == ServerRestart /\ uplink'[a] = <<>>
PingSent(a)      == SendPing(a) /\ uplink'[a] = Append(uplink[a], Ping)
StartReported(a) ==
  /\ StartBuild(a)
  /\ uplink'[a] = Append(uplink[a], Report(Head(downlink[a]).run, "Building", "none"))
EndReported(a)   ==
  /\ FinishBuild(a)
  /\ \E result \in AgentVerdict :
       uplink'[a] = Append(Append(uplink[a], Report(building[a], "Completing", result)),
                           Report(building[a], "Completed", result))

LEMMA UplinkStep ==
  ASSUME TypeInv, [Next]_vars, NEW a \in Agent
  PROVE  \/ UplinkKept(a) \/ UplinkRead(a) \/ UplinkCut(a) \/ UplinkDropped(a)
         \/ PingSent(a) \/ StartReported(a) \/ EndReported(a)
<1> USE DEF UplinkKept
<1>1. uplink \in [Agent -> Seq(UpMsg)] /\ downlink \in [Agent -> Seq(DownMsg)]
  BY DEF TypeInv, TypeOK, AgentTypeOK
<1>2. CASE UNCHANGED uplink
  BY <1>2
<1>3. CASE ServerRestart
  BY <1>3 DEF ServerRestart, UplinkDropped
<1>4. ASSUME NEW b \in Agent, HandlePing(b) \/ HandleReport(b) \/ DropUnmatched(b)
      PROVE  UplinkKept(a) \/ UplinkRead(a)
  <2>1. uplink' = [uplink EXCEPT ![b] = Tail(@)] /\ uplink[b] # <<>>
    BY <1>4 DEF HandlePing, HandleReport, DropUnmatched
  <2>2. CASE a = b
    BY <1>1, <1>4, <2>1, <2>2 DEF UplinkRead
  <2>3. CASE a # b
    BY <1>1, <2>1, <2>3
  <2> QED BY <2>2, <2>3
<1>5. ASSUME NEW b \in Agent, CutLink(b)
      PROVE  UplinkKept(a) \/ UplinkCut(a)
  <2>1. PICK n \in 0..Len(uplink[b]) : uplink' = [uplink EXCEPT ![b] = SubSeq(@, 1, n)]
    BY <1>5 DEF CutLink
  <2>2. CASE a = b
    BY <1>1, <1>5, <2>1, <2>2 DEF UplinkCut
  <2>3. CASE a # b
    BY <1>1, <2>1, <2>3
  <2> QED BY <2>2, <2>3
<1>6. ASSUME NEW b \in Agent, SendPing(b)
      PROVE  UplinkKept(a) \/ PingSent(a)
  <2>1. uplink' = [uplink EXCEPT ![b] = @ \o <<Ping>>]
    BY <1>6 DEF SendPing, Transmit
  <2>2. uplink[b] \o <<Ping>> = Append(uplink[b], Ping)
    BY <1>1, MessageTypes, AppendIsConcat
  <2>3. CASE a = b
    BY <1>1, <1>6, <2>1, <2>2, <2>3 DEF PingSent
  <2>4. CASE a # b
    BY <1>1, <2>1, <2>4
  <2> QED BY <2>3, <2>4
<1>7. ASSUME NEW b \in Agent, StartBuild(b)
      PROVE  UplinkKept(a) \/ StartReported(a)
  <2> DEFINE msg == Report(Head(downlink[b]).run, "Building", "none")
  <2>1. Head(downlink[b]).run \in Run
    BY <1>1, <1>7, SeqTypes DEF StartBuild, DownMsg
  <2>2. msg \in UpMsg
    BY <2>1, MessageTypes DEF Verdict
  <2>3. UNCHANGED uplink \/ uplink' = [uplink EXCEPT ![b] = @ \o <<msg>>]
    BY <1>7 DEF StartBuild, Transmit
  <2>4. uplink[b] \o <<msg>> = Append(uplink[b], msg)
    BY <1>1, <2>2, AppendIsConcat
  <2> HIDE DEF msg
  <2>5. CASE a = b
    BY <1>1, <1>7, <2>3, <2>4, <2>5 DEF StartReported, msg
  <2>6. CASE a # b
    BY <1>1, <2>3, <2>6
  <2> QED BY <2>5, <2>6
<1>8. ASSUME NEW b \in Agent, FinishBuild(b)
      PROVE  UplinkKept(a) \/ EndReported(a)
  <2>1. PICK result \in AgentVerdict :
          Transmit(b, <<Report(building[b], "Completing", result),
                        Report(building[b], "Completed", result)>>)
    BY <1>8 DEF FinishBuild, AgentVerdict
  <2> DEFINE m == Report(building[b], "Completing", result)
             f == Report(building[b], "Completed", result)
  <2>2. m \in UpMsg /\ f \in UpMsg
    <3>1. building[b] \in Run
      BY <1>8 DEF FinishBuild, InLoop, TypeInv, TypeOK, AgentTypeOK
    <3> QED BY <3>1, MessageTypes DEF AgentVerdict, Verdict
  <2>3. UNCHANGED uplink \/ uplink' = [uplink EXCEPT ![b] = @ \o <<m, f>>]
    BY <2>1 DEF Transmit
  <2>4. uplink[b] \o <<m, f>> = Append(Append(uplink[b], m), f)
    BY <1>1, <2>2, TwoAppended
  <2> HIDE DEF m, f
  <2>5. CASE a = b
    BY <1>1, <1>8, <2>3, <2>4, <2>5 DEF EndReported, m, f
  <2>6. CASE a # b
    BY <1>1, <2>3, <2>6
  <2> QED BY <2>5, <2>6
<1> HIDE DEF UplinkKept
<1> QED BY <1>2, <1>3, <1>4, <1>5, <1>6, <1>7, <1>8, WireWriters, Zenon DEF UplinkKept

DownlinkKept(a)    == downlink'[a] = downlink[a]
DownlinkRead(a)    ==
  /\ downlink[a] # <<>> /\ downlink'[a] = Tail(downlink[a])
  /\ StartBuild(a) \/ IgnoreCancel(a)
DownlinkCut(a)     ==
  /\ CutLink(a)
  /\ \E n \in 0..Len(downlink[a]) : downlink'[a] = SubSeq(downlink[a], 1, n)
DownlinkDropped(a) == ServerRestart /\ downlink'[a] = <<>>
BuildSent(a)       ==
  /\ SendBuild /\ sched.agent = a /\ tracked[a] /\ link[a] = "up"
  /\ downlink'[a] = Append(downlink[a], Build(sched.run))
CancelSent(a)      ==
  /\ tracked[a] /\ link[a] = "up"
  /\ \E r \in Run : CancelRun(r) /\ downlink'[a] = Append(downlink[a], Cancel(r))

LEMMA DownlinkStep ==
  ASSUME TypeInv, [Next]_vars, NEW a \in Agent
  PROVE  \/ DownlinkKept(a) \/ DownlinkRead(a) \/ DownlinkCut(a) \/ DownlinkDropped(a)
         \/ BuildSent(a) \/ CancelSent(a)
<1>1. downlink \in [Agent -> Seq(DownMsg)]
  BY DEF TypeInv, TypeOK, AgentTypeOK
<1>2. CASE UNCHANGED downlink
  BY <1>2 DEF DownlinkKept
<1>3. CASE ServerRestart
  BY <1>3 DEF ServerRestart, DownlinkDropped
<1>4. ASSUME NEW b \in Agent, StartBuild(b) \/ IgnoreCancel(b)
      PROVE  DownlinkKept(a) \/ DownlinkRead(a)
  <2>1. downlink' = [downlink EXCEPT ![b] = Tail(@)] /\ downlink[b] # <<>>
    BY <1>4 DEF StartBuild, IgnoreCancel
  <2>2. CASE a = b
    BY <1>1, <1>4, <2>1, <2>2 DEF DownlinkRead
  <2>3. CASE a # b
    BY <1>1, <2>1, <2>3 DEF DownlinkKept
  <2> QED BY <2>2, <2>3
<1>5. ASSUME NEW b \in Agent, CutLink(b)
      PROVE  DownlinkKept(a) \/ DownlinkCut(a)
  <2>1. PICK n \in 0..Len(downlink[b]) :
          downlink' = [downlink EXCEPT ![b] = SubSeq(@, 1, n)]
    BY <1>5 DEF CutLink
  <2>2. CASE a = b
    BY <1>1, <1>5, <2>1, <2>2 DEF DownlinkCut
  <2>3. CASE a # b
    BY <1>1, <2>1, <2>3 DEF DownlinkKept
  <2> QED BY <2>2, <2>3
<1>6. CASE SendBuild
  <2>1. \/ UNCHANGED downlink
        \/ /\ tracked[sched.agent] /\ link[sched.agent] = "up"
           /\ downlink' = [downlink EXCEPT ![sched.agent] = Append(@, Build(sched.run))]
    BY <1>6 DEF SendBuild, Deliver
  <2>2. CASE a = sched.agent
    BY <1>1, <1>6, <2>1, <2>2 DEF BuildSent, DownlinkKept
  <2>3. CASE a # sched.agent
    BY <1>1, <2>1, <2>3 DEF DownlinkKept
  <2> QED BY <2>2, <2>3
<1>7. ASSUME NEW r \in Run, CancelRun(r)
      PROVE  DownlinkKept(a) \/ CancelSent(a)
  <2>1. \/ UNCHANGED downlink
        \/ /\ tracked[runAgent[r]] /\ link[runAgent[r]] = "up"
           /\ downlink' = [downlink EXCEPT ![runAgent[r]] = Append(@, Cancel(r))]
    BY <1>7 DEF CancelRun, Deliver
  <2>2. CASE a = runAgent[r]
    BY <1>1, <1>7, <2>1, <2>2 DEF CancelSent, DownlinkKept
  <2>3. CASE a # runAgent[r]
    BY <1>1, <2>1, <2>3 DEF DownlinkKept
  <2> QED BY <2>2, <2>3
<1> QED BY <1>2, <1>3, <1>4, <1>5, <1>6, <1>7, WireWriters, Zenon

\* The build that is executed.
LEMMA BuildingStep ==
  ASSUME TypeInv, [Next]_vars, NEW a \in Agent
  PROVE  \/ building'[a] = building[a]
         \/ StartBuild(a) /\ building[a] = NoRun /\ building'[a] = Head(downlink[a]).run
         \/ FinishBuild(a) /\ building'[a] = NoRun
<1>1. building \in [Agent -> Run \cup {NoRun}]
  BY DEF TypeInv, TypeOK, AgentTypeOK
<1>2. CASE UNCHANGED building
  BY <1>2
<1>3. ASSUME NEW b \in Agent, StartBuild(b)
      PROVE  \/ building'[a] = building[a]
             \/ StartBuild(a) /\ building[a] = NoRun /\ building'[a] = Head(downlink[a]).run
  <2>1. building' = [building EXCEPT ![b] = Head(downlink[b]).run] /\ building[b] = NoRun
    BY <1>3 DEF StartBuild, InLoop
  <2>2. CASE a = b
    BY <1>1, <1>3, <2>1, <2>2
  <2>3. CASE a # b
    BY <1>1, <2>1, <2>3
  <2> QED BY <2>2, <2>3
<1>4. ASSUME NEW b \in Agent, FinishBuild(b)
      PROVE  \/ building'[a] = building[a]
             \/ FinishBuild(a) /\ building'[a] = NoRun
  <2>1. building' = [building EXCEPT ![b] = NoRun]
    BY <1>4 DEF FinishBuild
  <2>2. CASE a = b
    BY <1>1, <1>4, <2>1, <2>2
  <2>3. CASE a # b
    BY <1>1, <2>1, <2>3
  <2> QED BY <2>2, <2>3
<1> QED BY <1>2, <1>3, <1>4, WireWriters, Zenon

\* The handler of the channel.
ChanReads(a) ==
  LET msg == Head(uplink[a]) IN
  /\ HandleReport(a) /\ uplink[a] # <<>> /\ uplink'[a] = Tail(uplink[a])
  /\ chan[a].at = "idle" /\ chan'[a].at \in {"complete", "runtime"}
  /\ chan'[a].run = msg.run /\ chan'[a].result = msg.result
  /\ chan'[a].at = "complete" <=> CompletesJob(msg.run, msg.state, msg.result)

LEMMA ChanStep ==
  ASSUME TypeInv, [Next]_vars, NEW a \in Agent
  PROVE  \/ chan'[a] = chan[a]
         \/ ChanReads(a)
         \/ HandlePing(a) /\ chan[a].at = "idle" /\ chan'[a].at = "call"
         \/ CompleteReportedJob(a) /\ chan[a].at = "complete" /\ chan'[a].at = "runtime"
         \/ FinishReport(a) /\ chan[a].at = "runtime" /\ chan'[a].at = "idle"
         \/ SendBuild /\ sched.call /\ sched.agent = a /\ chan'[a].at = "idle"
         \/ SchedulerCrash /\ chan[a].at = "call" /\ chan'[a].at = "idle"
         \/ ServerRestart /\ chan'[a].at = "idle"
         \/ sched.at = "idle" /\ chan[a].at = "call" /\ chan'[a].at = "idle"
<1> DEFINE Chan == [at: {"idle", "call", "complete", "runtime"},
                    run: Run \cup {NoRun}, result: Verdict \cup {"none"}]
<1>1. chan \in [Agent -> Chan]
  BY DEF TypeInv, TypeOK, ProcessTypeOK
<1>2. IdleChannel.at = "idle" /\ [IdleChannel EXCEPT !.at = "call"].at = "call"
  BY DEF IdleChannel
<1> DEFINE call == [IdleChannel EXCEPT !.at = "call"]
<1>3. CASE SendBuild
  <2>1. chan' = IF sched.call THEN [chan EXCEPT ![sched.agent] = IdleChannel] ELSE chan
    BY <1>3 DEF SendBuild, Reply
  <2> QED BY <1>1, <1>2, <1>3, <2>1 DEF TypeInv, TypeOK, ProcessTypeOK
<1>4. CASE SchedulerCrash
  BY <1>1, <1>2, <1>4 DEF SchedulerCrash
<1>5. CASE ServerRestart
  BY <1>2, <1>5 DEF ServerRestart
<1>6. ASSUME NEW b \in Agent, HandlePing(b)
      PROVE  \/ chan'[a] = chan[a]
             \/ HandlePing(a) /\ chan[a].at = "idle" /\ chan'[a].at = "call"
  <2>1. chan[b].at = "idle" /\ chan' = [chan EXCEPT ![b] = call]
    BY <1>6 DEF HandlePing
  <2>2. call.at = "call"
    BY <1>2
  <2> HIDE DEF call, Chan
  <2>3. CASE a = b
    BY <1>1, <1>6, <2>1, <2>2, <2>3
  <2>4. CASE a # b
    BY <1>1, <2>1, <2>4
  <2> QED BY <2>3, <2>4
<1>7. ASSUME NEW b \in Agent, HandleReport(b)
      PROVE  chan'[a] = chan[a] \/ ChanReads(a)
  <2> DEFINE msg == Head(uplink[b])
             new == [at |-> IF CompletesJob(msg.run, msg.state, msg.result)
                            THEN "complete" ELSE "runtime",
                     run |-> msg.run, result |-> msg.result]
  <2>1. /\ chan[b].at = "idle" /\ uplink[b] # <<>>
        /\ chan' = [chan EXCEPT ![b] = new] /\ uplink' = [uplink EXCEPT ![b] = Tail(@)]
    BY <1>7 DEF HandleReport
  <2>2. /\ new.at \in {"complete", "runtime"} /\ new.run = msg.run /\ new.result = msg.result
        /\ new.at = "complete" <=> CompletesJob(msg.run, msg.state, msg.result)
    OBVIOUS
  <2> HIDE DEF new, Chan
  <2>3. uplink \in [Agent -> Seq(UpMsg)]
    BY DEF TypeInv, TypeOK, AgentTypeOK
  <2>4. CASE a = b
    <3>1. chan'[a] = new /\ uplink'[a] = Tail(uplink[a])
      BY <1>1, <2>1, <2>3, <2>4
    <3> QED BY <1>7, <2>1, <2>2, <2>4, <3>1, Zenon DEF ChanReads, msg
  <2>5. CASE a # b
    BY <1>1, <2>1, <2>5
  <2> QED BY <2>4, <2>5
<1>8. ASSUME NEW b \in Agent, CompleteReportedJob(b)
      PROVE  \/ chan'[a] = chan[a]
             \/ CompleteReportedJob(a) /\ chan[a].at = "complete" /\ chan'[a].at = "runtime"
  BY <1>1, <1>8 DEF CompleteReportedJob
<1>9. ASSUME NEW b \in Agent, FinishReport(b)
      PROVE  \/ chan'[a] = chan[a]
             \/ FinishReport(a) /\ chan[a].at = "runtime" /\ chan'[a].at = "idle"
  BY <1>1, <1>2, <1>9 DEF FinishReport
<1>10. ASSUME NEW b \in Agent, NEW c \in BOOLEAN, SkipRequest(b, c)
       PROVE  \/ chan'[a] = chan[a]
              \/ sched.at = "idle" /\ chan[a].at = "call" /\ chan'[a].at = "idle"
  BY <1>1, <1>2, <1>10 DEF SkipRequest, Reply, Requested
<1>11. CASE UNCHANGED chan
  BY <1>11
<1> QED BY <1>3, <1>4, <1>5, <1>6, <1>7, <1>8, <1>9, <1>10, <1>11, ProcessWriters, Zenon

-----------------------------------------------------------------------------
(* What is known stays known.  Between the first write of a dispatch and   *)
(* its broadcast only the scheduler speaks of the run.                     *)

LEMMA KnownStays ==
  ASSUME TypeInv, [Next]_vars, NEW r, Known(r)
  PROVE  Known(r)'
<1>1. r \in Run /\ runState[r] # "None" /\ ~ (Dispatching /\ sched.run = r)
  BY DEF Known
<1>2. runState'[r] # "None"
  <2>1. runState \in [Run -> {"None", "Assigned", "Building", "Completing", "Completed"}]
    BY DEF TypeInv, TypeOK, RunTypeOK
  <2>2. CASE CreateRun
    BY <1>1, <2>1, <2>2 DEF CreateRun
  <2>3. CASE ReportCancelled
    BY <1>1, <2>1, <2>3 DEF ReportCancelled, UpdateRun
  <2>4. ASSUME NEW a \in Agent, HandleReport(a)
        PROVE  runState'[r] # "None"
    <3> DEFINE msg == Head(uplink[a])
    <3>1. msg \in UpMsg /\ msg.kind = "report"
      BY <2>4, SeqTypes DEF HandleReport, TypeInv, TypeOK, AgentTypeOK
    <3>2. msg.state # "None"
      BY <3>1, ReceivedUp
    <3>3. runState' = [runState EXCEPT ![msg.run] = msg.state]
      BY <2>4 DEF HandleReport, UpdateRun
    <3> QED BY <1>1, <2>1, <3>2, <3>3
  <2> QED BY <1>1, <2>2, <2>3, <2>4, RunWriters
<1>3. ~ (Dispatching' /\ sched'.run = r)
  <2>1. CASE UNCHANGED sched
    BY <1>1, <2>1 DEF Dispatching
  <2>2. CASE CreateRun
    <3>1. PICK s \in Run : runState[s] = "None"
                             /\ sched' = [sched EXCEPT !.at = "created", !.run = s]
      BY <2>2 DEF CreateRun
    <3> QED BY <1>1, <3>1 DEF TypeInv, TypeOK, ProcessTypeOK
  <2>3. CASE AssignJobInstance \/ MarkAgentBuilding
    BY <1>1, <2>3 DEF AssignJobInstance, MarkAgentBuilding, Dispatching, TypeInv, TypeOK,
                      ProcessTypeOK
  <2>4. CASE SendBuild \/ SchedulerCrash \/ ServerRestart
    BY <2>4 DEF SendBuild, SchedulerCrash, ServerRestart, IdleScheduler, Dispatching
  <2>5. ASSUME NEW a \in Agent, NEW call \in BOOLEAN, PickJob(a, call)
        PROVE  ~ Dispatching'
    BY <2>5 DEF PickJob, Dispatching
  <2> QED BY <2>1, <2>2, <2>3, <2>4, <2>5, ProcessWriters
<1> QED BY <1>1, <1>2, <1>3 DEF Known

LEMMA SentStays ==
  ASSUME TypeInv, RunsKnown, [Next]_vars, NEW r, NEW a
  PROVE  Sent(r) => Sent(r)' /\ runAgent'[r] = runAgent[r]
<1> SUFFICES ASSUME Sent(r) PROVE Sent(r)' /\ runAgent'[r] = runAgent[r]
  OBVIOUS
<1>1. r \in Run /\ sentFor[r] # NoJob /\ runState[r] # "None"
  BY DEF Sent, RunsKnown, Known
<1>2. sentFor'[r] # NoJob
  <2>1. CASE UNCHANGED sentFor
    BY <1>1, <2>1
  <2>2. CASE SendBuild
    BY <1>1, <2>2, JobAssumption DEF SendBuild, TypeInv, TypeOK, RunTypeOK, ProcessFacts
  <2> QED BY <2>1, <2>2, RunWriters
<1>3. runAgent'[r] = runAgent[r]
  <2>1. CASE UNCHANGED runAgent
    BY <2>1
  <2>2. CASE CreateRun
    BY <1>1, <2>2 DEF CreateRun, TypeInv, TypeOK, RunTypeOK
  <2> QED BY <2>1, <2>2, RunWriters
<1> QED BY <1>1, <1>2, <1>3 DEF Sent

LEMMA WiresGrow ==
  ASSUME TypeInv, RunsKnown, [Next]_vars, NEW a \in Agent
  PROVE  /\ \A r : SentTo(r, a) => SentTo(r, a)'
         /\ UpOf(a) \subseteq UpOf(a)' /\ DownOf(a) \subseteq DownOf(a)'
<1>1. ASSUME NEW r, SentTo(r, a)
      PROVE  SentTo(r, a)'
  BY <1>1, SentStays DEF SentTo
<1>2. UpOf(a) \subseteq UpOf(a)'
  BY <1>1 DEF UpOf
<1>3. DownOf(a) \subseteq DownOf(a)'
  BY <1>1 DEF DownOf
<1> QED BY <1>1, <1>2, <1>3

LEMMA SentAreKnown ==
  ASSUME TypeInv, RunInv, [Next]_vars, NEW r \in Run, Sent(r)'
  PROVE  Known(r)'
<1>1. CASE Sent(r)
  BY <1>1, KnownStays DEF RunInv, RunsKnown
<1>2. CASE ~ Sent(r)
  <2>1. SendBuild
    BY <1>2, RunWriters DEF Sent
  <2>2. r = sched.run /\ sched.at = "marked"
    BY <1>2, <2>1 DEF SendBuild, TypeInv, TypeOK, RunTypeOK, Sent
  <2>3. runState'[r] = "Assigned"
    BY <2>1, <2>2 DEF RunInv, RunMatchesDispatch, Dispatching, SendBuild, runVars
  <2>4. ~ Dispatching'
    BY <2>1 DEF SendBuild, IdleScheduler, Dispatching
  <2> QED BY <2>3, <2>4 DEF Known
<1> QED BY <1>1, <1>2

LEMMA MonitorKnows ==
  ASSUME TypeInv, RunInv, [Next]_vars
  PROVE  (\A r \in scan : Known(r))' /\ (mon.at # "idle" => Known(mon.run))'
<1>1. \A r \in scan : Known(r)
  BY DEF RunInv, RunsKnown
<1>2. ASSUME NEW r \in scan'
      PROVE  Known(r)'
  <2>1. CASE ScanRuns
    <3>1. r \in QuietRuns
      BY <2>1 DEF ScanRuns
    <3>2. Known(r)
      BY <3>1 DEF QuietRuns, ActiveStates, Known
    <3> QED BY <3>2, KnownStays
  <2>2. CASE r \in scan
    BY <1>1, <2>2, KnownStays
  <2>3. CASE ServerRestart
    BY <2>3 DEF ServerRestart
  <2>4. ASSUME NEW s \in Run, CancelRun(s)
        PROVE  r \in scan
    BY <2>4 DEF CancelRun
  <2> QED BY <2>1, <2>2, <2>3, <2>4, ProcessWriters
<1>3. ASSUME NEW r, mon'.at # "idle", r = mon'.run
      PROVE  Known(r)'
  <2>1. CASE UNCHANGED mon
    BY <1>3, <2>1, KnownStays DEF RunInv, RunsKnown
  <2>2. CASE ReportCancelled
    <3>1. mon.at = "report" /\ r = mon.run
      BY <1>3, <2>2 DEF ReportCancelled, IdleMonitor, TypeInv, TypeOK, ProcessTypeOK
    <3> QED BY <3>1, KnownStays DEF RunInv, RunsKnown
  <2>3. CASE CompleteCancelledJob \/ ServerRestart
    BY <1>3, <2>3 DEF CompleteCancelledJob, ServerRestart, IdleMonitor
  <2>4. ASSUME NEW s \in Run, CancelRun(s)
        PROVE  Known(r)'
    <3>1. r = s /\ s \in scan
      BY <1>3, <2>4 DEF CancelRun
    <3> QED BY <1>1, <3>1, KnownStays
  <2> QED BY <2>1, <2>2, <2>3, <2>4, ProcessWriters
<1> QED BY <1>2, <1>3

LEMMA WiresKnow ==
  ASSUME TypeInv, RunInv, [Next]_vars, NEW a \in Agent
  PROVE  uplink'[a] \in Seq(UpOf(a)') /\ downlink'[a] \in Seq(DownOf(a)')
<1>1. /\ uplink[a] \in Seq(UpOf(a)) /\ downlink[a] \in Seq(DownOf(a))
      /\ building[a] # NoRun => SentTo(building[a], a)
  BY DEF RunInv, RunsKnown
<1>2. uplink[a] \in Seq(UpOf(a)') /\ downlink[a] \in Seq(DownOf(a)')
  BY <1>1, WiresGrow, SeqGrows DEF RunInv
<1> DEFINE up == UpOf(a)'
           down == DownOf(a)'
<1>3. /\ \A s \in Seq(up) : /\ s # <<>> => Tail(s) \in Seq(up)
                            /\ \A x \in up : Append(s, x) \in Seq(up)
                            /\ \A n \in 0..Len(s) : SubSeq(s, 1, n) \in Seq(up)
      /\ \A s \in Seq(down) : /\ s # <<>> => Tail(s) \in Seq(down)
                              /\ \A x \in down : Append(s, x) \in Seq(down)
                              /\ \A n \in 0..Len(s) : SubSeq(s, 1, n) \in Seq(down)
  BY SeqTypes, PrefixKeeps
<1>4. <<>> \in Seq(up) /\ <<>> \in Seq(down)
  OBVIOUS
<1>5. Ping \in up
  BY MessageTypes DEF Ping, UpOf
<1>6. ASSUME NEW r \in Run, SentTo(r, a), NEW result \in AgentVerdict
      PROVE  /\ Report(r, "Building", "none") \in up
             /\ Report(r, "Completing", result) \in up
             /\ Report(r, "Completed", result) \in up
  <2>1. SentTo(r, a)'
    BY <1>6, WiresGrow DEF RunInv
  <2>2. \A m \in UpMsg : m.run = r /\ m.result \in AgentVerdict \cup {"none"}
           /\ (m.state = "Completed" => m.result \in AgentVerdict) => m \in up
    BY <2>1 DEF UpOf
  <2>3. result \in Verdict
    BY DEF AgentVerdict, Verdict
  <2> HIDE DEF up
  <2> QED BY <2>2, <2>3, MessageTypes DEF Report, Verdict
<1>7. ASSUME StartBuild(a) PROVE Head(downlink[a]).run \in Run /\ SentTo(Head(downlink[a]).run, a)
  <2>1. Head(downlink[a]) \in DownOf(a) /\ Head(downlink[a]).kind = "build"
    BY <1>1, <1>7, SeqTypes DEF StartBuild
  <2> QED BY <2>1 DEF DownOf, DownMsg
<1>8. uplink'[a] \in Seq(up)
  <2> HIDE DEF up
  <2>1. CASE UplinkKept(a) \/ UplinkRead(a) \/ UplinkCut(a) \/ UplinkDropped(a) \/ PingSent(a)
    BY <1>2, <1>3, <1>4, <1>5, <2>1
       DEF UplinkKept, UplinkRead, UplinkCut, UplinkDropped, PingSent, up
  <2>2. CASE StartReported(a)
    <3>1. Report(Head(downlink[a]).run, "Building", "none") \in up
      BY <1>6, <1>7, <2>2 DEF StartReported, AgentVerdict
    <3> QED BY <1>2, <1>3, <2>2, <3>1 DEF StartReported, up
  <2>3. CASE EndReported(a)
    <3>1. PICK result \in AgentVerdict :
            uplink'[a] = Append(Append(uplink[a], Report(building[a], "Completing", result)),
                                Report(building[a], "Completed", result))
      BY <2>3 DEF EndReported
    <3>2. building[a] \in Run /\ SentTo(building[a], a)
      BY <1>1, <2>3 DEF EndReported, FinishBuild, InLoop, SentTo, Sent
    <3>3. /\ Report(building[a], "Completing", result) \in up
          /\ Report(building[a], "Completed", result) \in up
      BY <1>6, <3>2
    <3>4. Append(uplink[a], Report(building[a], "Completing", result)) \in Seq(up)
      BY <1>2, <1>3, <3>3 DEF up
    <3> QED BY <1>3, <3>1, <3>3, <3>4
  <2> QED BY <2>1, <2>2, <2>3, UplinkStep
<1>9. downlink'[a] \in Seq(down)
  <2>1. CASE DownlinkKept(a) \/ DownlinkRead(a) \/ DownlinkCut(a) \/ DownlinkDropped(a)
    <3> HIDE DEF down
    <3> QED BY <1>2, <1>3, <1>4, <2>1
               DEF DownlinkKept, DownlinkRead, DownlinkCut, DownlinkDropped, down
  <2>2. CASE BuildSent(a)
    <3>1. sched.run \in Run /\ sched.at = "marked" /\ sched.job # NoJob
      BY <2>2, JobAssumption DEF BuildSent, SendBuild, TypeInv, ProcessFacts
    <3>2. sentFor'[sched.run] # NoJob /\ runAgent'[sched.run] = a
      BY <2>2, <3>1 DEF BuildSent, SendBuild, TypeInv, TypeOK, RunTypeOK, runVars,
                        RunInv, RunMatchesDispatch, Dispatching
    <3>3. Build(sched.run) \in down
      BY <3>1, <3>2, MessageTypes DEF DownOf, SentTo, Sent, Build
    <3> HIDE DEF down
    <3> QED BY <1>2, <1>3, <2>2, <3>3 DEF BuildSent, down
  <2>3. CASE CancelSent(a)
    <3>1. PICK r \in Run : downlink'[a] = Append(downlink[a], Cancel(r))
      BY <2>3 DEF CancelSent
    <3>2. Cancel(r) \in down
      BY <3>1, MessageTypes DEF DownOf, Cancel
    <3> HIDE DEF down
    <3> QED BY <1>2, <1>3, <3>1, <3>2 DEF down
  <2> QED BY <2>1, <2>2, <2>3, DownlinkStep
<1> QED BY <1>8, <1>9

LEMMA AgentKnows ==
  ASSUME TypeInv, RunInv, [Next]_vars, NEW a \in Agent
  PROVE  (building[a] # NoRun => SentTo(building[a], a))'
<1> SUFFICES ASSUME NEW r, r = building'[a], r # NoRun
             PROVE  SentTo(r, a)'
  OBVIOUS
<1>1. CASE building'[a] = building[a]
  BY <1>1, WiresGrow DEF RunInv, RunsKnown
<1>2. CASE StartBuild(a) /\ building'[a] = Head(downlink[a]).run
  <2>1. downlink[a] \in Seq(DownOf(a)) /\ downlink[a] # <<>> /\ Head(downlink[a]).kind = "build"
    BY <1>2 DEF StartBuild, RunInv, RunsKnown
  <2>2. Head(downlink[a]) \in DownOf(a)
    BY <2>1, SeqTypes
  <2> QED BY <1>2, <2>1, <2>2, WiresGrow DEF DownOf, RunInv
<1> QED BY <1>1, <1>2, BuildingStep

LEMMA ChannelKnows ==
  ASSUME TypeInv, RunInv, [Next]_vars, NEW a \in Agent
  PROVE  (Reporting(a) => SentTo(chan[a].run, a) /\ chan[a].result \in AgentVerdict)'
<1> SUFFICES ASSUME NEW r, r = chan'[a].run, chan'[a].at = "complete"
             PROVE  SentTo(r, a)' /\ chan'[a].result \in AgentVerdict
  BY DEF Reporting
<1>1. CASE chan'[a] = chan[a]
  BY <1>1, WiresGrow DEF RunInv, RunsKnown, Reporting
<1>2. CASE ChanReads(a)
  <2> DEFINE msg == Head(uplink[a])
  <2>1. msg \in UpOf(a)
    BY <1>2, SeqTypes DEF RunInv, RunsKnown, ChanReads
  <2>2. msg.kind = "report" /\ msg.state = "Completed" /\ r = msg.run
          /\ chan'[a].result = msg.result
    BY <1>2 DEF ChanReads, HandleReport, CompletesJob
  <2>3. SentTo(r, a) /\ chan'[a].result \in AgentVerdict
    BY <2>1, <2>2 DEF UpOf
  <2> QED BY <2>3, WiresGrow DEF RunInv
<1> QED BY <1>1, <1>2, ChanStep

LEMMA RunsStayKnown ==
  ASSUME TypeInv, RunInv, [Next]_vars
  PROVE  RunsKnown'
BY SentAreKnown, MonitorKnows, WiresKnow, AgentKnows, ChannelKnows DEF RunsKnown

-----------------------------------------------------------------------------
(* Rows, runs and the dispatch in progress.                                *)

LEMMA RowsAdvance ==
  ASSUME TypeInv, LinksSound, [Next]_vars, NEW j \in DbJob
  PROVE  /\ jobState[j] = "Deleted" => jobState'[j] = "Deleted"
         /\ jobState[j] # "None" => jobState'[j] # "None"
<1>1. /\ jobState \in [DbJob -> {"None", "Scheduled", "Assigned", "Completed", "Deleted"}]
      /\ runJob \in [Run -> DbJob \cup {NoJob}]
  BY DEF TypeInv, TypeOK, JobTypeOK, RunTypeOK
<1>2. CASE UNCHANGED jobState
  BY <1>2
<1>3. CASE AssignJobInstance
  BY <1>1, <1>3 DEF AssignJobInstance
<1>4. CASE ClearQueue
  BY <1>1, <1>4 DEF ClearQueue
<1>5. ASSUME NEW k \in DbJob, InsertJobInstance(k) \/ DeleteJobInstance(k)
      PROVE  /\ jobState[j] = "Deleted" => jobState'[j] = "Deleted"
             /\ jobState[j] # "None" => jobState'[j] # "None"
  BY <1>1, <1>5 DEF InsertJobInstance, DeleteJobInstance
<1>6. ASSUME NEW r \in Run, NEW result, CompleteJobOf(r, result)
      PROVE  /\ jobState[j] = "Deleted" => jobState'[j] = "Deleted"
             /\ jobState[j] # "None" => jobState'[j] # "None"
  BY <1>1, <1>6 DEF CompleteJobOf, LinksSound
<1>7. ASSUME CompleteCancelledJob \/ \E a \in Agent : CompleteReportedJob(a)
      PROVE  \E r \in Run, result \in Verdict \cup {"none"} : CompleteJobOf(r, result)
  BY <1>7 DEF CompleteCancelledJob, CompleteReportedJob, TypeInv, TypeOK, ProcessTypeOK,
              ProcessFacts, Verdict
<1> QED BY <1>2, <1>3, <1>4, <1>5, <1>6, <1>7, JobWriters

\* The links of runs are set once and cleared with their job instance.
LEMMA LinksAdvance ==
  ASSUME TypeInv, [Next]_vars, NEW r \in Run
  PROVE  \/ /\ runJob'[r] = runJob[r]
            /\ runJob[r] # NoJob => \/ jobState'[runJob[r]] # "Deleted"
                                    \/ jobState[runJob[r]] = "Deleted"
         \/ runJob[r] # NoJob /\ runJob'[r] = NoJob /\ jobState'[runJob[r]] = "Deleted"
         \/ /\ CreateRun /\ runState[r] = "None" /\ sched'.run = r
            /\ runJob'[r] = IF sched.job \in DbJob /\ jobState[sched.job] # "Deleted"
                            THEN sched.job ELSE NoJob
<1>1. /\ jobState \in [DbJob -> {"None", "Scheduled", "Assigned", "Completed", "Deleted"}]
      /\ runJob \in [Run -> DbJob \cup {NoJob}]
  BY DEF TypeInv, TypeOK, JobTypeOK, RunTypeOK
<1>2. CASE CreateRun
  <2> DEFINE linked == IF sched.job \in DbJob /\ jobState[sched.job] # "Deleted"
                       THEN sched.job ELSE NoJob
  <2>1. PICK s \in Run :
          /\ runState[s] = "None" /\ runJob' = [runJob EXCEPT ![s] = linked]
          /\ sched' = [sched EXCEPT !.at = "created", !.run = s]
    BY <1>2 DEF CreateRun
  <2>2. UNCHANGED jobState /\ sched'.run = s
    BY <1>2, <2>1 DEF CreateRun, jobVars, TypeInv, TypeOK, ProcessTypeOK
  <2> HIDE DEF linked
  <2>3. CASE r = s
    <3>1. runJob'[r] = linked
      BY <1>1, <2>1, <2>3
    <3> QED BY <1>2, <2>1, <2>2, <2>3, <3>1, Zenon DEF linked
  <2>4. CASE r # s
    BY <1>1, <2>1, <2>2, <2>4
  <2> QED BY <2>3, <2>4
<1>3. ASSUME NEW j \in DbJob, DeleteJobInstance(j)
      PROVE  \/ /\ runJob'[r] = runJob[r]
                /\ runJob[r] # NoJob => \/ jobState'[runJob[r]] # "Deleted"
                                        \/ jobState[runJob[r]] = "Deleted"
             \/ runJob[r] # NoJob /\ runJob'[r] = NoJob /\ jobState'[runJob[r]] = "Deleted"
  BY <1>1, <1>3, JobAssumption DEF DeleteJobInstance, Job
<1>4. CASE ClearQueue
  BY <1>1, <1>4, JobAssumption DEF ClearQueue, ScheduledJobs, Job
<1>5. CASE UNCHANGED runJob /\ \A j \in DbJob : ~ DeleteJobInstance(j) /\ ~ ClearQueue
  <2>1. ASSUME NEW j \in DbJob
        PROVE  jobState'[j] # "Deleted" \/ jobState[j] = "Deleted"
    <3>1. CASE UNCHANGED jobState
      BY <3>1
    <3>2. CASE AssignJobInstance
      BY <1>1, <3>2 DEF AssignJobInstance
    <3>3. ASSUME NEW k \in DbJob, InsertJobInstance(k)
          PROVE  jobState'[j] # "Deleted" \/ jobState[j] = "Deleted"
      BY <1>1, <3>3 DEF InsertJobInstance
    <3>4. CASE CompleteCancelledJob \/ \E a \in Agent : CompleteReportedJob(a)
      BY <1>1, <3>4 DEF CompleteCancelledJob, CompleteReportedJob, CompleteJobOf
    <3> QED BY <1>5, <3>1, <3>2, <3>3, <3>4, JobWriters
  <2> QED BY <1>1, <1>5, <2>1
<1> QED BY <1>2, <1>3, <1>4, <1>5, RunWriters

LEMMA LinksStaySound ==
  ASSUME TypeInv, RunInv, [Next]_vars
  PROVE  LinksSound'
<1>1. /\ jobState \in [DbJob -> {"None", "Scheduled", "Assigned", "Completed", "Deleted"}]
      /\ runJob \in [Run -> DbJob \cup {NoJob}]
      /\ NoJob \notin DbJob
  BY JobAssumption DEF TypeInv, TypeOK, JobTypeOK, RunTypeOK, Job
<1>2. ASSUME NEW r \in Run, Sent(r)'
      PROVE  runJob'[r] \in {NoJob, sentFor'[r]}
  <2>1. CASE Sent(r)
    <3>1. runState[r] # "None" /\ runJob[r] \in {NoJob, sentFor[r]}
      BY <2>1 DEF RunInv, LinksSound, RunsKnown, Known
    <3>2. runJob'[r] \in {NoJob, runJob[r]}
      BY <3>1, LinksAdvance
    <3>3. sentFor'[r] = sentFor[r]
      <4>1. CASE SendBuild
        <5>1. sched.run # r
          BY <2>1, <4>1 DEF SendBuild, RunInv, RunsKnown, Known, Dispatching
        <5> QED BY <4>1, <5>1 DEF SendBuild, TypeInv, TypeOK, RunTypeOK
      <4> QED BY <4>1, RunWriters
    <3> QED BY <3>1, <3>2, <3>3
  <2>2. CASE ~ Sent(r)
    <3>1. SendBuild
      BY <1>2, <2>2, RunWriters DEF Sent
    <3>2. r = sched.run /\ sched.at = "marked" /\ sentFor'[r] = sched.job
      BY <1>2, <2>2, <3>1 DEF SendBuild, TypeInv, TypeOK, RunTypeOK, Sent
    <3>3. UNCHANGED runJob
      BY <3>1 DEF SendBuild, runVars
    <3> QED BY <3>2, <3>3 DEF RunInv, RunMatchesDispatch, Dispatching
  <2> QED BY <2>1, <2>2
<1>3. ASSUME NEW r \in Run, runJob'[r] # NoJob
      PROVE  jobState'[runJob'[r]] \notin {"None", "Deleted"}
  <2>1. CASE runJob'[r] = runJob[r]
    <3>1. /\ runJob[r] \in DbJob /\ jobState[runJob[r]] \notin {"None", "Deleted"}
      BY <1>1, <1>3, <2>1 DEF RunInv, LinksSound
    <3>2. jobState'[runJob[r]] # "None"
      BY <3>1, RowsAdvance DEF RunInv
    <3>3. jobState'[runJob[r]] # "Deleted"
      <4>1. CreateRun => UNCHANGED jobState
        BY DEF CreateRun, jobVars
      <4> QED BY <1>3, <2>1, <3>1, <4>1, LinksAdvance
    <3> QED BY <2>1, <3>2, <3>3
  <2>2. CASE CreateRun /\ runJob'[r] # runJob[r]
    <3>1. sched.at = "picked" /\ UNCHANGED jobState
      BY <2>2 DEF CreateRun, jobVars
    <3>2. runJob'[r] = sched.job /\ sched.job \in DbJob /\ jobState[sched.job] # "Deleted"
      BY <1>3, <2>2, LinksAdvance
    <3> QED BY <3>1, <3>2 DEF RunInv, RunMatchesDispatch
  <2> QED BY <1>3, <2>1, <2>2, LinksAdvance
<1> QED BY <1>2, <1>3 DEF LinksSound

\* Nobody else writes the run that is being dispatched.
LEMMA DispatchedRunStays ==
  ASSUME TypeInv, RunInv, [Next]_vars, Dispatching, UNCHANGED sched \/ sched'.run = sched.run,
         ~ CreateRun
  PROVE  /\ runState'[sched.run] = "Assigned" /\ runAgent'[sched.run] = sched.agent
         /\ runJob'[sched.run] \in {NoJob, sched.job}
         /\ sched.job \in DbJob /\ jobState'[sched.job] # "Deleted"
              => runJob'[sched.run] = sched.job
<1> DEFINE r == sched.run
<1>1. /\ r \in Run /\ runState[r] = "Assigned" /\ runAgent[r] = sched.agent /\ ~ Known(r)
      /\ runJob[r] \in {NoJob, sched.job}
      /\ sched.job \in DbJob /\ jobState[sched.job] # "Deleted" => runJob[r] = sched.job
  BY DEF RunInv, RunMatchesDispatch, Dispatching, Known, TypeInv, ProcessFacts
<1>2. runState'[r] = "Assigned"
  <2>1. CASE ReportCancelled
    <3>1. mon.run # r
      BY <1>1, <2>1 DEF ReportCancelled, RunInv, RunsKnown
    <3> QED BY <1>1, <2>1, <3>1 DEF ReportCancelled, UpdateRun, TypeInv, TypeOK, RunTypeOK
  <2>2. ASSUME NEW a \in Agent, HandleReport(a)
        PROVE  runState'[r] = "Assigned"
    <3>1. Head(uplink[a]) \in UpOf(a) /\ Head(uplink[a]).kind = "report"
      BY <2>2, SeqTypes DEF HandleReport, RunInv, RunsKnown
    <3>2. Head(uplink[a]).run # r
      BY <1>1, <3>1 DEF UpOf, SentTo, RunInv, RunsKnown, Sent
    <3> QED BY <1>1, <2>2, <3>2 DEF HandleReport, UpdateRun, TypeInv, TypeOK, RunTypeOK
  <2> QED BY <1>1, <2>1, <2>2, RunWriters
<1>3. runAgent'[r] = sched.agent
  BY <1>1, RunWriters
<1>4. sched.job \in DbJob => \/ jobState'[sched.job] = "Deleted"
                             \/ jobState[sched.job] # "Deleted"
  BY RowsAdvance DEF RunInv
<1>5. /\ runJob'[r] \in {NoJob, sched.job}
      /\ sched.job \in DbJob /\ jobState'[sched.job] # "Deleted" => runJob'[r] = sched.job
  BY <1>1, <1>4, LinksAdvance
<1> QED BY <1>2, <1>3, <1>5

LEMMA DispatchStaysMatched ==
  ASSUME TypeInv, RunInv, [Next]_vars
  PROVE  RunMatchesDispatch'
<1>1. /\ jobState \in [DbJob -> {"None", "Scheduled", "Assigned", "Completed", "Deleted"}]
      /\ runJob \in [Run -> DbJob \cup {NoJob}]
      /\ NoJob \notin DbJob /\ DbJob \cap MemJob = {} /\ memQueue \in Seq(MemJob)
  BY JobAssumption DEF TypeInv, TypeOK, JobTypeOK, RunTypeOK, Job
<1> DEFINE Sched == [at: {"idle", "picked", "created", "linked", "marked"},
                     agent: Agent \cup {NoAgent}, job: Job \cup {NoJob},
                     run: Run \cup {NoRun}, call: BOOLEAN]
<1>2. sched \in Sched
  BY DEF TypeInv, TypeOK, ProcessTypeOK
<1>3. CASE UNCHANGED sched
  <2>1. ASSUME sched.at # "idle", sched.call
        PROVE  chan'[sched.agent].at = "call"
    <3>1. chan[sched.agent].at = "call" /\ sched.agent \in Agent
      BY <2>1 DEF RunInv, RunMatchesDispatch, TypeInv, ProcessFacts
    <3>2. ~ SendBuild /\ ~ SchedulerCrash /\ ~ ServerRestart
      <4>1. sched' # IdleScheduler
        BY <1>3, <2>1 DEF IdleScheduler
      <4> QED BY <4>1 DEF SendBuild, SchedulerCrash, ServerRestart
    <3> QED BY <2>1, <3>1, <3>2, ChanStep DEF ChanReads
  <2>2. sched.at # "idle" /\ sched.job \in DbJob => jobState'[sched.job] # "None"
    BY RowsAdvance DEF RunInv, RunMatchesDispatch
  <2>3. ~ (Dispatching /\ CreateRun)
    BY DEF CreateRun, Dispatching
  <2> QED BY <1>3, <2>1, <2>2, <2>3, DispatchedRunStays
          DEF RunMatchesDispatch, Dispatching, RunInv, Matches, EnvironmentsMatch
<1>4. CASE sched'.at = "idle"
  BY <1>4 DEF RunMatchesDispatch, Dispatching
<1>5. ASSUME NEW a \in Agent, NEW call \in BOOLEAN, PickJob(a, call)
      PROVE  RunMatchesDispatch'
  <2>1. PICK j \in Job :
          /\ FirstMatch(j, a)
          /\ sched' = [at |-> "picked", agent |-> a, job |-> j, run |-> NoRun, call |-> call]
    BY <1>5 DEF PickJob
  <2>2. Matches(j, a) /\ (j \in DbJob => jobState[j] = "Scheduled")
    <3>1. \A i \in DOMAIN memQueue : memQueue[i] \in MemJob
      BY <1>1, ElementOfSeq, LenProperties
    <3> QED BY <1>1, <2>1, <3>1 DEF FirstMatch, FirstInMemory, FirstInDatabase, ScheduledJobs
  <2>3. UNCHANGED <<jobState, chan>> /\ (call => chan[a].at = "call")
    BY <1>5 DEF PickJob, jobVars, Requested
  <2> QED BY <2>1, <2>2, <2>3 DEF RunMatchesDispatch, Dispatching, Matches, EnvironmentsMatch
<1>6. CASE CreateRun
  <2>1. PICK r \in Run :
          /\ runState[r] = "None"
          /\ runState' = [runState EXCEPT ![r] = "Assigned"]
          /\ runAgent' = [runAgent EXCEPT ![r] = sched.agent]
          /\ runJob' = [runJob EXCEPT ![r] =
               IF sched.job \in DbJob /\ jobState[sched.job] # "Deleted"
               THEN sched.job ELSE NoJob]
          /\ sched' = [sched EXCEPT !.at = "created", !.run = r]
    BY <1>6 DEF CreateRun
  <2>2. sched.at = "picked" /\ UNCHANGED <<jobState, chan>>
    BY <1>6 DEF CreateRun, jobVars
  <2>3. /\ sched'.at = "created" /\ sched'.run = r /\ sched'.agent = sched.agent
        /\ sched'.job = sched.job /\ sched'.call = sched.call
    BY <1>2, <2>1
  <2>4. /\ runState'[r] = "Assigned" /\ runAgent'[r] = sched.agent
        /\ runJob'[r] = IF sched.job \in DbJob /\ jobState[sched.job] # "Deleted"
                        THEN sched.job ELSE NoJob
    BY <1>1, <2>1 DEF TypeInv, TypeOK, RunTypeOK
  <2> HIDE DEF Sched
  <2> QED BY <2>2, <2>3, <2>4
          DEF RunMatchesDispatch, Dispatching, RunInv, Matches, EnvironmentsMatch
<1>7. CASE AssignJobInstance \/ MarkAgentBuilding
  <2>1. /\ Dispatching /\ ~ CreateRun /\ UNCHANGED chan
        /\ sched'.run = sched.run /\ sched'.agent = sched.agent
        /\ sched'.job = sched.job /\ sched'.call = sched.call
    BY <1>2, <1>7 DEF AssignJobInstance, MarkAgentBuilding, Dispatching, CreateRun
  <2>2. sched.job \in DbJob => jobState'[sched.job] # "None"
    BY <2>1, RowsAdvance DEF RunInv, RunMatchesDispatch, Dispatching
  <2> HIDE DEF Sched
  <2> QED BY <2>1, <2>2, DispatchedRunStays
          DEF RunMatchesDispatch, Dispatching, RunInv, Matches, EnvironmentsMatch
<1>8. CASE SendBuild \/ SchedulerCrash \/ ServerRestart
  BY <1>4, <1>8 DEF SendBuild, SchedulerCrash, ServerRestart, IdleScheduler
<1> QED BY <1>3, <1>5, <1>6, <1>7, <1>8, ProcessWriters

LEMMA InitRuns == Init => RunInv
<1> SUFFICES ASSUME Init PROVE RunInv
  OBVIOUS
<1>1. RunsKnown
  BY DEF Init, RunsKnown, Sent, Reporting, IdleChannel, IdleMonitor
<1>2. RunMatchesDispatch
  BY DEF Init, RunMatchesDispatch, Dispatching, IdleScheduler
<1>3. LinksSound
  BY DEF Init, LinksSound, Sent
<1> QED BY <1>1, <1>2, <1>3 DEF RunInv

LEMMA NextRuns == TypeInv /\ RunInv /\ [Next]_vars => RunInv'
BY RunsStayKnown, DispatchStaysMatched, LinksStaySound DEF RunInv

-----------------------------------------------------------------------------
(* No job is stranded: the run that was created for it is active until a   *)
(* report or the monitor completes it, and whoever completes it goes on to *)
(* the job.                                                                *)

Alive(r) == runState[r] \in ActiveStates \/ Completing(r)

LEMMA CompletingKnown ==
  ASSUME TypeInv, RunInv, NEW r \in Run, Completing(r)
  PROVE  runState[r] # "None"
<1>1. ASSUME NEW a \in Agent, chan[a].at = "complete", chan[a].run = r
      PROVE  Known(r)
  BY <1>1 DEF RunInv, RunsKnown, Reporting, SentTo, Sent
<1>2. ASSUME mon.at = "complete", mon.run = r
      PROVE  Known(r)
  BY <1>2 DEF RunInv, RunsKnown
<1> QED BY <1>1, <1>2 DEF Completing, Known

\* Whoever is completing a run is not disturbed before it has completed the job.
LEMMA CompletingStays ==
  ASSUME TypeInv, RunInv, [Next]_vars, ~ ServerRestart,
         NEW r \in Run, Completing(r), runJob[r] # NoJob
  PROVE  Completing(r)' \/ jobState'[runJob[r]] = "Completed"
<1>1. /\ jobState \in [DbJob -> {"None", "Scheduled", "Assigned", "Completed", "Deleted"}]
      /\ runJob[r] \in DbJob
  BY DEF TypeInv, TypeOK, JobTypeOK, RunTypeOK
<1>2. ASSUME NEW a \in Agent, chan[a].at = "complete", chan[a].run = r
      PROVE  Completing(r)' \/ jobState'[runJob[r]] = "Completed"
  <2>1. CASE CompleteReportedJob(a)
    BY <1>1, <1>2, <2>1 DEF CompleteReportedJob, CompleteJobOf
  <2>2. CASE ~ CompleteReportedJob(a)
    <3>1. chan'[a] = chan[a]
      <4>1. SendBuild /\ sched.call /\ sched.agent = a => chan[a].at = "call"
        BY DEF SendBuild, RunInv, RunMatchesDispatch
      <4> QED BY <1>2, <2>2, <4>1, ChanStep DEF ChanReads
    <3> QED BY <1>2, <3>1 DEF Completing
  <2> QED BY <2>1, <2>2
<1>3. ASSUME mon.at = "complete", mon.run = r
      PROVE  Completing(r)' \/ jobState'[runJob[r]] = "Completed"
  <2>1. CASE CompleteCancelledJob
    BY <1>1, <1>3, <2>1 DEF CompleteCancelledJob, CompleteJobOf
  <2>2. CASE UNCHANGED mon
    BY <1>3, <2>2 DEF Completing
  <2>3. ~ ReportCancelled /\ \A s \in Run : ~ CancelRun(s)
    BY <1>3 DEF ReportCancelled, CancelRun
  <2> QED BY <2>1, <2>2, <2>3, ProcessWriters
<1> QED BY <1>2, <1>3 DEF Completing

\* Whoever ends an active run is about to complete its job.
LEMMA EndedIsCompleting ==
  ASSUME TypeInv, RunInv, [Next]_vars, NEW r \in Run, runState[r] \in ActiveStates,
         runJob[r] # NoJob
  PROVE  runState'[r] \in ActiveStates \/ Completing(r)'
<1>1. runState \in [Run -> {"None", "Assigned", "Building", "Completing", "Completed"}]
  BY DEF TypeInv, TypeOK, RunTypeOK
<1>2. CASE UNCHANGED runState
  BY <1>2
<1>3. CASE CreateRun
  BY <1>1, <1>3 DEF CreateRun, ActiveStates
<1>4. CASE ReportCancelled
  <2>1. CASE r = mon.run
    <3>1. mon' = [mon EXCEPT !.at = "complete"]
      BY <1>4, <2>1 DEF ReportCancelled, CompletesJob
    <3> QED BY <2>1, <3>1 DEF Completing, TypeInv, TypeOK, ProcessTypeOK
  <2>2. CASE r # mon.run
    BY <1>1, <1>4, <2>2 DEF ReportCancelled, UpdateRun
  <2> QED BY <2>1, <2>2
<1>5. ASSUME NEW a \in Agent, HandleReport(a)
      PROVE  runState'[r] \in ActiveStates \/ Completing(r)'
  <2> DEFINE msg == Head(uplink[a])
  <2>1. msg \in UpOf(a) /\ msg.kind = "report"
    BY <1>5, SeqTypes DEF HandleReport, RunInv, RunsKnown
  <2>2. runState' = [runState EXCEPT ![msg.run] = msg.state]
    BY <1>5 DEF HandleReport, UpdateRun
  <2>3. \/ msg.state \in {"Building", "Completing"}
        \/ msg.state = "Completed" /\ msg.result # "none"
    BY <2>1, ReceivedUp DEF UpOf, AgentVerdict
  <2>4. CASE r # msg.run \/ msg.state \in {"Building", "Completing"}
    BY <1>1, <2>2, <2>4 DEF ActiveStates
  <2>5. CASE r = msg.run /\ msg.state = "Completed" /\ msg.result # "none"
    <3>1. CompletesJob(msg.run, msg.state, msg.result)
      BY <2>5 DEF CompletesJob
    <3>2. chan' = [chan EXCEPT ![a] = [at |-> "complete", run |-> msg.run, result |-> msg.result]]
      BY <1>5, <3>1 DEF HandleReport
    <3> HIDE DEF msg
    <3>3. chan'[a].at = "complete" /\ chan'[a].run = r
      BY <2>5, <3>2 DEF TypeInv, TypeOK, ProcessTypeOK
    <3> QED BY <3>3 DEF Completing
  <2> QED BY <2>3, <2>4, <2>5
<1> QED BY <1>2, <1>3, <1>4, <1>5, RunWriters

LEMMA NextStranded == TypeInv /\ RunInv /\ NoStrandedJob /\ [Next]_vars => NoStrandedJob'
<1> SUFFICES ASSUME TypeInv, RunInv, NoStrandedJob, [Next]_vars, restarts' = 0,
                    NEW j \in DbJob, jobState'[j] = "Assigned"
             PROVE  \E r \in Run : /\ runJob'[r] = j
                                   /\ runState'[r] \in ActiveStates \/ Completing(r)'
  BY DEF NoStrandedJob
<1>1. ~ ServerRestart /\ restarts = 0
  BY NoFaultYet
<1>2. CASE jobState[j] = "Assigned"
  <2>1. PICK r \in Run : runJob[r] = j /\ Alive(r)
    BY <1>1, <1>2 DEF NoStrandedJob, Alive
  <2>2. runState[r] # "None" /\ runJob[r] # NoJob
    BY <2>1, CompletingKnown, JobAssumption DEF Alive, ActiveStates, Job
  <2>3. runJob'[r] = j
    BY <2>1, <2>2, LinksAdvance
  <2>4. runState'[r] \in ActiveStates \/ Completing(r)'
    BY <1>1, <2>1, <2>2, CompletingStays, EndedIsCompleting DEF Alive
  <2> QED BY <2>3, <2>4
<1>3. CASE jobState[j] # "Assigned"
  <2>1. AssignJobInstance /\ sched.job = j /\ jobState[j] # "Deleted"
    <3>1. jobState \in [DbJob -> {"None", "Scheduled", "Assigned", "Completed", "Deleted"}]
      BY DEF TypeInv, TypeOK, JobTypeOK
    <3>2. AssignJobInstance
      BY <1>3, <3>1, JobWriters DEF ClearQueue, CompleteCancelledJob, InsertJobInstance,
         DeleteJobInstance, CompleteReportedJob, CompleteJobOf
    <3> QED BY <1>3, <3>1, <3>2 DEF AssignJobInstance
  <2>2. Dispatching /\ UNCHANGED <<runState, runJob>>
    BY <2>1 DEF AssignJobInstance, Dispatching, runVars
  <2>3. sched.run \in Run /\ runJob[sched.run] = j /\ runState[sched.run] = "Assigned"
    BY <2>1, <2>2 DEF RunInv, RunMatchesDispatch, TypeInv, ProcessFacts, Dispatching
  <2> QED BY <2>2, <2>3 DEF ActiveStates
<1> QED BY <1>2, <1>3

(***************************************************************************)
(* A job instance that is Assigned can still end, as long as the server    *)
(* was not restarted: some run linked to it is active, or whoever          *)
(* completed the run is about to complete the job.  So a crash of the      *)
(* scheduler between any two of its writes, a lost connection or a lost    *)
(* report leaves no job that nobody will complete.                         *)
(***************************************************************************)
THEOREM AssignedJobsCanEnd == Spec => []NoStrandedJob
<1>1. Init => TypeInv /\ RunInv /\ NoStrandedJob
  BY InitType, InitRuns DEF Init, NoStrandedJob
<1>2. TypeInv /\ RunInv /\ NoStrandedJob /\ [Next]_vars => (TypeInv /\ RunInv /\ NoStrandedJob)'
  BY NextType, NextRuns, NextStranded
<1> QED BY <1>1, <1>2, PTL DEF Spec

-----------------------------------------------------------------------------
(* No completed job is reopened.  A job is completed through a run that is *)
(* known, and without a crash such a run has left no job behind that can   *)
(* still be picked.                                                        *)

LEMMA PastPendingStays ==
  ASSUME TypeInv, [Next]_vars, NEW j \in DbJob, jobState[j] \notin Pending
  PROVE  jobState'[j] \notin Pending
<1>1. jobState \in [DbJob -> {"None", "Scheduled", "Assigned", "Completed", "Deleted"}]
  BY DEF TypeInv, TypeOK, JobTypeOK
<1>2. CASE UNCHANGED jobState
  BY <1>2
<1>3. CASE AssignJobInstance
  BY <1>1, <1>3 DEF AssignJobInstance, Pending
<1>4. CASE ClearQueue
  BY <1>1, <1>4 DEF ClearQueue, Pending
<1>5. ASSUME NEW k \in DbJob, InsertJobInstance(k) \/ DeleteJobInstance(k)
      PROVE  jobState'[j] \notin Pending
  BY <1>1, <1>5 DEF InsertJobInstance, DeleteJobInstance, Pending
<1>6. CASE CompleteCancelledJob
  BY <1>6, CompletionMovesOn DEF CompleteCancelledJob
<1>7. ASSUME NEW a \in Agent, CompleteReportedJob(a)
      PROVE  jobState'[j] \notin Pending
  BY <1>7, CompletionMovesOn DEF CompleteReportedJob
<1> QED BY <1>2, <1>3, <1>4, <1>5, <1>6, <1>7, JobWriters

\* Where the rows of completed jobs come from.
LEMMA CompletedThroughRun ==
  ASSUME TypeInv, RunInv, NEW j \in DbJob,
         CompleteCancelledJob \/ \E a \in Agent : CompleteReportedJob(a)
  PROVE  \/ jobState'[j] = jobState[j]
         \/ \E r \in Run : Known(r) /\ runJob[r] = j /\ jobState'[j] = "Completed"
<1>1. jobState \in [DbJob -> {"None", "Scheduled", "Assigned", "Completed", "Deleted"}]
  BY DEF TypeInv, TypeOK, JobTypeOK
<1>2. ASSUME NEW r \in Run, NEW result, CompleteJobOf(r, result)
      PROVE  \/ jobState'[j] = jobState[j]
             \/ runJob[r] = j /\ jobState'[j] = "Completed"
  BY <1>1, <1>2 DEF CompleteJobOf
<1>3. CASE CompleteCancelledJob
  <2>1. Known(mon.run) /\ mon.run \in Run /\ CompleteJobOf(mon.run, "Cancelled")
    BY <1>3 DEF CompleteCancelledJob, RunInv, RunsKnown, Known
  <2> QED BY <1>2, <2>1
<1>4. ASSUME NEW a \in Agent, CompleteReportedJob(a)
      PROVE  \/ jobState'[j] = jobState[j]
             \/ \E r \in Run : Known(r) /\ runJob[r] = j /\ jobState'[j] = "Completed"
  <2>1. /\ Known(chan[a].run) /\ chan[a].run \in Run
        /\ CompleteJobOf(chan[a].run, chan[a].result)
    BY <1>4 DEF CompleteReportedJob, RunInv, RunsKnown, Known, Reporting, SentTo, Sent
  <2> QED BY <1>2, <2>1
<1> QED BY <1>3, <1>4

LEMMA BecomesKnown ==
  ASSUME TypeInv, RunInv, [Next]_vars, ~ SchedulerCrash, ~ ServerRestart,
         NEW r \in Run, Known(r)', ~ Known(r)
  PROVE  SendBuild /\ r = sched.run
<1>1. runState[r] # "None"
  <2>1. ASSUME CreateRun, runState[r] = "None"
        PROVE  FALSE
    <3>1. PICK s \in Run : runState' = [runState EXCEPT ![s] = "Assigned"]
                             /\ sched' = [sched EXCEPT !.at = "created", !.run = s]
      BY <2>1 DEF CreateRun
    <3>2. s = r
      BY <2>1, <3>1 DEF Known, TypeInv, TypeOK, RunTypeOK
    <3>3. sched'.at = "created" /\ sched'.run = r
      BY <3>1, <3>2 DEF TypeInv, TypeOK, ProcessTypeOK
    <3> QED BY <3>3 DEF Known, Dispatching
  <2>2. ASSUME ReportCancelled, runState[r] = "None"
        PROVE  FALSE
    <3>1. runState[mon.run] # "None"
      BY <2>2 DEF ReportCancelled, RunInv, RunsKnown, Known
    <3> QED BY <2>2, <3>1 DEF Known, ReportCancelled, UpdateRun, TypeInv, TypeOK, RunTypeOK
  <2>3. ASSUME NEW a \in Agent, HandleReport(a), runState[r] = "None"
        PROVE  FALSE
    <3>1. Head(uplink[a]) \in UpOf(a) /\ Head(uplink[a]).kind = "report"
      BY <2>3, SeqTypes DEF HandleReport, RunInv, RunsKnown
    <3>2. runState[Head(uplink[a]).run] # "None"
      BY <3>1 DEF UpOf, SentTo, RunInv, RunsKnown, Known, Sent
    <3> QED BY <2>3, <3>2 DEF Known, HandleReport, UpdateRun, TypeInv, TypeOK, RunTypeOK
  <2> QED BY <2>1, <2>2, <2>3, RunWriters DEF Known
<1>2. Dispatching /\ sched.run = r
  BY <1>1 DEF Known
<1>3. ~ (Dispatching' /\ sched'.run = sched.run)
  BY <1>2 DEF Known
<1>4. ~ UNCHANGED sched
  BY <1>2, <1>3 DEF Dispatching
<1>5. ~ AssignJobInstance /\ ~ MarkAgentBuilding
  BY <1>3 DEF AssignJobInstance, MarkAgentBuilding, Dispatching, TypeInv, TypeOK, ProcessTypeOK
<1>6. ~ CreateRun /\ \A a \in Agent, call \in BOOLEAN : ~ PickJob(a, call)
  BY <1>2 DEF CreateRun, PickJob, Dispatching
<1> QED BY <1>2, <1>4, <1>5, <1>6, ProcessWriters

LEMMA NextOrphan ==
  ASSUME TypeInv, RunInv, DispatchInv, NoOrphan, [Next]_vars
  PROVE  NoOrphan'
<1> SUFFICES ASSUME crashes' = 0, restarts' = 0
             PROVE  /\ \A r \in Run : Known(r)' /\ runJob'[r] # NoJob
                                        => jobState'[runJob'[r]] \notin Pending
                    /\ sched'.at \in {"picked", "created"} /\ sched'.job \in DbJob
                         => jobState'[sched'.job] \in {"Scheduled", "Deleted"}
  BY DEF NoOrphan, Pending
<1>1. crashes = 0 /\ restarts = 0 /\ ~ SchedulerCrash /\ ~ ServerRestart
  BY NoFaultYet
<1>2. /\ \A r \in Run : Known(r) /\ runJob[r] # NoJob => jobState[runJob[r]] \notin Pending
      /\ sched.at \in {"picked", "created"} /\ sched.job \in DbJob
           => jobState[sched.job] \in {"Scheduled", "Deleted"}
  BY <1>1 DEF NoOrphan
<1>3. /\ jobState \in [DbJob -> {"None", "Scheduled", "Assigned", "Completed", "Deleted"}]
      /\ runJob \in [Run -> DbJob \cup {NoJob}]
      /\ NoJob \notin DbJob /\ DbJob \cap MemJob = {}
  BY JobAssumption DEF TypeInv, TypeOK, JobTypeOK, RunTypeOK, Job
<1>4. ASSUME NEW r \in Run, Known(r)', runJob'[r] # NoJob
      PROVE  jobState'[runJob'[r]] \notin Pending
  <2>1. CASE Known(r)
    <3>1. runJob'[r] = runJob[r]
      BY <1>4, <2>1, LinksAdvance DEF Known
    <3> QED BY <1>2, <1>3, <1>4, <2>1, <3>1, PastPendingStays
  <2>2. CASE ~ Known(r)
    <3>1. SendBuild /\ r = sched.run
      BY <1>1, <1>4, <2>2, BecomesKnown
    <3>2. sched.at = "marked" /\ UNCHANGED <<jobState, runJob>>
      BY <3>1 DEF SendBuild, jobVars, runVars
    <3>3. runJob[r] = sched.job /\ sched.job \in DbJob
      BY <1>3, <1>4, <3>1, <3>2 DEF RunInv, RunMatchesDispatch, Dispatching
    <3>4. jobState[sched.job] \notin Pending
      BY <3>2, <3>3 DEF DispatchInv, AssignedBeforeSent
    <3> QED BY <3>2, <3>3, <3>4
  <2> QED BY <2>1, <2>2
<1>5. ASSUME sched'.at \in {"picked", "created"}, sched'.job \in DbJob
      PROVE  jobState'[sched'.job] \in {"Scheduled", "Deleted"}
  <2>1. CASE UNCHANGED sched
    <3> DEFINE j == sched.job
    <3>1. j \in DbJob /\ jobState[j] \in {"Scheduled", "Deleted"}
      BY <1>2, <1>5, <2>1
    <3>2. CASE UNCHANGED jobState
      BY <2>1, <3>1, <3>2
    <3>3. ~ AssignJobInstance
      BY <1>5, <2>1 DEF AssignJobInstance, TypeInv, TypeOK, ProcessTypeOK
    <3>4. CASE ClearQueue
      BY <1>3, <2>1, <3>1, <3>4 DEF ClearQueue
    <3>5. ASSUME NEW k \in DbJob, InsertJobInstance(k) \/ DeleteJobInstance(k)
          PROVE  jobState'[j] \in {"Scheduled", "Deleted"}
      BY <1>3, <3>1, <3>5 DEF InsertJobInstance, DeleteJobInstance
    <3>6. CASE CompleteCancelledJob \/ \E a \in Agent : CompleteReportedJob(a)
      <4>1. \A r \in Run : Known(r) => runJob[r] # j
        BY <1>2, <1>3, <3>1 DEF RunInv, LinksSound, Pending
      <4>2. jobState'[j] = jobState[j]
        BY <3>1, <3>6, <4>1, CompletedThroughRun
      <4> QED BY <2>1, <3>1, <4>2
    <3> QED BY <2>1, <3>2, <3>3, <3>4, <3>5, <3>6, JobWriters
  <2>2. ASSUME NEW a \in Agent, NEW call \in BOOLEAN, PickJob(a, call)
        PROVE  jobState'[sched'.job] \in {"Scheduled", "Deleted"}
    <3>1. PICK j \in Job : FirstMatch(j, a) /\ sched'.job = j
      BY <2>2 DEF PickJob
    <3>2. \A i \in DOMAIN memQueue : memQueue[i] \in MemJob
      BY ElementOfSeq, LenProperties DEF TypeInv, TypeOK, JobTypeOK
    <3>3. jobState[j] = "Scheduled"
      BY <1>3, <1>5, <3>1, <3>2 DEF FirstMatch, FirstInMemory, FirstInDatabase, ScheduledJobs
    <3> QED BY <2>2, <3>1, <3>3 DEF PickJob, jobVars
  <2>3. CASE CreateRun
    <3>1. sched.at = "picked" /\ sched'.job = sched.job /\ UNCHANGED jobState
      BY <2>3 DEF CreateRun, jobVars, TypeInv, TypeOK, ProcessTypeOK
    <3> QED BY <1>2, <1>5, <3>1
  <2>4. ~ AssignJobInstance /\ ~ MarkAgentBuilding /\ ~ SendBuild
    BY <1>5 DEF AssignJobInstance, MarkAgentBuilding, SendBuild, IdleScheduler, TypeInv, TypeOK,
                ProcessTypeOK
  <2> QED BY <1>1, <2>1, <2>2, <2>3, <2>4, ProcessWriters
<1> QED BY <1>4, <1>5

LEMMA InitOrphan == Init => NoOrphan
BY DEF Init, NoOrphan, Known, IdleScheduler

LEMMA CompletedStays ==
  ASSUME TypeInv, RunInv, NoOrphan, [Next]_vars, crashes = 0, restarts = 0,
         NEW j \in DbJob, jobState[j] = "Completed"
  PROVE  jobState'[j] \in {"Completed", "Deleted"}
<1>1. jobState \in [DbJob -> {"None", "Scheduled", "Assigned", "Completed", "Deleted"}]
  BY DEF TypeInv, TypeOK, JobTypeOK
<1>2. CASE UNCHANGED jobState
  BY <1>2
<1>3. CASE AssignJobInstance
  <2>1. sched.job # j
    BY <1>3 DEF AssignJobInstance, NoOrphan
  <2> QED BY <1>1, <1>3, <2>1 DEF AssignJobInstance
<1>4. CASE ClearQueue
  BY <1>1, <1>4 DEF ClearQueue
<1>5. ASSUME NEW k \in DbJob, InsertJobInstance(k) \/ DeleteJobInstance(k)
      PROVE  jobState'[j] \in {"Completed", "Deleted"}
  BY <1>1, <1>5 DEF InsertJobInstance, DeleteJobInstance
<1>6. CASE CompleteCancelledJob \/ \E a \in Agent : CompleteReportedJob(a)
  BY <1>6, CompletedThroughRun
<1> QED BY <1>2, <1>3, <1>4, <1>5, <1>6, JobWriters

(***************************************************************************)
(* Without a crash of the scheduler or the server a completed job instance *)
(* is never assigned again: assign_job_instance does not look at the state *)
(* of the row, and still finds it Scheduled or deleted.                    *)
(***************************************************************************)
THEOREM CompletedJobsStay == Spec => CompletedJobNotReopened
<1>1. Init => TypeInv /\ RunInv /\ DispatchInv /\ NoOrphan
  BY InitType, InitRuns, InitDispatch, InitOrphan
<1>2. TypeInv /\ RunInv /\ DispatchInv /\ NoOrphan /\ [Next]_vars
        => (TypeInv /\ RunInv /\ DispatchInv /\ NoOrphan)'
  BY NextType, NextRuns, NextDispatch, NextOrphan
<1>3. TypeInv /\ RunInv /\ NoOrphan /\ [Next]_vars
        => [crashes = 0 /\ restarts = 0 =>
              \A j \in DbJob :
                jobState[j] = "Completed" => jobState'[j] \in {"Completed", "Deleted"}]_jobState
  BY CompletedStays
<1> QED BY <1>1, <1>2, <1>3, PTL DEF Spec, CompletedJobNotReopened

-----------------------------------------------------------------------------
(* One verdict per run: the build is read once, executed once, and its     *)
(* last report read once.                                                  *)

LEMMA OnItsWaySent ==
  ASSUME RunInv, NEW a \in Agent, NEW r \in Run, OnItsWay(a, r)
  PROVE  SentTo(r, a)
<1>1. CASE Unread(a, r)
  <2>1. PICK i \in DOMAIN downlink[a] : downlink[a][i] = Build(r)
    BY <1>1 DEF Unread, In
  <2>2. Build(r) \in DownOf(a)
    BY <2>1, ElementOfSeq, LenProperties DEF RunInv, RunsKnown
  <2> QED BY <2>2 DEF DownOf, Build
<1>2. CASE Executed(a, r)
  BY <1>2, RunAssumption DEF Executed, RunInv, RunsKnown
<1>3. CASE Reported(a, r)
  <2>1. PICK i \in DOMAIN uplink[a] : uplink[a][i] \in Final(r)
    BY <1>3 DEF Reported, In
  <2>2. uplink[a][i] \in UpOf(a)
    BY <2>1, ElementOfSeq, LenProperties DEF RunInv, RunsKnown
  <2> QED BY <2>1, <2>2 DEF UpOf, Final
<1>4. CASE Received(a, r)
  BY <1>4 DEF Received, RunInv, RunsKnown
<1> QED BY <1>1, <1>2, <1>3, <1>4 DEF OnItsWay

LEMMA WireTypes ==
  ASSUME TypeInv, NEW a \in Agent
  PROVE  uplink[a] \in Seq(UpMsg) /\ downlink[a] \in Seq(DownMsg)
BY DEF TypeInv, TypeOK, AgentTypeOK

LEMMA NotSentYet ==
  ASSUME RunInv, SendBuild
  PROVE  ~ Sent(sched.run)
BY DEF RunInv, RunsKnown, Known, SendBuild, Dispatching, Sent

LEMMA UnreadStep ==
  ASSUME TypeInv, RunInv, OneVerdict, [Next]_vars, NEW a \in Agent, NEW r \in Run
  PROVE  /\ Unread(a, r)' => Unread(a, r) \/ (SendBuild /\ r = sched.run /\ ~ Sent(r))
         /\ Once(downlink'[a], {Build(r)})
<1> DEFINE M == {Build(r)}
<1>1. Once(downlink[a], M) /\ downlink[a] \in Seq(DownMsg)
  BY WireTypes DEF OneVerdict
<1>2. CASE DownlinkKept(a)
  BY <1>1, <1>2 DEF DownlinkKept, Unread
<1>3. CASE DownlinkRead(a)
  BY <1>1, <1>3, TailKeeps DEF DownlinkRead, Unread
<1>4. CASE DownlinkCut(a)
  <2>1. PICK n \in 0..Len(downlink[a]) : downlink'[a] = SubSeq(downlink[a], 1, n)
    BY <1>4 DEF DownlinkCut
  <2> QED BY <1>1, <2>1, PrefixKeeps DEF Unread
<1>5. CASE DownlinkDropped(a)
  BY <1>5 DEF DownlinkDropped, Unread, In, Once
<1>6. CASE BuildSent(a)
  <2> DEFINE e == Build(sched.run)
  <2>1. downlink'[a] = Append(downlink[a], e) /\ SendBuild
    BY <1>6 DEF BuildSent
  <2>2. e \in M => r = sched.run
    BY DEF Build
  <2>3. ~ Sent(sched.run)
    BY <2>1, NotSentYet
  <2>4. e \in M => ~ In(downlink[a], M)
    BY <2>2, <2>3, OnItsWaySent DEF OnItsWay, Unread, SentTo
  <2>5. e \in DownMsg
    BY <2>1, MessageTypes DEF SendBuild, TypeInv, ProcessFacts
  <2> HIDE DEF e, M
  <2>6. /\ In(downlink'[a], M) <=> In(downlink[a], M) \/ e \in M
        /\ Once(downlink'[a], M)
    BY <1>1, <2>1, <2>4, <2>5, AppendKeeps
  <2> QED BY <2>1, <2>2, <2>3, <2>6 DEF Unread, M
<1>7. CASE CancelSent(a)
  <2>1. PICK c \in Run : downlink'[a] = Append(downlink[a], Cancel(c))
    BY <1>7 DEF CancelSent
  <2> DEFINE e == Cancel(c)
  <2>2. e \notin M /\ e \in DownMsg
    BY MessageTypes DEF Build, Cancel
  <2> HIDE DEF e, M
  <2>3. In(downlink'[a], M) <=> In(downlink[a], M)
    BY <1>1, <2>1, <2>2, AppendKeeps DEF e
  <2>4. Once(downlink'[a], M)
    BY <1>1, <2>1, <2>2, AppendKeeps DEF e
  <2> QED BY <2>3, <2>4 DEF Unread, M
<1> QED BY <1>2, <1>3, <1>4, <1>5, <1>6, <1>7, DownlinkStep

\* Reading a build takes it off the wire.
LEMMA BuildTaken ==
  ASSUME TypeInv, OneVerdict, NEW a \in Agent, StartBuild(a), NEW r \in Run,
         Head(downlink[a]).run = r
  PROVE  Unread(a, r) /\ ~ Unread(a, r)'
<1>1. Once(downlink[a], {Build(r)}) /\ downlink[a] \in Seq(DownMsg)
  BY WireTypes DEF OneVerdict
<1>2. /\ downlink[a] # <<>> /\ Head(downlink[a]).kind = "build"
      /\ downlink'[a] = Tail(downlink[a])
  BY DEF StartBuild, TypeInv, TypeOK, AgentTypeOK
<1>3. Head(downlink[a]) \in DownMsg
  BY <1>1, <1>2, SeqTypes
<1>4. Head(downlink[a]) = Build(r)
  BY <1>2, <1>3 DEF DownMsg, Build
<1> QED BY <1>1, <1>2, <1>4, TailKeeps DEF Unread

LEMMA ExecutedStep ==
  ASSUME TypeInv, OneVerdict, [Next]_vars, NEW a \in Agent, NEW r \in Run, Executed(a, r)'
  PROVE  Executed(a, r) \/ (Unread(a, r) /\ ~ Unread(a, r)')
<1>1. r # NoRun
  BY RunAssumption
<1>2. CASE building'[a] = building[a]
  BY <1>2 DEF Executed
<1>3. CASE StartBuild(a) /\ building'[a] = Head(downlink[a]).run
  BY <1>3, BuildTaken DEF Executed
<1> QED BY <1>1, <1>2, <1>3, BuildingStep DEF Executed

LEMMA ReportedStep ==
  ASSUME TypeInv, OneVerdict, [Next]_vars, NEW a \in Agent, NEW r \in Run
  PROVE  /\ Reported(a, r)' => Reported(a, r) \/ (Executed(a, r) /\ ~ Executed(a, r)')
         /\ Once(uplink'[a], Final(r))
<1> DEFINE M == Final(r)
<1>1. Once(uplink[a], M) /\ uplink[a] \in Seq(UpMsg)
  BY WireTypes DEF OneVerdict
<1>2. CASE UplinkKept(a)
  BY <1>1, <1>2 DEF UplinkKept, Reported
<1>3. CASE UplinkRead(a)
  <2> HIDE DEF M
  <2>1. Once(uplink'[a], M) /\ (In(uplink'[a], M) => In(uplink[a], M))
    BY <1>1, <1>3, TailKeeps DEF UplinkRead
  <2> QED BY <2>1 DEF Reported, M
<1>4. CASE UplinkCut(a)
  <2> HIDE DEF M
  <2>1. PICK n \in 0..Len(uplink[a]) : uplink'[a] = SubSeq(uplink[a], 1, n)
    BY <1>4 DEF UplinkCut
  <2>2. Once(uplink'[a], M) /\ (In(uplink'[a], M) => In(uplink[a], M))
    BY <1>1, <2>1, PrefixKeeps
  <2> QED BY <2>2 DEF Reported, M
<1>5. CASE UplinkDropped(a)
  BY <1>5 DEF UplinkDropped, Reported, In, Once
<1>6. ASSUME NEW e \in UpMsg, uplink'[a] = Append(uplink[a], e), e.state # "Completed"
      PROVE  Once(uplink'[a], M) /\ (Reported(a, r)' => Reported(a, r))
  <2>1. e \notin M
    BY <1>6 DEF Final
  <2> HIDE DEF M
  <2>2. Once(uplink'[a], M) /\ (In(uplink'[a], M) => In(uplink[a], M))
    BY <1>1, <1>6, <2>1, AppendKeeps
  <2> QED BY <2>2 DEF Reported, M
<1>7. CASE PingSent(a)
  <2>1. Ping.state # "Completed"
    BY DEF Ping
  <2> QED BY <1>6, <1>7, <2>1, MessageTypes DEF PingSent
<1>8. CASE StartReported(a)
  <2> DEFINE e == Report(Head(downlink[a]).run, "Building", "none")
  <2>1. Head(downlink[a]).run \in Run
    <3>1. downlink[a] # <<>> /\ downlink[a] \in Seq(DownMsg)
      BY <1>8, WireTypes DEF StartReported, StartBuild
    <3>2. Head(downlink[a]) \in DownMsg
      BY <3>1, SeqTypes
    <3> QED BY <3>2 DEF DownMsg
  <2>2. e \in UpMsg /\ e.state # "Completed"
    BY <2>1, MessageTypes DEF Report, Verdict
  <2> HIDE DEF M
  <2> QED BY <1>6, <1>8, <2>2 DEF StartReported, M
<1>9. CASE EndReported(a)
  <2> DEFINE e(result) == Report(building[a], "Completing", result)
             f(result) == Report(building[a], "Completed", result)
  <2>1. PICK result \in AgentVerdict :
          uplink'[a] = Append(Append(uplink[a], e(result)), f(result))
    BY <1>9 DEF EndReported
  <2>2. building[a] \in Run /\ building'[a] = NoRun
    BY <1>9 DEF EndReported, FinishBuild, InLoop, TypeInv, TypeOK, AgentTypeOK
  <2>3. e(result) \in UpMsg /\ f(result) \in UpMsg
    BY <2>2, MessageTypes DEF AgentVerdict, Verdict
  <2>4. e(result) \notin M /\ (f(result) \in M => building[a] = r)
    BY DEF Report, Final
  <2>5. building[a] = r => ~ In(uplink[a], M)
    BY DEF OneVerdict, Executed, Reported
  <2> HIDE DEF e, f, M
  <2> DEFINE s == Append(uplink[a], e(result))
  <2>6. s \in Seq(UpMsg) /\ Once(s, M) /\ (In(s, M) <=> In(uplink[a], M))
    BY <1>1, <2>3, <2>4, AppendKeeps, AppendProperties
  <2> HIDE DEF s
  <2>7. /\ Once(Append(s, f(result)), M)
        /\ In(Append(s, f(result)), M) <=> In(s, M) \/ f(result) \in M
    BY <2>3, <2>4, <2>5, <2>6, AppendKeeps
  <2>8. Once(uplink'[a], M) /\ (In(uplink'[a], M) => In(uplink[a], M) \/ building[a] = r)
    BY <2>1, <2>4, <2>6, <2>7 DEF s
  <2> QED BY <2>2, <2>8, RunAssumption DEF Reported, Executed, M
<1> QED BY <1>2, <1>3, <1>4, <1>5, <1>7, <1>8, <1>9, UplinkStep

LEMMA ReceivedStep ==
  ASSUME TypeInv, OneVerdict, [Next]_vars, NEW a \in Agent, NEW r \in Run, Received(a, r)'
  PROVE  /\ Received(a, r) \/ (Reported(a, r) /\ ~ Reported(a, r)')
         /\ ~ CompleteReportedJob(a)
<1>1. CASE chan'[a] = chan[a]
  <2>1. CompleteReportedJob(a) => chan'[a].at = "runtime"
    BY DEF CompleteReportedJob, TypeInv, TypeOK, ProcessTypeOK
  <2> QED BY <1>1, <2>1 DEF Received, Reporting
<1>2. CASE ChanReads(a)
  <2> DEFINE msg == Head(uplink[a])
  <2>1. Once(uplink[a], Final(r)) /\ uplink[a] \in Seq(UpMsg)
    BY WireTypes DEF OneVerdict
  <2>2. /\ uplink[a] # <<>> /\ uplink'[a] = Tail(uplink[a]) /\ msg.kind = "report"
        /\ msg.run = r /\ msg.state = "Completed"
    BY <1>2 DEF ChanReads, HandleReport, CompletesJob, Received, Reporting
  <2>3. msg \in UpMsg
    BY <2>1, <2>2, SeqTypes
  <2>4. msg \in Final(r)
    BY <2>2, <2>3 DEF Final
  <2>5. Reported(a, r) /\ ~ Reported(a, r)'
    BY <2>1, <2>2, <2>4, TailKeeps DEF Reported
  <2>6. ~ CompleteReportedJob(a)
    BY <1>2 DEF ChanReads, CompleteReportedJob
  <2> QED BY <2>5, <2>6
<1> QED BY <1>1, <1>2, ChanStep DEF Received, Reporting

LEMMA OneVerdictStays ==
  ASSUME TypeInv, RunInv, OneVerdict, [Next]_vars
  PROVE  OneVerdict'
<1> SUFFICES ASSUME NEW a \in Agent, NEW r \in Run
             PROVE  /\ Once(downlink'[a], {Build(r)}) /\ Once(uplink'[a], Final(r))
                    /\ Unread(a, r)' => ~ Executed(a, r)' /\ ~ Reported(a, r)' /\ ~ Received(a, r)'
                    /\ Executed(a, r)' => ~ Reported(a, r)' /\ ~ Received(a, r)'
                    /\ Reported(a, r)' => ~ Received(a, r)'
  BY DEF OneVerdict
<1>1. /\ Unread(a, r) => ~ Executed(a, r) /\ ~ Reported(a, r) /\ ~ Received(a, r)
      /\ Executed(a, r) => ~ Reported(a, r) /\ ~ Received(a, r)
      /\ Reported(a, r) => ~ Received(a, r)
  BY DEF OneVerdict
<1>2. OnItsWay(a, r) => Sent(r)
  BY OnItsWaySent DEF SentTo
<1>3. Unread(a, r)' => Unread(a, r) \/ ~ Sent(r)
  BY UnreadStep
<1>4. Executed(a, r)' => Executed(a, r) \/ (Unread(a, r) /\ ~ Unread(a, r)')
  BY ExecutedStep
<1>5. Reported(a, r)' => Reported(a, r) \/ (Executed(a, r) /\ ~ Executed(a, r)')
  BY ReportedStep
<1>6. Received(a, r)' => Received(a, r) \/ (Reported(a, r) /\ ~ Reported(a, r)')
  BY ReceivedStep
<1>7. Once(downlink'[a], {Build(r)}) /\ Once(uplink'[a], Final(r))
  BY UnreadStep, ReportedStep
<1> QED BY <1>1, <1>2, <1>3, <1>4, <1>5, <1>6, <1>7, Zenon DEF OnItsWay

-----------------------------------------------------------------------------
(* No verdict of an agent is written twice: what is on its way belongs to  *)
(* a job that has none yet.                                                *)

\* Whose verdict CompleteReportedJob writes.
LEMMA ReportedWrites ==
  ASSUME TypeInv, RunInv, NEW a \in Agent, CompleteReportedJob(a)
  PROVE  LET r == chan[a].run IN
         /\ r \in Run /\ Received(a, r) /\ chan[a].result \in AgentVerdict
         /\ \/ runJob[r] = NoJob /\ UNCHANGED jobResult
            \/ /\ runJob[r] \in DbJob /\ runJob[r] = sentFor[r]
               /\ jobResult' = [jobResult EXCEPT ![runJob[r]] = chan[a].result]
<1> DEFINE r == chan[a].run
<1>1. /\ r \in Run /\ Received(a, r) /\ chan[a].result \in AgentVerdict /\ Sent(r)
  BY DEF CompleteReportedJob, RunInv, RunsKnown, Reporting, Received, SentTo, Sent
<1>2. CompleteJobOf(r, chan[a].result)
  BY DEF CompleteReportedJob
<1>3. runJob[r] # NoJob => runJob[r] \in DbJob /\ runJob[r] = sentFor[r]
  BY <1>1 DEF RunInv, LinksSound, TypeInv, TypeOK, RunTypeOK
<1> QED BY <1>1, <1>2, <1>3 DEF CompleteJobOf

LEMMA StaysOnItsWay ==
  ASSUME TypeInv, RunInv, OneVerdict, [Next]_vars, NEW a \in Agent, NEW r \in Run,
         OnItsWay(a, r)'
  PROVE  \/ OnItsWay(a, r) /\ (CompleteReportedJob(a) => chan[a].run # r)
         \/ SendBuild /\ r = sched.run
<1>1. OnItsWay(a, r) \/ (SendBuild /\ r = sched.run)
  BY UnreadStep, ExecutedStep, ReportedStep, ReceivedStep DEF OnItsWay
<1>2. ASSUME CompleteReportedJob(a), chan[a].run = r
      PROVE  FALSE
  <2>1. Received(a, r)
    BY <1>2, ReportedWrites
  <2>2. ~ Unread(a, r) /\ ~ Executed(a, r) /\ ~ Reported(a, r)
    BY <2>1 DEF OneVerdict
  <2>3. ~ SendBuild
    BY <1>2 DEF CompleteReportedJob, SendBuild, schedVars, IdleScheduler
  <2>4. ~ Unread(a, r)' /\ ~ Executed(a, r)' /\ ~ Reported(a, r)'
    BY <2>2, <2>3, UnreadStep, ExecutedStep, ReportedStep
  <2>5. ~ Received(a, r)'
    BY <1>2, ReceivedStep
  <2> QED BY <2>4, <2>5 DEF OnItsWay
<1> QED BY <1>1, <1>2

\* The build that is broadcast is the first for its job.
LEMMA FirstForItsJob ==
  ASSUME TypeInv, RunInv, DispatchInv, VerdictInv, SendBuild, runJob[sched.run] # NoJob
  PROVE  jobResult[runJob[sched.run]] \notin AgentVerdict
<1>1. runJob[sched.run] \in DbJob /\ runJob[sched.run] = sched.job
  BY DEF SendBuild, RunInv, RunMatchesDispatch, Dispatching, TypeInv, TypeOK, RunTypeOK,
         ProcessFacts
<1>2. \A r \in Run : sentFor[r] # sched.job
  BY DEF SendBuild, DispatchInv, PickedNotSent
<1> QED BY <1>1, <1>2 DEF VerdictInv, VerdictsOpen

LEMMA SentForStays ==
  ASSUME TypeInv, RunInv, [Next]_vars, NEW r \in Run, Sent(r)
  PROVE  sentFor'[r] = sentFor[r]
<1>1. CASE SendBuild
  <2>1. sched.run # r
    BY <1>1, NotSentYet
  <2> QED BY <1>1, <2>1 DEF SendBuild, TypeInv, TypeOK, RunTypeOK
<1> QED BY <1>1, RunWriters

LEMMA VerdictsStayOpen ==
  ASSUME TypeInv, RunInv, DispatchInv, VerdictInv, [Next]_vars
  PROVE  VerdictsOpen'
<1>1. /\ jobResult \in [DbJob -> Verdict \cup {"Unknown"}]
      /\ runJob \in [Run -> DbJob \cup {NoJob}] /\ NoJob \notin DbJob
  BY JobAssumption DEF TypeInv, TypeOK, JobTypeOK, RunTypeOK, Job
<1>2. ASSUME NEW a \in Agent, NEW r \in Run, OnItsWay(a, r)', runJob'[r] # NoJob
      PROVE  jobResult'[runJob'[r]] \notin AgentVerdict
  <2>1. CASE SendBuild /\ r = sched.run
    <3>1. UNCHANGED <<jobResult, runJob>>
      BY <2>1 DEF SendBuild, jobVars, runVars
    <3> QED BY <1>2, <2>1, <3>1, FirstForItsJob
  <2>2. CASE OnItsWay(a, r) /\ (CompleteReportedJob(a) => chan[a].run # r)
    <3> DEFINE j == runJob[r]
    <3>1. SentTo(r, a) /\ runState[r] # "None"
      BY <2>2, OnItsWaySent DEF RunInv, RunsKnown, Known, SentTo, Sent
    <3>2. runJob'[r] = j
      BY <1>2, <3>1, LinksAdvance
    <3>3. j \in DbJob /\ j = sentFor[r] /\ jobResult[j] \notin AgentVerdict
      BY <1>1, <1>2, <2>2, <3>1, <3>2
         DEF RunInv, LinksSound, SentTo, VerdictInv, VerdictsOpen
    <3>4. CASE UNCHANGED jobResult
      BY <3>2, <3>3, <3>4
    <3>5. CASE CompleteCancelledJob
      <4>1. jobResult'[j] \in {jobResult[j], "Cancelled"}
        BY <1>1, <3>3, <3>5 DEF CompleteCancelledJob, CompleteJobOf
      <4> QED BY <3>2, <3>3, <4>1 DEF AgentVerdict
    <3>6. ASSUME NEW b \in Agent, CompleteReportedJob(b)
          PROVE  jobResult'[j] = jobResult[j]
      <4> DEFINE q == chan[b].run
      <4>1. q \in Run /\ SentTo(q, b)
        BY <3>6, ReportedWrites, OnItsWaySent DEF OnItsWay
      <4>2. q # r
        <5>1. q = r => a = b
          BY <3>1, <4>1 DEF SentTo
        <5> QED BY <2>2, <3>6, <5>1
      <4>3. sentFor[q] # j
        BY <3>1, <3>3, <4>1, <4>2 DEF DispatchInv, AtMostOnceDispatch, SentTo, Sent
      <4> QED BY <1>1, <3>3, <3>6, <4>3, ReportedWrites
    <3> QED BY <3>2, <3>3, <3>4, <3>5, <3>6, JobWriters
  <2> QED BY <1>2, <2>1, <2>2, StaysOnItsWay DEF VerdictInv
<1>3. ASSUME NEW j \in DbJob, jobResult'[j] \in AgentVerdict
      PROVE  \E r \in Run : sentFor'[r] = j
  <2>1. j # NoJob
    BY <1>1
  <2>2. \E r \in Run : sentFor[r] = j
    <3>1. CASE jobResult'[j] = jobResult[j]
      BY <1>3, <3>1 DEF VerdictInv, VerdictsOpen
    <3>2. CASE CompleteCancelledJob /\ jobResult'[j] # jobResult[j]
      <4>1. jobResult'[j] = "Cancelled"
        BY <1>1, <3>2 DEF CompleteCancelledJob, CompleteJobOf
      <4> QED BY <1>3, <4>1 DEF AgentVerdict
    <3>3. ASSUME NEW b \in Agent, CompleteReportedJob(b), jobResult'[j] # jobResult[j]
          PROVE  \E r \in Run : sentFor[r] = j
      BY <1>1, <3>3, ReportedWrites
    <3> QED BY <3>1, <3>2, <3>3, JobWriters
  <2> QED BY <2>1, <2>2, SentForStays DEF Sent
<1> QED BY <1>2, <1>3 DEF VerdictsOpen

LEMMA InitVerdict == Init => VerdictInv
<1> SUFFICES ASSUME Init PROVE VerdictInv
  OBVIOUS
<1>1. \A a \in Agent, r \in Run :
        ~ Unread(a, r) /\ ~ Executed(a, r) /\ ~ Reported(a, r) /\ ~ Received(a, r)
  BY RunAssumption
     DEF Init, Unread, Executed, Reported, Received, Reporting, In, IdleChannel
<1>2. \A a \in Agent, r \in Run : Once(downlink[a], {Build(r)}) /\ Once(uplink[a], Final(r))
  BY DEF Init, Once
<1>3. \A j \in DbJob : jobResult[j] \notin AgentVerdict
  BY DEF Init, AgentVerdict
<1> QED BY <1>1, <1>2, <1>3 DEF VerdictInv, OneVerdict, VerdictsOpen, OnItsWay

ContractInv == TypeInv /\ RunInv /\ DispatchInv /\ VerdictInv

LEMMA InitContract == Init => ContractInv
BY InitType, InitRuns, InitDispatch, InitVerdict DEF ContractInv

LEMMA NextContract == ContractInv /\ [Next]_vars => ContractInv'
BY NextType, NextRuns, NextDispatch, OneVerdictStays, VerdictsStayOpen
   DEF ContractInv, VerdictInv

-----------------------------------------------------------------------------
(* The refinement.                                                         *)

\* Holder and VerdictOf, as functions of the rows.
HolderIn(sent, of, j) ==
  IF \E r \in Run : sent[r] = j THEN of[CHOOSE r \in Run : sent[r] = j] ELSE NoAgent

LEMMA HolderOfRun ==
  ASSUME NEW sent, NEW of, NEW r \in Run, \A q \in Run : sent[q] = sent[r] => q = r
  PROVE  HolderIn(sent, of, sent[r]) = of[r]
<1>1. (CHOOSE q \in Run : sent[q] = sent[r]) = r
  <2> DEFINE P(q) == q \in Run /\ sent[q] = sent[r]
  <2>1. \E q : P(q)
    OBVIOUS
  <2> QED BY <2>1
<1> QED BY <1>1 DEF HolderIn

LEMMA HolderIsIn ==
  /\ Holder = [j \in Job |-> HolderIn(sentFor, runAgent, j)]
  /\ Holder' = [j \in Job |-> HolderIn(sentFor', runAgent', j)]
BY DEF Holder, HolderIn

\* A job keeps its agent.
LEMMA HolderKept ==
  ASSUME ContractInv, ContractInv', [Next]_vars, NEW j \in Job,
         \A r \in Run : sentFor'[r] = j => sentFor[r] = j
  PROVE  HolderIn(sentFor', runAgent', j) = HolderIn(sentFor, runAgent, j)
<1>1. j # NoJob
  BY JobAssumption
<1>2. CASE \E r \in Run : sentFor[r] = j
  <2>1. PICK r \in Run : sentFor[r] = j
    BY <1>2
  <2>2. Sent(r)
    BY <1>1, <2>1 DEF Sent
  <2>3. sentFor'[r] = j /\ runAgent'[r] = runAgent[r]
    BY <2>1, <2>2, SentForStays, SentStays DEF ContractInv, RunInv
  <2>4. \A q \in Run : sentFor[q] = sentFor[r] => q = r
    BY <1>1, <2>1 DEF ContractInv, DispatchInv, AtMostOnceDispatch
  <2>5. \A q \in Run : sentFor'[q] = sentFor'[r] => q = r
    BY <2>1, <2>3, <2>4
  <2>6. HolderIn(sentFor, runAgent, sentFor[r]) = runAgent[r]
    BY <2>4, HolderOfRun
  <2>7. HolderIn(sentFor', runAgent', sentFor'[r]) = runAgent'[r]
    BY <2>5, HolderOfRun
  <2> QED BY <2>1, <2>3, <2>6, <2>7
<1>3. CASE ~ \E r \in Run : sentFor[r] = j
  BY <1>3 DEF HolderIn
<1> QED BY <1>2, <1>3

LEMMA HolderStays ==
  ASSUME ContractInv, ContractInv', [Next]_vars, ~ SendBuild
  PROVE  UNCHANGED Holder
<1>1. UNCHANGED sentFor
  BY RunWriters
<1>2. \A j \in Job : HolderIn(sentFor', runAgent', j) = HolderIn(sentFor, runAgent, j)
  BY <1>1, HolderKept
<1> QED BY <1>2, HolderIsIn, Zenon

LEMMA SendBuildHands ==
  ASSUME ContractInv, ContractInv', [Next]_vars, SendBuild
  PROVE  Contract!Hand(sched.job, sched.agent)
<1> DEFINE k == sched.job
           r == sched.run
<1>1. k \in Job /\ r \in Run /\ sched.agent \in Agent /\ sched.at = "marked" /\ k # NoJob
  BY JobAssumption DEF SendBuild, ContractInv, TypeInv, ProcessFacts
<1>2. sentFor' = [sentFor EXCEPT ![r] = k]
  BY DEF SendBuild
<1>3. sentFor \in [Run -> Job \cup {NoJob}]
  BY DEF ContractInv, TypeInv, TypeOK, RunTypeOK
<1>4. \A q \in Run : sentFor[q] # k
  BY <1>1 DEF ContractInv, DispatchInv, PickedNotSent
<1>5. Holder[k] = NoAgent
  BY <1>1, <1>4 DEF Holder
<1>6. HolderIn(sentFor', runAgent', k) = sched.agent
  <2>1. sentFor'[r] = k /\ \A q \in Run : sentFor'[q] = sentFor'[r] => q = r
    BY <1>1, <1>2, <1>3, <1>4
  <2>2. runAgent'[r] = sched.agent
    BY <1>1 DEF ContractInv, RunInv, RunMatchesDispatch, Dispatching, SendBuild, runVars
  <2>3. HolderIn(sentFor', runAgent', sentFor'[r]) = runAgent'[r]
    BY <1>1, <2>1, HolderOfRun
  <2> QED BY <2>1, <2>2, <2>3
<1>7. ASSUME NEW j \in Job, j # k
      PROVE  HolderIn(sentFor', runAgent', j) = HolderIn(sentFor, runAgent, j)
  <2>1. \A q \in Run : sentFor'[q] = j => sentFor[q] = j
    BY <1>1, <1>2, <1>3, <1>7
  <2> QED BY <2>1, HolderKept
<1>8. Holder' = [Holder EXCEPT ![k] = sched.agent]
  <2> HIDE DEF k
  <2> QED BY <1>1, <1>6, <1>7, HolderIsIn
<1>9. UNCHANGED VerdictOf
  BY DEF SendBuild, jobVars, VerdictOf
<1>10. Matches(k, sched.agent)
  BY <1>1 DEF ContractInv, RunInv, RunMatchesDispatch
<1> QED BY <1>1, <1>5, <1>8, <1>9, <1>10 DEF Contract!Hand

LEMMA VerdictWritten ==
  ASSUME TypeInv, NEW j \in DbJob, NEW v, jobResult' = [jobResult EXCEPT ![j] = v]
  PROVE  j \in Job /\ VerdictOf' = [VerdictOf EXCEPT ![j] = v] /\ VerdictOf[j] = jobResult[j]
<1>1. jobResult \in [DbJob -> Verdict \cup {"Unknown"}] /\ DbJob \subseteq Job
  BY DEF TypeInv, TypeOK, JobTypeOK, Job
<1> QED BY <1>1 DEF VerdictOf

LEMMA ReportConcludes ==
  ASSUME ContractInv, ContractInv', [Next]_vars, NEW a \in Agent, CompleteReportedJob(a)
  PROVE  [Contract!Next]_<<Holder, VerdictOf>>
<1>1. UNCHANGED Holder
  <2>1. ~ SendBuild
    BY DEF CompleteReportedJob, SendBuild, schedVars, IdleScheduler
  <2> QED BY <2>1, HolderStays
<1>2. CASE UNCHANGED jobResult
  BY <1>1, <1>2 DEF VerdictOf
<1>3. CASE ~ UNCHANGED jobResult
  <2> DEFINE r == chan[a].run
             j == runJob[r]
             v == chan[a].result
  <2>1. /\ r \in Run /\ Received(a, r) /\ v \in AgentVerdict /\ j \in DbJob /\ j = sentFor[r]
        /\ jobResult' = [jobResult EXCEPT ![j] = v]
    BY <1>3, ReportedWrites DEF ContractInv
  <2>2. j \in Job /\ VerdictOf' = [VerdictOf EXCEPT ![j] = v] /\ VerdictOf[j] = jobResult[j]
    BY <2>1, VerdictWritten DEF ContractInv
  <2>3. SentTo(r, a) /\ jobResult[j] \in {"Unknown", "Cancelled"}
    <3>1. OnItsWay(a, r) /\ j # NoJob
      BY <2>1, <2>2, JobAssumption DEF OnItsWay
    <3>2. jobResult[j] \notin AgentVerdict
      BY <2>1, <3>1 DEF ContractInv, VerdictInv, VerdictsOpen
    <3> QED BY <2>1, <3>1, <3>2, OnItsWaySent
            DEF ContractInv, TypeInv, TypeOK, JobTypeOK, Verdict, AgentVerdict
  <2>4. Holder[j] = a
    <3>1. \A q \in Run : sentFor[q] = sentFor[r] => q = r
      BY <2>1, <2>3 DEF ContractInv, DispatchInv, AtMostOnceDispatch, SentTo, Sent
    <3>2. HolderIn(sentFor, runAgent, sentFor[r]) = runAgent[r]
      BY <2>1, <3>1, HolderOfRun
    <3> QED BY <2>1, <2>2, <2>3, <3>2, HolderIsIn DEF SentTo
  <2>5. Contract!Conclude(j, v)
    BY <1>1, <2>2, <2>3, <2>4, AgentAssumption DEF Contract!Conclude
  <2> QED BY <2>1, <2>2, <2>5 DEF Contract!Next, AgentVerdict
<1> QED BY <1>2, <1>3

LEMMA CancelGivesUp ==
  ASSUME ContractInv, ContractInv', [Next]_vars, CompleteCancelledJob
  PROVE  [Contract!Next]_<<Holder, VerdictOf>>
<1>1. UNCHANGED Holder
  <2>1. ~ SendBuild
    BY DEF CompleteCancelledJob, SendBuild, schedVars, IdleScheduler
  <2> QED BY <2>1, HolderStays
<1>2. CASE UNCHANGED jobResult
  BY <1>1, <1>2 DEF VerdictOf
<1>3. CASE ~ UNCHANGED jobResult
  <2> DEFINE j == runJob[mon.run]
  <2>1. j \in DbJob /\ jobResult' = [jobResult EXCEPT ![j] = "Cancelled"]
    BY <1>3 DEF CompleteCancelledJob, CompleteJobOf, ContractInv, TypeInv, TypeOK, RunTypeOK,
                ProcessFacts
  <2>2. /\ j \in Job /\ VerdictOf' = [VerdictOf EXCEPT ![j] = "Cancelled"]
        /\ VerdictOf[j] = jobResult[j]
    BY <2>1, VerdictWritten DEF ContractInv
  <2>3. jobResult[j] # "Cancelled"
    BY <1>3, <2>1 DEF ContractInv, TypeInv, TypeOK, JobTypeOK
  <2>4. Contract!GiveUp(j)
    BY <1>1, <2>2, <2>3 DEF Contract!GiveUp
  <2> QED BY <2>2, <2>4 DEF Contract!Next
<1> QED BY <1>2, <1>3

LEMMA StepKeepsContract ==
  ASSUME ContractInv, ContractInv', [Next]_vars
  PROVE  [Contract!Next]_<<Holder, VerdictOf>>
<1>1. CASE SendBuild
  <2>1. sched.job \in Job /\ sched.agent \in Agent
    BY <1>1 DEF SendBuild, ContractInv, TypeInv, ProcessFacts
  <2> QED BY <1>1, <2>1, SendBuildHands DEF Contract!Next
<1>2. CASE ~ SendBuild /\ UNCHANGED jobResult
  BY <1>2, HolderStays DEF VerdictOf
<1> QED BY <1>1, <1>2, ReportConcludes, CancelGivesUp, JobWriters

LEMMA InitKeepsContract == Init => Contract!Init
BY JobAssumption DEF Init, Contract!Init, Holder, VerdictOf

(***************************************************************************)
(* The scheduler, the channels, the monitor, the agents and every fault    *)
(* together keep the contract of JobContract: the broadcast hands the job  *)
(* to its one agent, which may run it; the write after a report concludes  *)
(* it with that agent's verdict, once; the monitor's write gives up on it; *)
(* and no other step changes who holds a job or what became of it.         *)
(***************************************************************************)
THEOREM DispatchKeepsContract == Spec => KeepsContract
<1>1. ContractInv /\ ContractInv' /\ [Next]_vars => [Contract!Next]_<<Holder, VerdictOf>>
  BY StepKeepsContract
<1> QED BY InitContract, NextContract, InitKeepsContract, <1>1, PTL
        DEF Spec, KeepsContract, Contract!Spec, Contract!contractVars

-----------------------------------------------------------------------------
(* Without faults nothing is lost: every active run is somewhere between   *)
(* its broadcast and its last report.                                      *)

LEMMA TailFollows ==
  ASSUME NEW s \in Seq(UpMsg), s # <<>>, NEW b, Follows(s, b)
  PROVE  /\ Follows(Tail(s), b)
         /\ Head(s).kind = "report" /\ Head(s).state # "Completed" =>
              Head(s).run = b \/ In(Tail(s), Final(Head(s).run))
<1>1. PICK n \in Nat : Len(s) = n + 1
  BY EmptySeq, LenProperties
<1> DEFINE t == Tail(s)
<1>2. /\ DOMAIN s = 1..n + 1 /\ Head(s) = s[1] /\ DOMAIN t = 1..n
      /\ \A i \in 1..n : t[i] = s[i + 1]
  BY <1>1, HeadTailProperties, LenProperties
<1>3. /\ \A i \in 1..n : i + 1 \in 1..n + 1
      /\ \A i \in 1..n, k \in 1..n + 1 : k > i + 1 => k - 1 \in 1..n /\ k - 1 > i /\ k = (k - 1) + 1
      /\ 1 \in 1..n + 1
      /\ \A k \in 1..n + 1 : k > 1 => k - 1 \in 1..n /\ k = (k - 1) + 1
  OBVIOUS
<1> HIDE DEF t
<1>4. Follows(t, b)
  <2> SUFFICES ASSUME NEW i \in 1..n, t[i].kind = "report", t[i].state # "Completed", t[i].run # b
               PROVE  \E k \in 1..n : k > i /\ t[k] \in Final(t[i].run)
    BY <1>2 DEF Follows
  <2>1. t[i] = s[i + 1] /\ i + 1 \in 1..n + 1
    BY <1>2, <1>3
  <2>2. PICK k \in 1..n + 1 : k > i + 1 /\ s[k] \in Final(s[i + 1].run)
    BY <1>2, <2>1 DEF Follows
  <2>3. k - 1 \in 1..n /\ k - 1 > i /\ k = (k - 1) + 1
    BY <1>3, <2>2
  <2>4. t[k - 1] = s[k]
    BY <1>2, <2>3
  <2> QED BY <2>1, <2>2, <2>3, <2>4
<1>5. ASSUME Head(s).kind = "report", Head(s).state # "Completed", Head(s).run # b
      PROVE  In(t, Final(Head(s).run))
  <2>1. PICK k \in 1..n + 1 : k > 1 /\ s[k] \in Final(s[1].run)
    BY <1>2, <1>3, <1>5 DEF Follows
  <2>2. k - 1 \in 1..n /\ k = (k - 1) + 1
    BY <1>3, <2>1
  <2>3. t[k - 1] = s[k]
    BY <1>2, <2>2
  <2> QED BY <1>2, <2>1, <2>2, <2>3 DEF In
<1> QED BY <1>4, <1>5 DEF t

\* What is appended is a report of the executed build, or no report, or final.
LEMMA AppendFollows ==
  ASSUME NEW s \in Seq(UpMsg), NEW e \in UpMsg, NEW b, NEW c, Follows(s, b),
         e.kind = "report" /\ e.state # "Completed" => e.run = c,
         b = c \/ e \in Final(b) \/ b = NoRun
  PROVE  Follows(Append(s, e), c)
<1>1. PICK n \in Nat : Len(s) = n
  BY LenProperties
<1> DEFINE t == Append(s, e)
<1>2. /\ DOMAIN s = 1..n /\ DOMAIN t = 1..n + 1 /\ t[n + 1] = e
      /\ \A i \in 1..n : t[i] = s[i] /\ s[i] \in UpMsg
  BY <1>1, AppendProperties, LenProperties, ElementOfSeq
<1>3. /\ \A i \in 1..n + 1 : i \in 1..n \/ i = n + 1
      /\ \A i \in 1..n : n + 1 > i /\ i \in 1..n + 1
      /\ n + 1 \in 1..n + 1
  OBVIOUS
<1> HIDE DEF t
<1> SUFFICES ASSUME NEW i \in 1..n + 1, t[i].kind = "report", t[i].state # "Completed",
                    t[i].run # c
             PROVE  \E k \in 1..n + 1 : k > i /\ t[k] \in Final(t[i].run)
  BY <1>2 DEF Follows, t
<1>4. i \in 1..n /\ t[i] = s[i]
  BY <1>2, <1>3
<1>5. CASE s[i].run = b
  <2>1. s[i].run \in Run
    BY <1>2, <1>4, ReceivedUp
  <2>2. e \in Final(b)
    BY <1>4, <1>5, <2>1, RunAssumption
  <2> QED BY <1>2, <1>3, <1>4, <1>5, <2>2
<1>6. CASE s[i].run # b
  <2>1. PICK k \in 1..n : k > i /\ s[k] \in Final(s[i].run)
    BY <1>2, <1>4, <1>6 DEF Follows
  <2> QED BY <1>2, <1>3, <1>4, <2>1
<1> QED BY <1>5, <1>6

\* A build that begins when none was executed.
LEMMA BeginFollows ==
  ASSUME NEW s \in Seq(UpMsg), Follows(s, NoRun), NEW c
  PROVE  Follows(s, c)
<1>1. \A i \in DOMAIN s : s[i].kind = "report" => s[i].run # NoRun
  BY ElementOfSeq, LenProperties, ReceivedUp, RunAssumption
<1> QED BY <1>1 DEF Follows

LEMMA LinksStayTracked ==
  ASSUME TypeInv, LinksTracked, [Next]_vars, NoFaults'
  PROVE  LinksTracked'
<1>1. /\ ~ SchedulerCrash /\ ~ ServerRestart /\ \A a \in Agent : ~ CutLink(a)
  BY NoFaultYet DEF NoFaults
<1>2. link \in [Agent -> {"up", "cut"}] /\ tracked \in [Agent -> BOOLEAN]
  BY DEF TypeInv, TypeOK, AgentTypeOK
<1>3. ASSUME NEW a \in Agent
      PROVE  /\ tracked'[a] = tracked[a] \/ link'[a] = "up"
             /\ \/ link'[a] = link[a] /\ tracked'[a] = tracked[a]
                \/ link'[a] = "up" /\ tracked'[a]
  <2>1. ~ ChannelTerminate(a)
    BY <1>2 DEF ChannelTerminate, LinksTracked
  <2>2. ASSUME NEW b \in Agent, Connect(b)
        PROVE  \/ link'[a] = link[a] /\ tracked'[a] = tracked[a]
               \/ link'[a] = "up" /\ tracked'[a]
    BY <1>2, <2>2 DEF Connect
  <2>3. ASSUME NEW b \in Agent, ChannelTerminate(b)
        PROVE  FALSE
    BY <2>3 DEF ChannelTerminate, LinksTracked
  <2> QED BY <1>1, <2>2, <2>3, LinkWriters
<1>4. ASSUME NEW a \in Agent
      PROVE  (IF link[a] = "up" THEN tracked[a]
              ELSE ~ tracked[a] /\ uplink[a] = <<>> /\ downlink[a] = <<>> /\ building[a] = NoRun)'
  <2>1. CASE link[a] = "up"
    BY <1>3, <2>1 DEF LinksTracked
  <2>2. CASE link'[a] = "up" /\ link[a] # "up"
    BY <1>3, <2>2
  <2>3. CASE link[a] # "up" /\ link'[a] # "up"
    <3>1. ~ tracked[a] /\ uplink[a] = <<>> /\ downlink[a] = <<>> /\ building[a] = NoRun
      BY <2>3 DEF LinksTracked
    <3>2. ~ StartBuild(a) /\ ~ FinishBuild(a) /\ ~ SendPing(a)
      BY <2>3, <3>1 DEF StartBuild, FinishBuild, SendPing, InLoop
    <3>3. uplink'[a] = <<>>
      BY <1>1, <3>1, <3>2, UplinkStep
         DEF UplinkKept, UplinkRead, UplinkCut, UplinkDropped, PingSent, StartReported, EndReported
    <3>4. downlink'[a] = <<>>
      BY <1>1, <3>1, DownlinkStep
         DEF DownlinkKept, DownlinkRead, DownlinkCut, DownlinkDropped, BuildSent, CancelSent
    <3>5. building'[a] = NoRun
      BY <3>1, <3>2, BuildingStep
    <3> QED BY <1>3, <2>3, <3>1, <3>3, <3>4, <3>5
  <2> QED BY <2>1, <2>2, <2>3
<1>5. sched'.at # "idle" => tracked'[sched'.agent]
  <2>1. ASSUME sched.at # "idle", sched'.agent = sched.agent
        PROVE  tracked'[sched'.agent]
    <3>1. sched.agent \in Agent /\ tracked[sched.agent]
      BY <2>1 DEF LinksTracked, TypeInv, ProcessFacts
    <3> QED BY <1>3, <2>1, <3>1
  <2>2. CASE UNCHANGED sched
    BY <2>1, <2>2
  <2>3. CASE CreateRun \/ AssignJobInstance \/ MarkAgentBuilding
    <3>1. sched.at # "idle" /\ sched'.agent = sched.agent
      BY <2>3 DEF CreateRun, AssignJobInstance, MarkAgentBuilding, TypeInv, TypeOK, ProcessTypeOK
    <3> QED BY <2>1, <3>1
  <2>4. CASE SendBuild
    BY <2>4 DEF SendBuild, IdleScheduler
  <2>5. ASSUME NEW a \in Agent, NEW call \in BOOLEAN, PickJob(a, call)
        PROVE  tracked'[sched'.agent]
    <3>1. tracked[a] /\ sched'.agent = a
      BY <2>5 DEF PickJob, Connected, LinksTracked
    <3> QED BY <1>3, <3>1
  <2> QED BY <1>1, <2>2, <2>3, <2>4, <2>5, ProcessWriters
<1>6. ASSUME NEW a \in Agent
      PROVE  ~ closing'[a]
  <2>1. ASSUME NEW b \in Agent, ChannelTerminate(b) \/ MarkLostContact(b)
        PROVE  FALSE
    BY <2>1 DEF ChannelTerminate, MarkLostContact, LinksTracked
  <2> QED BY <1>1, <2>1, LinkWriters DEF LinksTracked
<1> QED BY <1>4, <1>5, <1>6 DEF LinksTracked

\* What an agent that can be reached reports is on its way.
LEMMA FinishIsReported ==
  ASSUME TypeInv, LinksTracked, NEW a \in Agent, FinishBuild(a)
  PROVE  EndReported(a)
<1>1. link[a] = "up" /\ building[a] \in Run /\ uplink[a] \in Seq(UpMsg)
  BY WireTypes DEF FinishBuild, InLoop, LinksTracked, TypeInv, TypeOK, AgentTypeOK
<1>2. PICK result \in AgentVerdict :
        Transmit(a, <<Report(building[a], "Completing", result),
                      Report(building[a], "Completed", result)>>)
  BY DEF FinishBuild, AgentVerdict
<1> DEFINE m == Report(building[a], "Completing", result)
           f == Report(building[a], "Completed", result)
<1>3. m \in UpMsg /\ f \in UpMsg
  BY <1>1, MessageTypes DEF AgentVerdict, Verdict
<1>4. uplink' = [uplink EXCEPT ![a] = @ \o <<m, f>>]
  BY <1>1, <1>2 DEF Transmit
<1>5. uplink[a] \o <<m, f>> = Append(Append(uplink[a], m), f)
  BY <1>1, <1>3, TwoAppended
<1> HIDE DEF m, f
<1>6. uplink'[a] = Append(Append(uplink[a], m), f)
  BY <1>4, <1>5 DEF TypeInv, TypeOK, AgentTypeOK
<1> QED BY <1>6 DEF EndReported, m, f

LEMMA FollowsStays ==
  ASSUME TypeInv, LinksTracked, [Next]_vars, NoFaults', NEW a \in Agent,
         Follows(uplink[a], building[a])
  PROVE  Follows(uplink'[a], building'[a])
<1>1. uplink[a] \in Seq(UpMsg) /\ ~ CutLink(a) /\ ~ ServerRestart
  BY WireTypes, NoFaultYet DEF NoFaults
<1>2. CASE UplinkRead(a) \/ PingSent(a)
  <2>1. building'[a] = building[a]
    BY <1>2 DEF UplinkRead, PingSent, HandlePing, HandleReport, DropUnmatched, SendPing
  <2>2. CASE UplinkRead(a)
    BY <1>1, <2>1, <2>2, TailFollows DEF UplinkRead
  <2>3. CASE PingSent(a)
    <3>1. Ping \in UpMsg /\ Ping.kind # "report"
      BY MessageTypes DEF Ping
    <3> QED BY <1>1, <2>1, <2>3, <3>1, AppendFollows DEF PingSent
  <2> QED BY <1>2, <2>2, <2>3
<1>3. CASE StartReported(a)
  <2> DEFINE q == Head(downlink[a]).run
             e == Report(q, "Building", "none")
  <2>1. q \in Run
    <3>1. downlink[a] # <<>> /\ downlink[a] \in Seq(DownMsg)
      BY <1>3, WireTypes DEF StartReported, StartBuild
    <3>2. Head(downlink[a]) \in DownMsg
      BY <3>1, SeqTypes
    <3> QED BY <3>2 DEF DownMsg
  <2>2. e \in UpMsg /\ e.run = q
    BY <2>1, MessageTypes DEF Report, Verdict
  <2>3. building[a] = NoRun /\ building'[a] = q
    BY <1>3 DEF StartReported, StartBuild, InLoop, TypeInv, TypeOK, AgentTypeOK
  <2>4. uplink'[a] = Append(uplink[a], e)
    BY <1>3 DEF StartReported
  <2> HIDE DEF q, e
  <2> QED BY <1>1, <2>2, <2>3, <2>4, AppendFollows
<1>4. CASE EndReported(a)
  <2> DEFINE e(result) == Report(building[a], "Completing", result)
             f(result) == Report(building[a], "Completed", result)
  <2>1. PICK result \in AgentVerdict :
          uplink'[a] = Append(Append(uplink[a], e(result)), f(result))
    BY <1>4 DEF EndReported
  <2>2. building[a] \in Run /\ building'[a] = NoRun
    BY <1>4 DEF EndReported, FinishBuild, InLoop, TypeInv, TypeOK, AgentTypeOK
  <2>3. e(result) \in UpMsg /\ f(result) \in UpMsg
    BY <2>2, MessageTypes DEF AgentVerdict, Verdict
  <2>4. /\ e(result).run = building[a] /\ f(result).state = "Completed"
        /\ f(result) \in Final(building[a])
    BY <2>3 DEF Report, Final
  <2> HIDE DEF e, f
  <2> DEFINE s == Append(uplink[a], e(result))
  <2>5. s \in Seq(UpMsg) /\ Follows(s, building[a])
    BY <1>1, <2>3, <2>4, AppendFollows, AppendProperties
  <2> HIDE DEF s
  <2>6. Follows(Append(s, f(result)), NoRun)
    BY <2>3, <2>4, <2>5, AppendFollows
  <2> QED BY <2>1, <2>2, <2>6 DEF s
<1>5. CASE UplinkKept(a)
  <2>1. CASE building'[a] = building[a]
    BY <1>5, <2>1 DEF UplinkKept
  <2>2. CASE building[a] = NoRun
    BY <1>1, <1>5, <2>2, BeginFollows DEF UplinkKept
  <2>3. CASE FinishBuild(a)
    BY <1>4, <2>3, FinishIsReported
  <2> QED BY <2>1, <2>2, <2>3, BuildingStep
<1> QED BY <1>1, <1>2, <1>3, <1>4, <1>5, UplinkStep DEF UplinkCut, UplinkDropped

\* A run stays on its way until its last report has been read.
LEMMA StillOnItsWay ==
  ASSUME TypeInv, LinksTracked, [Next]_vars, NoFaults', NEW a \in Agent, NEW r \in Run,
         Unread(a, r) \/ Executed(a, r) \/ Reported(a, r)
  PROVE  \/ Unread(a, r)' \/ Executed(a, r)' \/ Reported(a, r)'
         \/ runState'[r] = "Completed"
<1>1. /\ ~ CutLink(a) /\ ~ ServerRestart /\ r # NoRun
      /\ uplink[a] \in Seq(UpMsg) /\ downlink[a] \in Seq(DownMsg)
  BY NoFaultYet, RunAssumption, WireTypes DEF NoFaults
<1>2. CASE Unread(a, r)
  <2> DEFINE M == {Build(r)}
  <2>1. In(downlink[a], M)
    BY <1>2 DEF Unread
  <2>2. CASE DownlinkKept(a)
    BY <1>2, <2>2 DEF DownlinkKept, Unread
  <2>3. CASE DownlinkRead(a)
    <3>1. CASE Head(downlink[a]) \in M
      <4>1. Head(downlink[a]).kind = "build" /\ Head(downlink[a]).run = r
        BY <3>1 DEF Build
      <4>2. StartBuild(a)
        BY <2>3, <4>1 DEF DownlinkRead, IgnoreCancel
      <4>3. building'[a] = r
        BY <4>1, <4>2 DEF StartBuild, TypeInv, TypeOK, AgentTypeOK
      <4> QED BY <4>3 DEF Executed
    <3>2. CASE Head(downlink[a]) \notin M
      <4> HIDE DEF M
      <4>1. In(downlink'[a], M)
        BY <1>1, <2>1, <2>3, <3>2, TailKeeps DEF DownlinkRead
      <4> QED BY <4>1 DEF Unread, M
    <3> QED BY <3>1, <3>2
  <2>4. CASE BuildSent(a) \/ CancelSent(a)
    <3>1. PICK e \in DownMsg : downlink'[a] = Append(downlink[a], e)
      <4>1. BuildSent(a) => sched.run \in Run
        BY DEF BuildSent, SendBuild, TypeInv, ProcessFacts
      <4> QED BY <2>4, <4>1, MessageTypes DEF BuildSent, CancelSent
    <3> HIDE DEF M
    <3>2. In(downlink'[a], M)
      BY <1>1, <2>1, <3>1, AppendKeeps
    <3> QED BY <3>2 DEF Unread, M
  <2> QED BY <1>1, <2>2, <2>3, <2>4, DownlinkStep DEF DownlinkCut, DownlinkDropped
<1>3. ASSUME EndReported(a)
      PROVE  Executed(a, r) \/ Reported(a, r) => Reported(a, r)'
  <2> DEFINE M == Final(r)
             e(result) == Report(building[a], "Completing", result)
             f(result) == Report(building[a], "Completed", result)
  <2>1. PICK result \in AgentVerdict :
          uplink'[a] = Append(Append(uplink[a], e(result)), f(result))
    BY <1>3 DEF EndReported
  <2>2. building[a] \in Run
    BY <1>3 DEF EndReported, FinishBuild, InLoop, TypeInv, TypeOK, AgentTypeOK
  <2>3. e(result) \in UpMsg /\ f(result) \in UpMsg
    BY <2>2, MessageTypes DEF AgentVerdict, Verdict
  <2>4. building[a] = r => f(result) \in M
    BY <2>3 DEF Report, Final
  <2> HIDE DEF e, f, M
  <2> DEFINE s == Append(uplink[a], e(result))
  <2>5. s \in Seq(UpMsg) /\ (In(uplink[a], M) => In(s, M))
    BY <1>1, <2>3, AppendKeeps, AppendProperties
  <2> HIDE DEF s
  <2>6. In(s, M) \/ f(result) \in M => In(Append(s, f(result)), M)
    BY <2>3, <2>5, AppendKeeps
  <2>7. In(uplink[a], M) \/ building[a] = r => In(uplink'[a], M)
    BY <2>1, <2>4, <2>5, <2>6 DEF s
  <2> QED BY <2>7 DEF Reported, Executed, M
<1>4. CASE Executed(a, r)
  BY <1>1, <1>3, <1>4, FinishIsReported, BuildingStep DEF Executed
<1>5. CASE Reported(a, r)
  <2> DEFINE M == Final(r)
  <2>1. In(uplink[a], M)
    BY <1>5 DEF Reported
  <2>2. CASE UplinkKept(a)
    BY <1>5, <2>2 DEF UplinkKept, Reported
  <2>3. CASE UplinkRead(a)
    <3>1. ~ DropUnmatched(a)
      BY DEF DropUnmatched, LinksTracked
    <3>2. CASE Head(uplink[a]) \in M
      <4>1. /\ Head(uplink[a]).kind = "report" /\ Head(uplink[a]).run = r
            /\ Head(uplink[a]).state = "Completed"
        BY <3>2 DEF Final
      <4>2. HandleReport(a)
        BY <2>3, <3>1, <4>1 DEF UplinkRead, HandlePing
      <4> QED BY <4>1, <4>2 DEF HandleReport, UpdateRun, TypeInv, TypeOK, RunTypeOK
    <3>3. CASE Head(uplink[a]) \notin M
      <4> HIDE DEF M
      <4>1. In(uplink'[a], M)
        BY <1>1, <2>1, <2>3, <3>3, TailKeeps DEF UplinkRead
      <4> QED BY <4>1 DEF Reported, M
    <3> QED BY <3>2, <3>3
  <2>4. CASE PingSent(a) \/ StartReported(a)
    <3>1. PICK e \in UpMsg : uplink'[a] = Append(uplink[a], e)
      <4>1. ASSUME StartReported(a)
            PROVE  Head(downlink[a]).run \in Run
        <5>1. downlink[a] # <<>>
          BY <4>1 DEF StartReported, StartBuild
        <5>2. Head(downlink[a]) \in DownMsg
          BY <1>1, <5>1, SeqTypes
        <5> QED BY <5>2 DEF DownMsg
      <4>2. StartReported(a) => Report(Head(downlink[a]).run, "Building", "none") \in UpMsg
        BY <4>1, MessageTypes DEF Verdict
      <4> QED BY <2>4, <4>2, MessageTypes DEF PingSent, StartReported
    <3> HIDE DEF M
    <3>2. In(uplink'[a], M)
      BY <1>1, <2>1, <3>1, AppendKeeps
    <3> QED BY <3>2 DEF Reported, M
  <2>5. CASE EndReported(a)
    BY <1>3, <1>5, <2>5
  <2> QED BY <1>1, <2>2, <2>3, <2>4, <2>5, UplinkStep DEF UplinkCut, UplinkDropped
<1> QED BY <1>2, <1>4, <1>5

\* A report that wakes a run up is not the last one of its agent.
LEMMA RewrittenIsFollowed ==
  ASSUME TypeInv, RunInv, LinksTracked, [Next]_vars, NoFaults',
         NEW b \in Agent, HandleReport(b), NEW r \in Run, r = Head(uplink[b]).run,
         Head(uplink[b]).state # "Completed", Follows(uplink[b], building[b])
  PROVE  SentTo(r, b) /\ (Executed(b, r)' \/ Reported(b, r)')
<1> DEFINE msg == Head(uplink[b])
<1>1. /\ uplink[b] # <<>> /\ msg.kind = "report" /\ uplink[b] \in Seq(UpMsg)
      /\ uplink'[b] = Tail(uplink[b]) /\ building'[b] = building[b]
  BY WireTypes DEF HandleReport, TypeInv, TypeOK, AgentTypeOK
<1>2. msg \in UpOf(b)
  BY <1>1, SeqTypes DEF RunInv, RunsKnown
<1>3. r = building[b] \/ In(Tail(uplink[b]), Final(r))
  BY <1>1, TailFollows
<1> QED BY <1>1, <1>2, <1>3 DEF UpOf, Executed, Reported

LEMMA BuildOnItsWay ==
  ASSUME TypeInv, RunInv, LinksTracked, SendBuild, NEW r, r = sched.run, NEW a,
         runAgent'[r] = a
  PROVE  a \in Agent /\ Unread(a, r)'
<1>1. r \in Run /\ sched.agent = a /\ a \in Agent /\ tracked[a] /\ link[a] = "up"
  BY DEF SendBuild, runVars, RunInv, RunMatchesDispatch, Dispatching, LinksTracked, TypeInv,
         ProcessFacts
<1> DEFINE e == Build(r)
<1>2. e \in DownMsg /\ downlink[a] \in Seq(DownMsg)
  BY <1>1, MessageTypes, WireTypes
<1>3. downlink' = [downlink EXCEPT ![a] = Append(@, e)]
  BY <1>1 DEF SendBuild, Deliver
<1> HIDE DEF e
<1>4. downlink'[a] = Append(downlink[a], e)
  BY <1>1, <1>3 DEF TypeInv, TypeOK, AgentTypeOK
<1>5. In(downlink'[a], {e})
  BY <1>2, <1>4, AppendKeeps
<1> QED BY <1>1, <1>5 DEF Unread, e

LEMMA ReportsStillFollow ==
  ASSUME TypeInv, RunInv, LinksTracked, ReportsFollow, [Next]_vars, NoFaults'
  PROVE  ReportsFollow'
<1>1. ~ SchedulerCrash /\ ~ ServerRestart
  BY NoFaultYet DEF NoFaults
<1>2. \A r \in Run : Known(r)' => Sent(r)'
  <2>1. ASSUME NEW r \in Run, Known(r), Known(r)'
        PROVE  Sent(r)'
    BY <2>1, SentStays DEF ReportsFollow, RunInv
  <2>2. ASSUME SendBuild, NEW r \in Run, r = sched.run
        PROVE  Sent(r)'
    BY <2>2, JobAssumption
       DEF SendBuild, Sent, TypeInv, TypeOK, RunTypeOK, ProcessFacts
  <2> QED BY <1>1, <2>1, <2>2, BecomesKnown
<1>3. ASSUME NEW r \in Run, NEW a \in Agent, Known(r)', runState'[r] \in ActiveStates,
             runAgent'[r] = a
      PROVE  Unread(a, r)' \/ Executed(a, r)' \/ Reported(a, r)'
  <2>1. CASE ~ Known(r)
    <3>1. SendBuild /\ r = sched.run
      BY <1>1, <1>3, <2>1, BecomesKnown
    <3> QED BY <1>3, <3>1, BuildOnItsWay
  <2>2. CASE Known(r)
    <3>1. runAgent[r] = a /\ runState[r] # "None"
      BY <1>3, <2>2, SentStays DEF ReportsFollow, RunInv, Known
    <3>2. CASE runState[r] \in ActiveStates
      <4>1. Unread(a, r) \/ Executed(a, r) \/ Reported(a, r)
        BY <2>2, <3>1, <3>2 DEF ReportsFollow
      <4>2. runState'[r] # "Completed"
        BY <1>3 DEF ActiveStates
      <4> QED BY <4>1, <4>2, StillOnItsWay
    <3>3. CASE runState[r] \notin ActiveStates
      <4>1. ~ UNCHANGED runState /\ ~ CreateRun /\ ~ ReportCancelled
        BY <1>3, <3>1, <3>3 DEF CreateRun, ReportCancelled, UpdateRun, TypeInv, TypeOK,
                                RunTypeOK, ActiveStates
      <4>2. PICK b \in Agent : HandleReport(b)
        BY <4>1, RunWriters
      <4>3. Head(uplink[b]).run = r /\ Head(uplink[b]).state # "Completed"
        BY <1>3, <3>3, <4>2 DEF HandleReport, UpdateRun, TypeInv, TypeOK, RunTypeOK, ActiveStates
      <4>4. SentTo(r, b) /\ (Executed(b, r)' \/ Reported(b, r)')
        BY <4>2, <4>3, RewrittenIsFollowed DEF ReportsFollow
      <4> QED BY <3>1, <4>4 DEF SentTo
    <3> QED BY <3>2, <3>3
  <2> QED BY <2>1, <2>2
<1>4. \A a \in Agent : Follows(uplink'[a], building'[a])
  BY FollowsStays DEF ReportsFollow
<1> QED BY <1>2, <1>3, <1>4 DEF ReportsFollow

LEMMA NextQuiet == TypeInv /\ RunInv /\ QuietInv /\ [Next]_vars => QuietInv'
<1> SUFFICES ASSUME TypeInv, RunInv, QuietInv, [Next]_vars, NoFaults'
             PROVE  LinksTracked' /\ ReportsFollow'
  BY DEF QuietInv
<1>1. NoFaults
  BY NoFaultYet DEF NoFaults
<1> QED BY <1>1, LinksStayTracked, ReportsStillFollow DEF QuietInv

LEMMA InitQuiet == Init => QuietInv
<1> SUFFICES ASSUME Init PROVE LinksTracked /\ ReportsFollow
  BY DEF QuietInv
<1>1. LinksTracked
  BY DEF Init, LinksTracked, IdleScheduler
<1>2. ReportsFollow
  BY DEF Init, ReportsFollow, Follows, Known
<1> QED BY <1>1, <1>2

LEMMA QuietAgentIsDone == TypeInv /\ QuietInv => QuiescentAgentHasNoRun
<1> SUFFICES ASSUME TypeInv, QuietInv, NoFaults, NEW a \in Agent, Quiescent(a), NEW r \in Run,
                    runAgent[r] = a, runState[r] \in ActiveStates, r # sched.run
             PROVE  FALSE
  BY DEF QuiescentAgentHasNoRun, NoFaults
<1>1. Known(r)
  BY DEF Known, ActiveStates
<1>2. Unread(a, r) \/ Executed(a, r) \/ Reported(a, r)
  BY <1>1 DEF QuietInv, ReportsFollow
<1> QED BY <1>2, RunAssumption DEF Quiescent, InLoop, Unread, Executed, Reported, In

(***************************************************************************)
(* As long as nothing broke, an agent in its event loop with nothing on    *)
(* its way has no unfinished run: every build that was broadcast for it    *)
(* was read and executed, its reports were read in the order in which they *)
(* were sent, and the run was completed by the last of them even if it was *)
(* cancelled meanwhile.                                                    *)
(***************************************************************************)
THEOREM QuiescentAgentsAreDone == Spec => []QuiescentAgentHasNoRun
<1>1. Init => TypeInv /\ RunInv /\ QuietInv
  BY InitType, InitRuns, InitQuiet
<1>2. TypeInv /\ RunInv /\ QuietInv /\ [Next]_vars => (TypeInv /\ RunInv /\ QuietInv)'
  BY NextType, NextRuns, NextQuiet
<1> QED BY <1>1, <1>2, QuietAgentIsDone, PTL DEF Spec
=============================================================================
