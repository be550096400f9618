---------------------------- MODULE JobDispatch ----------------------------
(***************************************************************************)
(* How a scheduled job reaches an agent, and how its verdict comes back.   *)
(*                                                                         *)
(* Five kinds of process share the database rows:                          *)
(*   - the Scheduler GenServer        (lib/ex_gocd/scheduler.ex)           *)
(*   - one AgentChannel per agent     (lib/ex_gocd_web/channels/...)       *)
(*   - the ConsoleActivityMonitor     (lib/ex_gocd/pipelines/...)          *)
(*   - the Go agents                  (agent/internal/agent/agent.go)      *)
(*   - callers that insert or delete job instances                         *)
(* Every database write is a step of its own, so the handlers of the five  *)
(* interleave the way the processes do.  Nothing is transactional here.    *)
(***************************************************************************)
EXTENDS Naturals, Sequences

CONSTANTS
  Agent,               \* agents, identified by uuid
  DbJob,               \* job instance rows; their ids order the database plans
  MemJob,              \* job specs without a job instance ("sched-N" entries)
  Run,                 \* build ids that may be drawn; bounds the runs created
  NoAgent, NoJob, NoRun,
  AgentResources,      \* resources of each agent
  AgentEnvironments,   \* environments of each agent
  JobResources,        \* resources each job asks for
  JobEnvironments,     \* environments of each job's pipeline
  PinnedAgent,         \* the agent a job names, or NoAgent
  NeverTimeout,        \* job instances whose console timeout is "never"
  MaxDeletions,        \* bound on deletions of job instances
  MaxUplink,           \* bound on the messages an agent has in flight
  MaxCuts,             \* bound on lost connections
  MaxSchedulerCrashes, \* bound on crashes of the scheduler process
  MaxRestarts,         \* bound on restarts of the whole server
  MaxServerFaults      \* bound on both together

Job == DbJob \cup MemJob

ASSUME JobAssumption ==
  /\ DbJob \subseteq Nat
  /\ DbJob \cap MemJob = {}
  /\ NoJob \notin Job
  /\ PinnedAgent \in [Job -> Agent \cup {NoAgent}]
  /\ NeverTimeout \subseteq DbJob

ASSUME AgentAssumption == NoAgent \notin Agent

ASSUME RunAssumption == NoRun \notin Run

ASSUME BoundAssumption ==
  /\ MaxDeletions \in Nat
  /\ MaxUplink \in Nat
  /\ MaxCuts \in Nat
  /\ MaxSchedulerCrashes \in Nat
  /\ MaxRestarts \in Nat
  /\ MaxServerFaults \in Nat

VARIABLES
  jobState, jobResult, jobAgent,          \* job_instances rows
  memQueue, enqueued,                     \* Scheduler.in_memory_queue, ids used
  runState, runResult, runAgent, runJob,  \* agent_job_runs rows
  agentState,                             \* agents.state
  tracked,                                \* the agent's channel process lives
  closing,                                \* an earlier one is in its terminate
  link,                                   \* the WebSocket, as the network sees it
  uplink, downlink,                       \* messages in flight, per agent
  building,                               \* the build handleBuild is executing
  chan,                                   \* progress of the channel's handler
  inbox, sched,                           \* Scheduler mailbox and progress
  scan, mon,                              \* the monitor's snapshot and progress
  sentFor,                                \* history: the job a build was sent for
  deletions, cuts, crashes, restarts      \* counters for the bounds

jobVars   == <<jobState, jobResult, jobAgent>>
queueVars == <<memQueue, enqueued>>
runVars   == <<runState, runResult, runAgent, runJob>>
presence  == <<tracked, closing>>
wireVars  == <<link, uplink, downlink>>
schedVars == <<inbox, sched>>
monVars   == <<scan, mon>>
faultVars == <<deletions, cuts, crashes, restarts>>

vars == <<jobVars, queueVars, runVars, agentState, presence, wireVars, building,
          chan, schedVars, monVars, sentFor, faultVars>>

-----------------------------------------------------------------------------
(* Messages.  A Go agent pings from its event loop only, where its         *)
(* runtimeStatus is "Idle"; its reports are sent from inside handleBuild,  *)
(* where it is "Building".                                                 *)

Verdict == {"Passed", "Failed", "Cancelled"}

Ping == [kind |-> "ping", run |-> NoRun, state |-> "none", result |-> "none"]

Report(r, state, result) ==
  [kind |-> "report", run |-> r, state |-> state, result |-> result]

Build(r)  == [kind |-> "build", run |-> r]
Cancel(r) == [kind |-> "cancelBuild", run |-> r]

UpMsg ==
  {Ping} \cup
  [kind: {"report"}, run: Run,
   state: {"Building", "Completing", "Completed"}, result: Verdict \cup {"none"}]

DownMsg == [kind: {"build", "cancelBuild"}, run: Run]

ActiveStates == {"Assigned", "Building", "Completing"}

IdleChannel   == [at |-> "idle", run |-> NoRun, result |-> "none"]
IdleScheduler ==
  [at |-> "idle", agent |-> NoAgent, job |-> NoJob, run |-> NoRun, call |-> FALSE]
IdleMonitor   == [at |-> "idle", run |-> NoRun]

Init ==
  /\ jobState  = [j \in DbJob |-> "None"]
  /\ jobResult = [j \in DbJob |-> "Unknown"]
  /\ jobAgent  = [j \in DbJob |-> NoAgent]
  /\ memQueue  = <<>>
  /\ enqueued  = {}
  /\ runState  = [r \in Run |-> "None"]
  /\ runResult = [r \in Run |-> "none"]
  /\ runAgent  = [r \in Run |-> NoAgent]
  /\ runJob    = [r \in Run |-> NoJob]
  /\ agentState = [a \in Agent |-> "Idle"]
  /\ tracked   = [a \in Agent |-> FALSE]
  /\ closing   = [a \in Agent |-> FALSE]
  /\ link      = [a \in Agent |-> "cut"]
  /\ uplink    = [a \in Agent |-> <<>>]
  /\ downlink  = [a \in Agent |-> <<>>]
  /\ building  = [a \in Agent |-> NoRun]
  /\ chan      = [a \in Agent |-> IdleChannel]
  /\ inbox     = {}
  /\ sched     = IdleScheduler
  /\ scan      = {}
  /\ mon       = IdleMonitor
  /\ sentFor   = [r \in Run |-> NoJob]
  /\ deletions = 0 /\ cuts = 0 /\ crashes = 0 /\ restarts = 0

-----------------------------------------------------------------------------
(* Matching: the first plan the agent may run, in-memory entries first.    *)

Connected == {a \in Agent : tracked[a] \/ closing[a]}

ScheduledJobs == {j \in DbJob : jobState[j] = "Scheduled"}

EnvironmentsMatch(j, a) ==
  IF AgentEnvironments[a] = {}
  THEN JobEnvironments[j] = {}
  ELSE JobEnvironments[j] \cap AgentEnvironments[a] # {}

Matches(j, a) ==
  IF PinnedAgent[j] # NoAgent
  THEN PinnedAgent[j] = a
  ELSE JobResources[j] \subseteq AgentResources[a] /\ EnvironmentsMatch(j, a)

\* Mutant: the entries of the queue are not matched.
FirstQueued(j, a) == memQueue # <<>> /\ memQueue[1] = j

FirstInMemory(j, a) ==
  \E i \in DOMAIN memQueue :
    /\ memQueue[i] = j
    /\ Matches(j, a)
    /\ \A k \in DOMAIN memQueue : k < i => ~ Matches(memQueue[k], a)

FirstInDatabase(j, a) ==
  /\ j \in ScheduledJobs
  /\ Matches(j, a)
  /\ \A i \in DOMAIN memQueue : ~ Matches(memQueue[i], a)
  /\ \A k \in ScheduledJobs : Matches(k, a) => j <= k

FirstMatch(j, a) == FirstInMemory(j, a) \/ FirstInDatabase(j, a)

-----------------------------------------------------------------------------
(* Callers of the server                                                   *)

\* A trigger, a next stage or a rerun inserts a Scheduled job instance.
InsertJobInstance(j) ==
  /\ jobState[j] = "None"
  /\ jobState' = [jobState EXCEPT ![j] = "Scheduled"]
  /\ UNCHANGED <<jobResult, jobAgent, queueVars, runVars, agentState, presence,
                 wireVars, building, chan, schedVars, monVars, sentFor, faultVars>>

\* schedule_job without a job_instance_id: the spec is kept in memory only.
ScheduleInMemory(j) ==
  /\ sched.at = "idle"
  /\ j \notin enqueued
  /\ enqueued' = enqueued \cup {j}
  /\ memQueue' = Append(memQueue, j)
  /\ inbox' = inbox \cup Connected
  /\ UNCHANGED <<jobVars, runVars, agentState, presence, wireVars, building,
                 chan, sched, monVars, sentFor, faultVars>>

\* Deleting a pipeline cascades to its job instances; runs lose their link.
DeleteJobInstance(j) ==
  /\ deletions < MaxDeletions
  /\ jobState[j] \notin {"None", "Deleted"}
  /\ deletions' = deletions + 1
  /\ jobState' = [jobState EXCEPT ![j] = "Deleted"]
  /\ runJob' = [r \in Run |-> IF runJob[r] = j THEN NoJob ELSE runJob[r]]
  /\ UNCHANGED <<jobResult, jobAgent, queueVars, runState, runResult, runAgent,
                 agentState, presence, wireVars, building, chan, schedVars,
                 monVars, sentFor, cuts, crashes, restarts>>

-----------------------------------------------------------------------------
(* Scheduler                                                               *)

\* The :reload_jobs timer, and schedule_job with a job_instance_id: both only
\* send the scheduler one assignment message per connected agent.
TriggerAssignment ==
  /\ sched.at = "idle"
  /\ inbox' = inbox \cup Connected
  /\ inbox' # inbox
  /\ UNCHANGED <<jobVars, queueVars, runVars, agentState, presence, wireVars,
                 building, chan, sched, monVars, sentFor, faultVars>>

\* A request is a message in the mailbox (call = FALSE) or the call of a channel
\* that waits for the reply (call = TRUE).
Requested(a, call) == IF call THEN chan[a].at = "call" ELSE a \in inbox

Reply(a, call) == IF call THEN [chan EXCEPT ![a] = IdleChannel] ELSE chan

\* Bound on the runs ever created.
NoRunLeft == \A r \in Run : runState[r] # "None"

\* Not connected, not Idle, or nothing matches: the scheduler does nothing.
SkipRequest(a, call) ==
  /\ sched.at = "idle"
  /\ Requested(a, call)
  /\ \/ a \notin Connected
     \/ agentState[a] # "Idle"
     \/ \A j \in Job : ~ FirstMatch(j, a)
     \/ NoRunLeft
  /\ inbox' = IF call THEN inbox ELSE inbox \ {a}
  /\ chan' = Reply(a, call)
  /\ UNCHANGED <<jobVars, queueVars, runVars, agentState, presence, wireVars,
                 building, sched, monVars, sentFor, faultVars>>

\* Reads the agent row and the plans, and settles on one job.
PickJob(a, call) ==
  /\ sched.at = "idle"
  /\ Requested(a, call)
  /\ a \in Connected /\ ~ NoRunLeft
  /\ agentState[a] = "Idle"
  /\ \E j \in Job :
       /\ FirstMatch(j, a)
       /\ sched' = [at |-> "picked", agent |-> a, job |-> j, run |-> NoRun,
                    call |-> call]
  /\ inbox' = IF call THEN inbox ELSE inbox \ {a}
  /\ UNCHANGED <<jobVars, queueVars, runVars, agentState, presence, wireVars,
                 building, chan, monVars, sentFor, faultVars>>

\* Mutants: the run is not linked to its job instance; the build is delivered
\* before the job instance is assigned.
CreateUnlinkedRun ==
  /\ sched.at = "picked"
  /\ \E r \in Run :
       /\ runState[r] = "None"
       /\ runState' = [runState EXCEPT ![r] = "Assigned"]
       /\ runAgent' = [runAgent EXCEPT ![r] = sched.agent]
       /\ sched' = [sched EXCEPT !.at = "created", !.run = r]
  /\ UNCHANGED <<jobVars, queueVars, runResult, runJob, agentState, presence,
                 wireVars, building, chan, inbox, monVars, sentFor, faultVars>>

\* AgentJobRuns.create_run: links the run if the job instance still exists.
CreateAndDeliverRun ==
  /\ sched.at = "picked"
  /\ \E r \in Run :
       /\ runState[r] = "None"
       /\ runState' = [runState EXCEPT ![r] = "Assigned"]
       /\ runAgent' = [runAgent EXCEPT ![r] = sched.agent]
       /\ runJob' = [runJob EXCEPT ![r] = IF sched.job \in DbJob THEN sched.job ELSE NoJob]
       /\ downlink' = [downlink EXCEPT ![sched.agent] = Append(@, Build(r))]
       /\ sched' = [sched EXCEPT !.at = "created", !.run = r]
  /\ UNCHANGED <<jobVars, queueVars, runResult, agentState, presence, link, uplink,
                 building, chan, inbox, monVars, sentFor, faultVars>>

CreateRun ==
  /\ sched.at = "picked"
  /\ \E r \in Run :
       /\ runState[r] = "None"
       /\ runState' = [runState EXCEPT ![r] = "Assigned"]
       /\ runAgent' = [runAgent EXCEPT ![r] = sched.agent]
       /\ runJob' = [runJob EXCEPT ![r] =
            IF sched.job \in DbJob /\ jobState[sched.job] # "Deleted"
            THEN sched.job ELSE NoJob]
       /\ sched' = [sched EXCEPT !.at = "created", !.run = r]
  /\ UNCHANGED <<jobVars, queueVars, runResult, agentState, presence, wireVars,
                 building, chan, inbox, monVars, sentFor, faultVars>>

\* Mutant: the job instance gets its agent and stays Scheduled.
AssignAgentOnly ==
  /\ sched.at = "created"
  /\ IF sched.job \in DbJob /\ jobState[sched.job] # "Deleted"
     THEN jobAgent' = [jobAgent EXCEPT ![sched.job] = sched.agent]
     ELSE UNCHANGED jobAgent
  /\ sched' = [sched EXCEPT !.at = "linked"]
  /\ UNCHANGED <<jobState, jobResult, queueVars, runVars, agentState, presence,
                 wireVars, building, chan, inbox, monVars, sentFor, faultVars>>

\* Pipelines.assign_job_instance, for a job that has a row: whatever state the
\* row is in by now, it becomes Assigned.
AssignJobInstance ==
  /\ sched.at = "created"
  /\ IF sched.job \in DbJob /\ jobState[sched.job] # "Deleted"
     THEN /\ jobState' = [jobState EXCEPT ![sched.job] = "Assigned"]
          /\ jobAgent' = [jobAgent EXCEPT ![sched.job] = sched.agent]
     ELSE UNCHANGED <<jobState, jobAgent>>
  /\ sched' = [sched EXCEPT !.at = "linked"]
  /\ UNCHANGED <<jobResult, queueVars, runVars, agentState, presence, wireVars,
                 building, chan, inbox, monVars, sentFor, faultVars>>

\* Agents.update_agent_runtime_state(agent_uuid, "Building")
MarkAgentBuilding ==
  /\ sched.at = "linked"
  /\ agentState' = [agentState EXCEPT ![sched.agent] = "Building"]
  /\ sched' = [sched EXCEPT !.at = "marked"]
  /\ UNCHANGED <<jobVars, queueVars, runVars, presence, wireVars, building, chan,
                 inbox, monVars, sentFor, faultVars>>

\* A broadcast reaches the agent's socket only through a live channel process.
Deliver(a, msg) ==
  IF tracked[a] /\ link[a] = "up"
  THEN downlink' = [downlink EXCEPT ![a] = Append(@, msg)]
  ELSE UNCHANGED downlink

\* reject_if_in_memory: every entry has an id of its own.
Dequeue(j) ==
  \/ /\ \A i \in DOMAIN memQueue : memQueue[i] # j
     /\ UNCHANGED memQueue
  \/ \E i \in DOMAIN memQueue :
       /\ memQueue[i] = j
       /\ memQueue' = SubSeq(memQueue, 1, i - 1) \o SubSeq(memQueue, i + 1, Len(memQueue))

\* The build is broadcast, the in-memory entry dropped and the caller answered.
SendBuild ==
  /\ sched.at = "marked"
  /\ Deliver(sched.agent, Build(sched.run))
  /\ sentFor' = [sentFor EXCEPT ![sched.run] = sched.job]
  /\ Dequeue(sched.job)
  /\ chan' = Reply(sched.agent, sched.call)
  /\ sched' = IdleScheduler
  /\ UNCHANGED <<jobVars, enqueued, runVars, agentState, presence, link, uplink,
                 building, inbox, monVars, faultVars>>

\* clear_queue drops the queue and deletes every Scheduled job instance.
ClearQueue ==
  /\ deletions < MaxDeletions
  /\ sched.at = "idle"
  /\ deletions' = deletions + 1
  /\ memQueue # <<>> \/ ScheduledJobs # {}
  /\ memQueue' = <<>>
  /\ jobState' = [j \in DbJob |->
       IF jobState[j] = "Scheduled" THEN "Deleted" ELSE jobState[j]]
  /\ runJob' = [r \in Run |->
       IF runJob[r] \in ScheduledJobs THEN NoJob ELSE runJob[r]]
  /\ UNCHANGED <<jobResult, jobAgent, enqueued, runState, runResult, runAgent,
                 agentState, presence, wireVars, building, chan, schedVars,
                 monVars, sentFor, cuts, crashes, restarts>>

-----------------------------------------------------------------------------
(* Agent channel                                                           *)

\* Mutant: the heartbeat does not touch the agent row.
HandlePingWithoutTouch(a) ==
  /\ tracked[a] /\ chan[a].at = "idle"
  /\ uplink[a] # <<>> /\ Head(uplink[a]).kind = "ping"
  /\ uplink' = [uplink EXCEPT ![a] = Tail(@)]
  /\ chan' = [chan EXCEPT ![a] = [IdleChannel EXCEPT !.at = "call"]]
  /\ UNCHANGED <<jobVars, queueVars, runVars, agentState, presence, link, downlink,
                 building, schedVars, monVars, sentFor, faultVars>>

\* "ping": touch_agent_on_heartbeat writes the reported status, then the
\* handler calls the scheduler and waits for the reply.
HandlePing(a) ==
  /\ tracked[a] /\ chan[a].at = "idle"
  /\ uplink[a] # <<>> /\ Head(uplink[a]).kind = "ping"
  /\ uplink' = [uplink EXCEPT ![a] = Tail(@)]
  /\ agentState' = [agentState EXCEPT ![a] = "Idle"]
  /\ chan' = [chan EXCEPT ![a] = [IdleChannel EXCEPT !.at = "call"]]
  /\ UNCHANGED <<jobVars, queueVars, runVars, presence, link, downlink, building,
                 schedVars, monVars, sentFor, faultVars>>

\* report_status overwrites the run, whatever state it is in.
UpdateRun(r, state, result) ==
  /\ runState' = [runState EXCEPT ![r] = state]
  /\ runResult' = [runResult EXCEPT ![r] = IF result = "none" THEN @ ELSE result]

\* report_status goes on to the job instance of a run completed with a result.
CompletesJob(r, state, result) ==
  runJob[r] # NoJob /\ state = "Completed" /\ result # "none"

HandleReport(a) ==
  /\ tracked[a] /\ chan[a].at = "idle"
  /\ uplink[a] # <<>>
  /\ LET msg == Head(uplink[a]) IN
       /\ msg.kind = "report"
       /\ UpdateRun(msg.run, msg.state, msg.result)
       /\ chan' = [chan EXCEPT ![a] =
            [at |-> IF CompletesJob(msg.run, msg.state, msg.result)
                    THEN "complete" ELSE "runtime",
             run |-> msg.run, result |-> msg.result]]
  /\ uplink' = [uplink EXCEPT ![a] = Tail(@)]
  /\ UNCHANGED <<jobVars, queueVars, runAgent, runJob, agentState, presence, link,
                 downlink, building, schedVars, monVars, sentFor, faultVars>>

\* Pipelines.complete_job_instance: the row, if it is still there, is
\* overwritten.
CompleteJobOf(r, result) ==
  LET j == runJob[r] IN
  IF j = NoJob
  THEN UNCHANGED <<jobState, jobResult>>
  ELSE /\ jobState' = [jobState EXCEPT ![j] = "Completed"]
       /\ jobResult' = [jobResult EXCEPT ![j] = result]

CompleteReportedJob(a) ==
  /\ chan[a].at = "complete"
  /\ CompleteJobOf(chan[a].run, chan[a].result)
  /\ chan' = [chan EXCEPT ![a].at = "runtime"]
  /\ UNCHANGED <<jobAgent, queueVars, runVars, agentState, presence, wireVars,
                 building, schedVars, monVars, sentFor, faultVars>>

\* Mutant: a report without runtimeStatus is written all the same.
FinishReportWithoutStatus(a) ==
  /\ chan[a].at = "runtime"
  /\ agentState' = [agentState EXCEPT ![a] = "none"]
  /\ chan' = [chan EXCEPT ![a] = IdleChannel]
  /\ UNCHANGED <<jobVars, queueVars, runVars, presence, wireVars, building,
                 schedVars, monVars, sentFor, faultVars>>

\* update_agent_runtime_state with the runtimeStatus of the report.
FinishReport(a) ==
  /\ chan[a].at = "runtime"
  /\ agentState' = [agentState EXCEPT ![a] = "Building"]
  /\ chan' = [chan EXCEPT ![a] = IdleChannel]
  /\ UNCHANGED <<jobVars, queueVars, runVars, presence, wireVars, building,
                 schedVars, monVars, sentFor, faultVars>>

\* terminate: the socket is gone and the presence list is read.  A process that
\* finds no other channel of the agent there, not even one in its own
\* terminate, goes on to mark the agent; any other one just exits.
ChannelTerminate(a) ==
  /\ tracked[a] /\ chan[a].at = "idle"
  /\ link[a] = "cut" /\ uplink[a] = <<>>
  /\ tracked' = [tracked EXCEPT ![a] = FALSE]
  /\ closing' = [closing EXCEPT ![a] = TRUE]
  /\ UNCHANGED <<jobVars, queueVars, runVars, agentState, wireVars, building, chan,
                 schedVars, monVars, sentFor, faultVars>>

\* Agents.mark_lost_contact, though the agent may have joined again meanwhile.
\* The process exits, and Presence forgets it.
MarkLostContact(a) ==
  /\ closing[a]
  /\ agentState' = [agentState EXCEPT ![a] = "LostContact"]
  /\ closing' = [closing EXCEPT ![a] = FALSE]
  /\ UNCHANGED <<jobVars, queueVars, runVars, tracked, wireVars, building, chan,
                 schedVars, monVars, sentFor, faultVars>>

\* Messages for a topic nobody joined are answered with an error and dropped.
DropUnmatched(a) ==
  /\ ~ tracked[a] /\ uplink[a] # <<>>
  /\ uplink' = [uplink EXCEPT ![a] = Tail(@)]
  /\ UNCHANGED <<jobVars, queueVars, runVars, agentState, presence, link,
                 downlink, building, chan, schedVars, monVars, sentFor, faultVars>>

-----------------------------------------------------------------------------
(* Go agent: one event loop, which runs a build to its end before it       *)
(* reads the next message.                                                 *)

InLoop(a) == building[a] = NoRun

\* What is sent on a lost connection stays in its buffer and is lost.
Transmit(a, msgs) ==
  IF link[a] = "up"
  THEN uplink' = [uplink EXCEPT ![a] = @ \o msgs]
  ELSE UNCHANGED uplink

HasRoom(a) == Len(uplink[a]) < MaxUplink

SendPing(a) ==
  /\ InLoop(a) /\ link[a] = "up" /\ HasRoom(a)
  /\ Transmit(a, <<Ping>>)
  /\ UNCHANGED <<jobVars, queueVars, runVars, agentState, presence, link, downlink,
                 building, chan, schedVars, monVars, sentFor, faultVars>>

\* "build": handleBuild starts and reports Building.
StartBuild(a) ==
  /\ InLoop(a) /\ HasRoom(a)
  /\ downlink[a] # <<>> /\ Head(downlink[a]).kind = "build"
  /\ LET r == Head(downlink[a]).run IN
       /\ building' = [building EXCEPT ![a] = r]
       /\ Transmit(a, <<Report(r, "Building", "none")>>)
  /\ downlink' = [downlink EXCEPT ![a] = Tail(@)]
  /\ UNCHANGED <<jobVars, queueVars, runVars, agentState, presence, link, chan,
                 schedVars, monVars, sentFor, faultVars>>

\* Mutant: the last two reports are swapped.
FinishBuildSwapped(a) ==
  /\ ~ InLoop(a) /\ HasRoom(a)
  /\ \E result \in {"Passed", "Failed"} :
       Transmit(a, <<Report(building[a], "Completed", result),
                     Report(building[a], "Completing", result)>>)
  /\ building' = [building EXCEPT ![a] = NoRun]
  /\ UNCHANGED <<jobVars, queueVars, runVars, agentState, presence, link, downlink,
                 chan, schedVars, monVars, sentFor, faultVars>>

\* The command ended: handleBuild reports Completing and Completed.  A
\* cancelBuild that arrived meanwhile is still unread, so it cannot have
\* cancelled the build.
FinishBuild(a) ==
  /\ ~ InLoop(a) /\ HasRoom(a)
  /\ \E result \in {"Passed", "Failed"} :
       Transmit(a, <<Report(building[a], "Completing", result),
                     Report(building[a], "Completed", result)>>)
  /\ building' = [building EXCEPT ![a] = NoRun]
  /\ UNCHANGED <<jobVars, queueVars, runVars, agentState, presence, link, downlink,
                 chan, schedVars, monVars, sentFor, faultVars>>

\* "cancelBuild" is read in the event loop, where no build is current.
IgnoreCancel(a) ==
  /\ InLoop(a)
  /\ downlink[a] # <<>> /\ Head(downlink[a]).kind = "cancelBuild"
  /\ downlink' = [downlink EXCEPT ![a] = Tail(@)]
  /\ UNCHANGED <<jobVars, queueVars, runVars, agentState, presence, link, uplink,
                 building, chan, schedVars, monVars, sentFor, faultVars>>

\* Mutant: an agent that lost contact is not let in again.
ConnectUnlessLost(a) ==
  /\ InLoop(a) /\ link[a] = "cut" /\ downlink[a] = <<>> /\ chan[a].at = "idle"
  /\ agentState[a] # "LostContact"
  /\ link' = [link EXCEPT ![a] = "up"]
  /\ tracked' = [tracked EXCEPT ![a] = TRUE]
  /\ UNCHANGED <<jobVars, queueVars, runVars, agentState, closing, uplink,
                 downlink, building, chan, schedVars, monVars, sentFor, faultVars>>

\* The event loop drained the closed connection, dialled again and joined.  The
\* join payload carries no runtimeStatus, so the agent row keeps its state.  A
\* channel process of the old connection is past its current message by then
\* (the agent waits two seconds before it dials).  If its terminate has not read
\* the presence list yet it will find the new channel there and mark nothing; if
\* it has, MarkLostContact is still to come.
Connect(a) ==
  /\ InLoop(a) /\ link[a] = "cut" /\ downlink[a] = <<>> /\ chan[a].at = "idle"
  /\ link' = [link EXCEPT ![a] = "up"]
  /\ tracked' = [tracked EXCEPT ![a] = TRUE]
  /\ UNCHANGED <<jobVars, queueVars, runVars, agentState, closing, uplink,
                 downlink, building, chan, schedVars, monVars, sentFor, faultVars>>

-----------------------------------------------------------------------------
(* Console activity monitor                                                *)

\* Mutant: runs that are still Assigned are not scanned.
QuietStartedRuns ==
  {r \in Run : /\ runState[r] \in ActiveStates \ {"Assigned"}
               /\ runJob[r] \notin NeverTimeout
               /\ r # sched.run}

\* Active runs whose row may have been left alone for longer than its timeout.
\* The run the scheduler is dispatching was inserted a moment ago.
QuietRuns ==
  {r \in Run : /\ runState[r] \in ActiveStates
               /\ runJob[r] \notin NeverTimeout
               /\ r # sched.run}

\* check_active_runs reads the candidates once ...
ScanRuns ==
  /\ mon.at = "idle" /\ scan = {}
  /\ scan' \in SUBSET QuietRuns \ {{}}
  /\ UNCHANGED <<jobVars, queueVars, runVars, agentState, presence, wireVars,
                 building, chan, schedVars, mon, sentFor, faultVars>>

\* ... and treats them one by one, without looking at their state again:
\* cancelBuild is broadcast,
CancelRun(r) ==
  /\ mon.at = "idle" /\ r \in scan
  /\ scan' = scan \ {r}
  /\ Deliver(runAgent[r], Cancel(r))
  /\ mon' = [at |-> "report", run |-> r]
  /\ UNCHANGED <<jobVars, queueVars, runVars, agentState, presence, link, uplink,
                 building, chan, schedVars, sentFor, faultVars>>

\* the run becomes Completed/Cancelled,
ReportCancelled ==
  /\ mon.at = "report"
  /\ UpdateRun(mon.run, "Completed", "Cancelled")
  /\ mon' = IF CompletesJob(mon.run, "Completed", "Cancelled")
            THEN [mon EXCEPT !.at = "complete"] ELSE IdleMonitor
  /\ UNCHANGED <<jobVars, queueVars, runAgent, runJob, agentState, presence,
                 wireVars, building, chan, schedVars, scan, sentFor, faultVars>>

\* and so does its job instance.
CompleteCancelledJob ==
  /\ mon.at = "complete"
  /\ CompleteJobOf(mon.run, "Cancelled")
  /\ mon' = IdleMonitor
  /\ UNCHANGED <<jobAgent, queueVars, runVars, agentState, presence, wireVars,
                 building, chan, schedVars, scan, sentFor, faultVars>>

-----------------------------------------------------------------------------
(* Faults                                                                  *)

\* The network drops a connection.  What either side had already received is
\* still handled, the rest of what was on its way is lost.
CutLink(a) ==
  /\ cuts < MaxCuts
  /\ link[a] = "up"
  /\ cuts' = cuts + 1
  /\ link' = [link EXCEPT ![a] = "cut"]
  /\ \E n \in 0..Len(uplink[a]) : uplink' = [uplink EXCEPT ![a] = SubSeq(@, 1, n)]
  /\ \E n \in 0..Len(downlink[a]) :
       downlink' = [downlink EXCEPT ![a] = SubSeq(@, 1, n)]
  /\ UNCHANGED <<jobVars, queueVars, runVars, agentState, presence, building, chan,
                 schedVars, monVars, sentFor, deletions, crashes, restarts>>

\* The scheduler raises (a database error) in the middle of assign_and_send and
\* is restarted with an empty queue.  Channels waiting for its reply exit with
\* it, and run their terminate, while the agent's WebSocket stays open.
SchedulerCrash ==
  /\ crashes < MaxSchedulerCrashes /\ crashes + restarts < MaxServerFaults
  /\ sched.at # "idle"
  /\ crashes' = crashes + 1
  /\ sched' = IdleScheduler
  /\ inbox' = {}
  /\ memQueue' = <<>>
  /\ LET dying == {a \in Agent : chan[a].at = "call"} IN
       /\ tracked' = [a \in Agent |-> tracked[a] /\ a \notin dying]
       /\ closing' = [a \in Agent |-> closing[a] \/ a \in dying]
       /\ chan' = [a \in Agent |-> IF a \in dying THEN IdleChannel ELSE chan[a]]
  /\ UNCHANGED <<jobVars, enqueued, runVars, agentState, wireVars, building,
                 monVars, sentFor, deletions, cuts, restarts>>

\* The server stops and starts again: every process and every connection is
\* gone, the rows remain.
ServerRestart ==
  /\ restarts < MaxRestarts /\ crashes + restarts < MaxServerFaults
  /\ restarts' = restarts + 1
  /\ sched' = IdleScheduler /\ inbox' = {} /\ memQueue' = <<>>
  /\ scan' = {} /\ mon' = IdleMonitor
  /\ chan' = [a \in Agent |-> IdleChannel]
  /\ tracked' = [a \in Agent |-> FALSE]
  /\ closing' = [a \in Agent |-> FALSE]
  /\ link' = [a \in Agent |-> "cut"]
  /\ uplink' = [a \in Agent |-> <<>>]
  /\ downlink' = [a \in Agent |-> <<>>]
  /\ UNCHANGED <<jobVars, enqueued, runVars, agentState, building, sentFor,
                 deletions, cuts, crashes>>

-----------------------------------------------------------------------------
CallerStep ==
  \/ \E j \in DbJob : InsertJobInstance(j) \/ DeleteJobInstance(j)
  \/ \E j \in MemJob : ScheduleInMemory(j)

SchedulerStep ==
  \/ TriggerAssignment
  \/ \E a \in Agent, call \in BOOLEAN : SkipRequest(a, call) \/ PickJob(a, call)
  \/ CreateRun \/ AssignJobInstance \/ MarkAgentBuilding \/ SendBuild
  \/ ClearQueue

ChannelStep(a) ==
  \/ HandlePing(a) \/ HandleReport(a) \/ CompleteReportedJob(a) \/ FinishReport(a)
  \/ ChannelTerminate(a) \/ MarkLostContact(a) \/ DropUnmatched(a)

AgentStep(a) ==
  \/ SendPing(a) \/ StartBuild(a) \/ FinishBuild(a) \/ IgnoreCancel(a)
  \/ Connect(a)

MonitorStep ==
  \/ ScanRuns
  \/ \E r \in Run : CancelRun(r)
  \/ ReportCancelled \/ CompleteCancelledJob

FaultStep ==
  \/ \E a \in Agent : CutLink(a)
  \/ SchedulerCrash \/ ServerRestart

Next ==
  \/ CallerStep
  \/ SchedulerStep
  \/ \E a \in Agent : ChannelStep(a) \/ AgentStep(a)
  \/ MonitorStep
  \/ FaultStep

Spec == Init /\ [][Next]_vars

-----------------------------------------------------------------------------
(* Type invariant                                                          *)

JobTypeOK ==
  /\ jobState \in [DbJob -> {"None", "Scheduled", "Assigned", "Completed", "Deleted"}]
  /\ jobResult \in [DbJob -> Verdict \cup {"Unknown"}]
  /\ jobAgent \in [DbJob -> Agent \cup {NoAgent}]
  /\ memQueue \in Seq(MemJob)
  /\ enqueued \subseteq MemJob

RunTypeOK ==
  /\ runState \in [Run -> {"None", "Assigned", "Building", "Completing", "Completed"}]
  /\ runResult \in [Run -> Verdict \cup {"none"}]
  /\ runAgent \in [Run -> Agent \cup {NoAgent}]
  /\ runJob \in [Run -> DbJob \cup {NoJob}]
  /\ sentFor \in [Run -> Job \cup {NoJob}]

AgentTypeOK ==
  /\ agentState \in [Agent -> {"Idle", "Building", "LostContact"}]
  /\ tracked \in [Agent -> BOOLEAN]
  /\ closing \in [Agent -> BOOLEAN]
  /\ link \in [Agent -> {"up", "cut"}]
  /\ uplink \in [Agent -> Seq(UpMsg)]
  /\ downlink \in [Agent -> Seq(DownMsg)]
  /\ building \in [Agent -> Run \cup {NoRun}]

ProcessTypeOK ==
  /\ chan \in [Agent -> [at: {"idle", "call", "complete", "runtime"},
                         run: Run \cup {NoRun}, result: Verdict \cup {"none"}]]
  /\ inbox \subseteq Agent
  /\ sched \in [at: {"idle", "picked", "created", "linked", "marked"},
                agent: Agent \cup {NoAgent}, job: Job \cup {NoJob},
                run: Run \cup {NoRun}, call: BOOLEAN]
  /\ scan \subseteq Run
  /\ mon \in [at: {"idle", "report", "complete"}, run: Run \cup {NoRun}]
  /\ deletions \in 0..MaxDeletions
  /\ cuts \in 0..MaxCuts
  /\ crashes \in 0..MaxSchedulerCrashes
  /\ restarts \in 0..MaxRestarts

\* Every variable holds a value the rows, messages and processes can have.
TypeOK == JobTypeOK /\ RunTypeOK /\ AgentTypeOK /\ ProcessTypeOK

-----------------------------------------------------------------------------
(* Safety                                                                  *)

(***************************************************************************)
(* A job is sent to an agent at most once.  Two builds are never broadcast *)
(* for the same job, although create_run, assign_job_instance and the      *)
(* broadcast are three separate writes, the scheduler may crash between    *)
(* any two of them, and any connected agent may ask for work meanwhile.    *)
(***************************************************************************)
AtMostOnceDispatch ==
  \A r1, r2 \in Run : sentFor[r1] = sentFor[r2] /\ sentFor[r1] # NoJob => r1 = r2

(***************************************************************************)
(* A job instance that is Assigned can still end: some run linked to it is *)
(* active, so a report or the monitor will complete it, or the process     *)
(* that completed the run is about to complete the job.  Only a restart    *)
(* between those two writes strands a job.                                 *)
(***************************************************************************)
Completing(r) ==
  \/ \E a \in Agent : chan[a].at = "complete" /\ chan[a].run = r
  \/ mon.at = "complete" /\ mon.run = r

NoStrandedJob ==
  restarts = 0 =>
    \A j \in DbJob : jobState[j] = "Assigned" =>
      \E r \in Run : /\ runJob[r] = j
                     /\ runState[r] \in ActiveStates \/ Completing(r)

(***************************************************************************)
(* As long as no connection was lost, an agent that sits in its event loop *)
(* with nothing on its way in either direction has no unfinished run among *)
(* the builds sent to it: no report was lost, reordered or undone.         *)
(***************************************************************************)
Quiescent(a) ==
  /\ tracked[a] /\ InLoop(a)
  /\ uplink[a] = <<>> /\ downlink[a] = <<>> /\ chan[a].at = "idle"

QuiescentAgentHasNoRun ==
  cuts = 0 /\ crashes = 0 /\ restarts = 0 =>
    \A a \in Agent : Quiescent(a) =>
      \A r \in Run : runAgent[r] = a /\ runState[r] \in ActiveStates => r = sched.run

(***************************************************************************)
(* A completed job instance goes back to Assigned only after a scheduler   *)
(* crash or a server restart, when the run of the interrupted dispatch was *)
(* cancelled while the job was being dispatched again.                     *)
(***************************************************************************)
CompletedJobNotReopened ==
  [][crashes = 0 /\ restarts = 0 =>
       \A j \in DbJob :
         jobState[j] = "Completed" => jobState'[j] \in {"Completed", "Deleted"}]_jobState

(***************************************************************************)
(* A run that was cancelled for inactivity stays Cancelled, as the         *)
(* monitor's moduledoc says.  It does not: an agent's late report is       *)
(* written over it.                                                        *)
(***************************************************************************)
CancelledRunStaysCancelled ==
  [][\A r \in Run : runState[r] = "Completed" /\ runResult[r] = "Cancelled"
                      => runState'[r] = "Completed" /\ runResult'[r] = "Cancelled"]_runVars

-----------------------------------------------------------------------------
(* Refinement                                                              *)

Holder == [j \in Job |->
  IF \E r \in Run : sentFor[r] = j
  THEN runAgent[CHOOSE r \in Run : sentFor[r] = j] ELSE NoAgent]

\* An in-memory spec has no job instance to record a verdict in.
VerdictOf == [j \in Job |-> IF j \in DbJob THEN jobResult[j] ELSE "Unknown"]

Contract == INSTANCE JobContract WITH
  Eligible <- {p \in Job \X Agent : Matches(p[1], p[2])},
  holder <- Holder,
  verdict <- VerdictOf

(***************************************************************************)
(* The five kinds of process together keep the contract: one eligible      *)
(* agent per job, and one verdict of that agent.                           *)
(***************************************************************************)
KeepsContract == Contract!Spec

-----------------------------------------------------------------------------
(* Liveness.  The BEAM schedules every process and delivers mailboxes in   *)
(* order, timers fire, Go's select picks among ready cases at random, and  *)
(* builds end; nobody has to trigger pipelines or break connections.       *)

Fairness ==
  /\ WF_vars(TriggerAssignment)
  /\ \A a \in Agent, call \in BOOLEAN :
       SF_vars(SkipRequest(a, call) \/ PickJob(a, call))
  /\ WF_vars(CreateRun \/ AssignJobInstance \/ MarkAgentBuilding \/ SendBuild)
  /\ \A a \in Agent :
       /\ WF_vars(ChannelStep(a)) /\ WF_vars(MarkLostContact(a))
       /\ SF_vars(SendPing(a))
       /\ SF_vars(StartBuild(a))
       /\ WF_vars(FinishBuild(a) \/ IgnoreCancel(a) \/ Connect(a))
  /\ \A r \in Run : SF_vars(ScanRuns /\ r \in scan') /\ WF_vars(CancelRun(r))
  /\ WF_vars(ReportCancelled \/ CompleteCancelledJob)

FairSpec == Spec /\ Fairness

(***************************************************************************)
(* A Scheduled job instance that some agent may run does not wait forever, *)
(* although agents lose their connection and pings race with assignments:  *)
(* it is dispatched or deleted, unless the agent is orphaned.              *)
(***************************************************************************)
Orphaned(a) == link[a] = "up" /\ ~ tracked[a]

ScheduledJobsDispatched ==
  \A j \in DbJob, a \in Agent :
    jobState[j] = "Scheduled" /\ Matches(j, a)
      ~> jobState[j] # "Scheduled" \/ Orphaned(a)

(***************************************************************************)
(* An Assigned job instance reaches a verdict or is deleted, whatever was  *)
(* lost on the way: the build, the agent or its reports.                   *)
(***************************************************************************)
AssignedJobsEnd ==
  \A j \in DbJob :
    jobState[j] = "Assigned" ~> jobState[j] \in {"Completed", "Deleted"}

(***************************************************************************)
(* An agent that the server shows as LostContact is shown otherwise again, *)
(* although the terminate of an earlier channel may write LostContact over *)
(* a new join.  Lost for good is only an agent whose channel died while    *)
(* its connection stayed up.                                               *)
(***************************************************************************)
LostAgentRecovers ==
  \A a \in Agent :
    agentState[a] = "LostContact"
      ~> agentState[a] # "LostContact" \/ Orphaned(a)

(***************************************************************************)
(* "Automatic reconnection": an agent the server has no channel for gets   *)
(* one again, as the comments of the agent's loop say.  It does not: the   *)
(* agent logs that its channel was closed, and goes on.                    *)
(***************************************************************************)
AgentComesBack == \A a \in Agent : ~ tracked[a] ~> tracked[a]

=============================================================================
