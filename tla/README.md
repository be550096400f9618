# ex_gocd in TLA+

ex_gocd is a continuous-delivery server in Elixir (Phoenix, Ecto, Postgres) with
a build agent in Go. Pipelines run stages, stages run jobs, jobs are matched to
agents, agents execute them and report back over a WebSocket. This directory
holds TLA+ models of that behaviour, the TLC configurations that check them, and
TLAPS proofs.

Almost everything that is hard to get right here has one cause: several
processes read and write the same rows, and hardly anything is a transaction.
The models are therefore written at the grain of a database write: a handler that
makes four writes is four actions, and any other process may act between two of
them; a read is a step of its own where what was read is used later. Reading a
row and updating that same row are one action.

## The system

| Part | Code (`src/`) | State | Operations |
|---|---|---|---|
| Scheduler | `lib/ex_gocd/scheduler.ex` | in-memory queue; mailbox; reads Scheduled job rows | schedule a job, match plans to an idle agent, assign and send, clear the queue, reload timer |
| Agent channel | `lib/ex_gocd_web/channels/agent_channel.ex` | one process per connection; presence list | join, ping, three reports, push `build` and `cancelBuild`, terminate |
| Job runs | `lib/ex_gocd/agent_job_runs.ex` | `agent_job_runs` rows | create, report status, append console |
| Agents | `lib/ex_gocd/agents.ex` | `agents` rows | heartbeat, runtime state, lost contact, register, enable, disable, delete, resources |
| Console activity monitor | `lib/ex_gocd/pipelines/console_activity_monitor.ex` | none between scans | scan active runs, cancel quiet ones |
| Pipelines | `lib/ex_gocd/pipelines.ex` | pipeline, stage and job instances; `paused`, `locked` | trigger, rerun, complete a job, complete a stage, next stage, downstreams, pause, unlock, delete |
| Go agent: start | `agent/cmd/root.go`, `agent/internal/config/`, `agent/internal/registration/` | five files: uuid, CA, token, key, certificate | read the configuration, identify, trust, get a token, register, retry |
| Go agent: builds | `agent/internal/agent/agent.go` | the event loop; the current build, its command tree, its process, temporary archives | ping, build, report, cancel, reconnect; exec, export, upload, fetch |
| Go connection | `agent/internal/websocket/connection.go` | two goroutines, two channels of ten | connect, send, receive, close |
| Material poller, fan-in resolver, cycle detector | `lib/ex_gocd/materials/`, `lib/ex_gocd/pipelines/` | modifications, material revisions | poll and trigger; check revisions; check the graph |
| Artifact cleanup, environments, agent registry | `lib/ex_gocd/` | `artifacts_deleted`; environment membership | purge; move a pipeline; send a test job |
| Pages, JSON APIs, accounts, mock data, test agents | `lib/ex_gocd_web/`, `lib/ex_gocd/` | none of their own | call the parts above |

How they interact:

* the scheduler and the monitor reach an agent by a PubSub broadcast to the
  topic of its channel; no channel, no delivery, and nobody is told;
* the channel of an idle agent *calls* the scheduler and waits for its answer,
  so it dies with it;
* a completed job is written by whoever received the verdict, an agent's channel
  or the monitor; that same process completes the stage, inserts the next stage,
  locks the pipeline or triggers the downstream pipelines;
* pages trigger and rerun concurrently with all of that;
* an agent exits when its start fails, for whatever launches it to try again; all
  it takes from one start to the next are its files, and the only thing a build
  takes from the one before it are the files in its directory;
* presence (who has a live channel) and the agent's row (what it said last) are
  two views of the agent, and the scheduler believes both.

What makes each part correct: a job is sent to one agent that may run it and
never again; an assigned job can always still end; every run ends; a stage
completes exactly when its jobs are done, with the verdict they give; stages run
in order; a lock admits one instance; at most one run of a stage is the latest;
a connection that is lost comes back; a cancelled run stays cancelled; an agent
keeps its identity whenever it dies; its commands run in order, each after the one
before it has succeeded, and a build that has passed has done them all. Some of
these are false, which the runs named as violations show.

`PROJECT.json` lists every hazard found while reading the code, at its line, with
the properties that watch it.

## Modules

    JobContract         what the server promises about a job, in two variables
    JobDispatch         scheduler, channels, runs, monitor, Go agents, faults
    JobDispatchProofs   type correctness and at-most-once dispatch, by TLAPS
    JobContractProofs   the refinement and the other safety properties, by TLAPS
    MCJobDispatch       instances for TLC
    StageProgress       completion, next stage, lock, downstream, trigger, rerun
    StageProgressProofs everything its runs check except liveness, by TLAPS
    MCStageProgress     instances for TLC
    AgentConnection     event loop, goroutines and channels of one Go agent
    AgentConnectionProofs everything its runs check except liveness, by TLAPS
    AgentStartup        how the process of a Go agent comes up and registers
    AgentBuild          what its event loop does with a build
    AgentProcess        the two composed, and the death of the process
    AgentStartupProofs, AgentBuildProofs, AgentProcessProofs   their theorems
    MCAgentProcess      an instance for TLC
    MaterialFlow        poller, fan-in check, triggers across pipelines
    MaterialFlowProofs  everything its runs check except liveness, by TLAPS
    MCMaterialFlow      an instance for TLC

Operators on lines marked `Mutant:` are plausible bugs. No specification uses
them; replacing the definition after them by them makes a property fail, which
shows that the property depends on the code.

### JobDispatch

State: `jobState/jobResult/jobAgent` are `job_instances` rows,
`runState/runResult/runAgent/runJob` are `agent_job_runs` rows, `agentState` is
`agents.state`; `memQueue` is the scheduler's queue; `tracked[a]` says that a
channel process of the agent lives and is in the presence list; `link[a]` is the
connection and `uplink/downlink` what is on its way; `closing[a]` says that an
earlier channel of the agent is still inside its `terminate`; `building[a]` is the
build the agent's event loop is inside of. `chan`, `sched` and `mon` say how far a
handler has come, `inbox` which assignment messages the scheduler has not read,
`scan` which runs the monitor has read and not treated yet. `sentFor` is a
history variable.

| Action | Code |
|---|---|
| `PickJob`, `SkipRequest` | `try_assign_work` and `:assign_work_to_agent` up to the match |
| `CreateRun`, `AssignJobInstance`, `MarkAgentBuilding`, `SendBuild` | the four writes of `assign_and_send`, in order |
| `HandlePing` | `handle_in("ping")`: the heartbeat write, then the call of the scheduler |
| `HandleReport`, `CompleteReportedJob`, `FinishReport` | `handle_agent_report`: run, job, agent |
| `ScanRuns`, `CancelRun`, `ReportCancelled`, `CompleteCancelledJob` | `check_active_runs` |
| `SendPing`, `StartBuild`, `FinishBuild`, `IgnoreCancel`, `Connect` | the event loop of the Go agent |
| `ChannelTerminate`, `MarkLostContact` | `terminate` of the channel: it looks at the presence list, then writes LostContact |
| `DropUnmatched` | what Phoenix does with a message that no channel is there for |
| `CutLink`, `SchedulerCrash`, `ServerRestart` | faults |

Two facts of the Go agent shape the model. It has one event loop, and a build
runs inside it, so a `cancelBuild` is read after the build has ended: it has no
effect (`IgnoreCancel`). And its pings come from the loop, so they always say
Idle: an Idle ping sent just before a build arrives makes a busy agent look
free.

The connection and the channel end independently. A new connection may join while
the channel of the old one is between its look at the presence list and its write,
so that an agent that is back is marked as lost. And the channel may die alone, with
a scheduler it is waiting for; the agent then goes on pinging a topic nobody listens
to (`Orphaned`).

`JobContract` is the promise: one eligible agent per job, and one verdict of that
agent, which the server may override with Cancelled and be overridden by.
`KeepsContract` is the refinement: the agent a job was handed to is the agent of
the run that was broadcast for it, the verdict is the result in its row.

### StageProgress

One pipeline. `stage` and `job` hold the rows by pipeline counter, stage and stage
counter. A worker is a process inside `complete_job_instance`: it has loaded the
job and its stage (`Load`), writes the job (`CompleteJob`), reads all jobs of the
stage back (`ReadJobs`), writes the stage (`CompleteStage`, a changeset against
the stage as loaded: a result that has not changed is not written), and then
inserts the next stage (`TriggerNextStage`, or `NextStageExists` when the unique
index refuses it), locks the pipeline or triggers the downstream pipeline. A user
is a page process inside `trigger_pipeline` (`CheckTrigger`, `ReadCounter`,
`InsertRun`) or `rerun_stage` (`ReadLatestRun`, `MarkNotLatest`, `InsertRun`).
The scheduler and the agents appear as `AssignJob` and `ReportVerdict`, one
verdict per job, and the monitor as `PickQuietJob` and `CancelQuietJob`. A rerun takes
any jobs of its stage that somebody may name (`Selections`), but at least one.

Left out: whether the materials of a trigger agree (MaterialFlow; a trigger that
is refused changes nothing), `paused` and the lock of the downstream pipeline (its trigger
always succeeds), deletion of rows, and pipelines with no stages or no jobs.

### AgentConnection

JobDispatch takes the connection for an ordered link that may lose its end. This
module opens it up. `at`, `build`, `todo`, `tick` and `stop` are the event loop:
where it is, the build it executes, the messages it is about to send, the ticker
and the cancelled context. `reader`, `unread` and `writer` are `readPump` and
`writePump`; `sendQ` and `recvQ` the two channels with their capacities; `done`
the channel that `Close` closes; `link` and `wire` the network; `joined` says that the
server has read the join of this connection, before which it pushes nothing.

| Action | Code |
|---|---|
| `Connect` | `Connect` and the join of `runWithConnection` |
| `Tick`, `SendPing`, `ReadNotice`, `StartBuild`, `FinishBuild`, `LoseConnection`, `StopLoop` | the cases of the `select` and `handleBuild` |
| `Send` | `Send`: into the channel, or an error once `done` is closed |
| `Read`, `Deliver`, `ReaderStops`, `ReadFails`, `ReadDeadlinePasses` | `readPump` |
| `Write`, `WriteFails`, `WriterStops` | `writePump` |
| `SendBuild`, `SendNotice` | what the channel of the server pushes |
| `Break`, `NoticeReset`, `CancelContext` | a lost connection, TCP noticing it, the signal handler |

Assumed about time and network: a heartbeat interval (ten seconds) passes only
while the loop is inside a build or waits with nothing to read, since everything
else takes no time; the goroutines of the last connection have ended before the
next dial, at least two seconds later; what is written to a silent connection
vanishes without an error, and writes fail only once it is reset. The server
never asks for an acknowledgement, so the agent sends none.

### AgentStartup

`at` is how far a start has come; `me`, `attempt`, `reply` and `out` are memory and
gone when the process ends; `disk` are the five files, `conf` the environment
variables. `os.WriteFile` is two actions, `BeginWrite`, which leaves a file that
exists and is not whole, and `FinishWrite`: the code later only asks `os.Stat`.

| Action | Code |
|---|---|
| `Launch`, `LoadUuid`, `GenerateUuid` | `runAgent`, `loadOrGenerateUUID` |
| `KeepCA`, `ReadCA` | `readServerCACert` |
| `CreateClient`, `NoCertificateInCA` | `createHTTPClient`, first half of `createTLSConfig` |
| `UseDemoCookie`, `KeepToken`, `RequestToken` | `requestToken` |
| `RegisterHTTP` | `registerHTTP` |
| `KeepCertificate`, `RegisterHTTPS`, `SaveCertificate` | `registerAndGetCerts`, `registerAndDownloadCerts` |
| `RegistrationPending`, `GiveUp`, `RegistrationRefused` | `registerWithRetry` |
| `EnterLoop`, `NoKeyPair` | second half of `createTLSConfig`, `Start` |
| `Die`, `Reconfigure`, `Approve` | a kill or any failing request or write; a changed environment; an operator |

What the server does is external. For HTTPS it is the original GoCD server: this
repository's own answers every such registration with an empty body and offers no
usable certificate, so that an agent gives up again and again, as one that nobody
approves does. The model counts `attempt` for the answers that are empty; the code
also retries errors whose text contains "pending" or "empty", which is the same
action. A signal during the registration is looked at only afterwards.

### AgentBuild

`pc` is what the event loop is doing, `todo` the commands that the recursion of
`executeCommandTree` still has to visit, in order, `env` the map of exported
variables, `result` what will be reported. `proc`, `child`, `pipe`, `posting` and
`eof` are the process of an `exec`, a process it has left behind, and the two
goroutines that read its output; `tmp` counts temporary archives. `started`, `done`,
`status` and `litter` are history. `RootAssumption` says of the trees that a root has
subcommands or is a command line, as in every build of this server (scheduler.ex:360);
for any other root the agent executes nothing and reports Passed (agent.go:291).

| Action | Code |
|---|---|
| `StartBuild`, `ReportResult` | `handleBuild` |
| `ReadCancel` | `handleMessage`, `cancelBuild` |
| `Descend`, `Export`, `SkipUnknown` | `executeCommandTree`, `runOneCommand` |
| `StartProcess`, `ProcessDoesNotStart`, `EndProcess` | the `exec` part of `runOneCommand` |
| `ReadLine`, `EndPost`, `ReadEOF` | `streamReaderToConsole`, `postConsole` |
| `UploadImpossible`, `CreateArchive`, `ZipSource`, `ZipFails`, `UploadTaken`, `UploadFails` | `runUploadArtifact`, `zipSource`, `uploadArtifact` |
| `FetchFails`, `FetchFile`, `FetchArchive`, `UnpackEntry`, `UnpackFails`, `EndUnpack` | `runFetchArtifact`, `fetchArtifact`, `unzipSecurely` |
| `Emit`, `ExitProcess`, `ChildExits` | the processes |
| `LoseBuild` | the agent is killed |

Commands are records with their subcommands in them, a constant of the module. A
flat list is what this repository's scheduler sends; nested ones are what the agent
accepts. `RunIf`, `OnCancelCmd` and `Test` are in the protocol, and the agent
ignores them. A command it does not know, and whose `command` is empty, succeeds
without doing anything (`SkipUnknown`). Left out: builds without a console URL, the
output of which is not read, and builds without a command.

### AgentProcess

`ComeUp` is a step of AgentStartup, `Serve` one of AgentBuild while the process is in
its loop, `Surroundings` what the agent has no part in, and `Kill` the death of both:
`Die /\ LoseBuild`. The loop of a lost connection, and of pings and reports, is
AgentConnection; here a build that is running goes on, as it does in the code.

### MaterialFlow

Several pipelines, each with git repositories and upstream pipelines. `head` is
what `git ls-remote` answers, `mods` the `modifications` rows in the order of
`get_latest_modification`, `inst` the pipeline instances with their
`pipeline_material_revisions` and the verdicts of the runs of their stages. `proc` is
the progress of each process: the poller (`AskLatestRevision`, `CompareRevision`, then
`SaveModification` or `SaveFails` when the unique index refuses the row), a user's
page (`UserTriggers`), or a channel or the monitor, which complete stages. Of a
completion this module has the end. A process loads the stage while it is Building
(`StartCompletion`) or when somebody has completed it (`StartLateCompletion`: an old
list of the monitor, a late report), and later writes its verdict (`FailStage`,
`PassStage`, `PassLastStage`, with the changeset of `WriteVerdict`). Whoever passes a
stage inserts the next one (`InsertNextStage`, `NextStageRaises`), or triggers what is
downstream, as often as that happens: several processes may pass the same stage, and a
rerun (`RerunStage`) passes it again. Each of them then runs `trigger_pipeline` for the pipelines in
its queue: `TakePipeline` or `RefusePaused`, one read per material
(`ReadModification`, `ReadUpstream`, or `AskGit` and `CreateModification` when
there is no modification yet), `Verify` (the fan-in check, and the counter) and
`InsertInstance`. `CreateRaises` and `InsertRaises` are the exceptions of the
unique indexes, which end the process and the rest of its queue.

The answer of git carries the time at which it was asked for, and the rows are
sorted by it: `Record` lets a row sort before those recorded meanwhile. What
counts as passed is what `get_latest_passed_instance` asks: that every run of a stage
that exists by now has passed (`LooksPassed`). An instance between two stages is one
of these, and one whose rerun failed is not any more. The
resolver is a pair of recursive functions over the rows, `LeavesOf` and `Leaves`.
`saved`, `passes`, `rewritten` and `dropped` are history: what the poller saved, how
often a last stage was passed, which stages got a second verdict, and which pipelines
missed a trigger because they were paused, an exception ended the process, or a
pipeline above them failed.

Left out: the lock, and the jobs a verdict is computed from (StageProgress; here any
verdict may be written), changes of the configuration, materials with `auto_update`
off, labels and build causes.

## Runs

| Run | Instance | Checks |
|---|---|---|
| `JobDispatch_faults` | 2 agents, 1 row without a timeout, 1 in-memory job only one agent may run, 2 runs; 1 scheduler crash or restart | `TypeOK`, `AtMostOnceDispatch`, `NoStrandedJob`, `QuiescentAgentHasNoRun`, `KeepsContract`, `CompletedJobNotReopened` |
| `JobDispatch_live` | 1 agent, 1 row, 1 run, the monitor; 1 scheduler crash, 1 lost connection, 1 deletion; fair | `NoStrandedJob`, `KeepsContract`, `ScheduledJobsDispatched`, `AssignedJobsEnd`, `LostAgentRecovers` |
| `JobDispatch_orphaned` | 1 agent, 1 row, 1 run; 1 scheduler crash; fair | violates `AgentComesBack` |
| `JobDispatch_cancelled` | 1 agent, 1 row, 1 run | violates `CancelledRunStaysCancelled` |
| `StageProgress_agents` | 2 stages of 2 and 1 jobs, 2 instances, 2 channels, 1 user, 1 operator call; 1 crash | `NoLostCompletion`, `VerdictMatchesJobs`, `StagesRunInOrder`, `PassReachesDownstream`, `CompletionIsFollowedUp` |
| `StageProgress_reruns` | 1 stage of 1 job, 2 runs of it, a channel, the monitor, 2 users; fair | `TypeOK`, `AtMostOneLatest`, `StageEnds` |
| `StageProgress_verdict` | 2 stages, 1 instance, channels and the monitor | violates `VerdictMatchesJobs` |
| `StageProgress_lock` | 2 stages, 2 instances, a lock | violates `OneInstanceAtATime` |
| `AgentConnection_pumps` | channels of 10 (send) and 1 (receive); 3 builds, 1 notice, 1 lost connection; fair | `TypeOK`, `ReportsInOrder`, `NoReportLost`, `ReconnectsUnlessBlocked`, `PumpsEnd`, `AgentStops` |
| `AgentConnection_blocked` | channels of 10 and 10; 3 builds, 1 lost connection; fair | violates `Reconnects` |
| `AgentProcess` | 3 attempts; 2 deaths or changes of the configuration; 2 builds, one with a nested list; 1 line per stream, 1 entry per archive, 1 cancelBuild; fair | `TypeOK`, `OneIdentity`, `KeyMatchesCertificate`, `SavedFilesSurvive`, `ComesUp`, `RunsAsPlanned`, `PassedMeansDone`, `OutputPosted`, `NoArchiveLeft`, `BuildEnds` |
| `MaterialFlow_commits` | 2 pipelines sharing a repository, the second downstream of the first, which has 2 stages; poller, channel, user; 2 commits, any history; 1 push, user trigger, rerun, late completion or (un)pause; fair | `TypeOK`, `FanInConsistent`, `BuiltFromPassed`, `NoSpuriousBuild`, `SavedCommitIsBuilt` |

Bounds. Two runs are the least that can send a job twice or leave one behind, and
two agents the least that can compete; two jobs in a stage and two processes are
the least that can both be last. Every fault counter is one, but in AgentProcess
two: each property fails, if at all, by one interrupted handler, a key of one
registration and a certificate of another by a death after each of them, and the
mutants show that the runs are
large enough to see it. `MaxUplink` bounds the messages an agent has in flight,
checked before it sends. `Run` bounds the builds ever created, `MaxCounter` and
`MaxAttempt` the instances. When these run out nothing more can happen, which is
why deadlock is not checked. The send channel is as large as in the code: two
builds send three reports and a ping each, the most that always fits; three
builds do not, so that both runs of AgentConnection reach the permanent block in
`Send`. The receive channel is smaller where it must be full. In AgentProcess one line is the least that can be in the pipe, at
a goroutine or answered; three attempts (five in the code) are the least with a
first, a middle and a last; the first build exports twice, runs a command in
between, and has a list inside its list; the second one exports nothing and would
see what the first has left in the environment. In MaterialFlow, `Init` starts from any branch head and any
number of recorded commits, so that one push may already be a reset to a commit
recorded long ago, and one user's trigger meets a poller with a new commit. A completion
that is late stands for the second of two processes that complete a stage at a time;
with any number of them, and any number of reruns, `BuiltFromPassed` and
`NoSpuriousBuild` are theorems. Likewise no run of StageProgress has both two stages and
reruns: `StagesRunInOrder` and `CompletionIsFollowedUp` are checked without reruns and
proved with any number of them. `MaxServerFaults` bounds crashes and restarts together,
and where `NoRunLeft` the scheduler leaves the rest of its queue alone. Runs with symmetry check safety only.

Fairness (the definition `Fairness` of each module). Every process of the
server takes its next step once it can (the BEAM schedules preemptively, mailboxes
are in order, and the reload and monitor timers fire again and again). Builds end.
Strong fairness is assumed where the enabling condition may come and go: Go's
`select` picks among ready cases at random, so the agent will ping and will read
a build although other messages arrive; an assignment request is served although
the agent's state changes; a run that is quiet again and again is scanned.
The goroutines of the agent run, and its select takes `ctx.Done()` in the end if
it is ready every time. The poller polls again and again, and instances end, passed
or failed. The process of an agent is launched whenever it is down ("supervisor will
restart", agent.go:192) and goes on by itself, its commands end and the server
answers (`ComeUp` and `Serve`): its HTTP clients have no timeout, so without the
last nothing could be promised. Nothing obliges anybody to trigger, delete, push, pause or break connections, nor an
agent to report its verdict, an operator to approve an agent, or a process that a
command has left behind to end.

## What the runs found

* `JobDispatch_cancelled`: `report_status` does not look at the state of the run,
  so an agent that never stopped writes its result over the monitor's
  Completed/Cancelled, and completes job and stage a second time. Nor does the agent
  ever stop, though agent.go:316 and docs/status.md:486 say that a cancelBuild ends the
  build: the loop that would read the message is inside the build, so the context is
  never cancelled. The branches that report Cancelled are dead, which the theorem
  `NothingAborted` says for all builds.
* `StageProgress_verdict`: the verdict of a stage is computed from jobs read
  earlier and then written whatever the row says by then. A report racing the
  monitor leaves a Passed stage, with its successor started, over a Cancelled job.
* `StageProgress_lock`: a pipeline is locked while some stage is Building, and
  between the completion of one stage and the insert of the next none is.
* `AgentConnection_blocked`: when the connection is reset while three builds wait
  in the receive channel, `writePump` returns and leaves `done` open; the loop
  executes the builds, fills the send channel and blocks in `Send` for ever. Only
  the loop would close `done`. With two builds there is room, and it reconnects; a
  signal does not end the agent then, either. `BlockedInSend` is the exact condition,
  and the exception in `ReconnectsUnlessBlocked` and `AgentStops`.
* `JobDispatch_orphaned`: the channel of an idle agent waits for the scheduler, and
  dies with it while the WebSocket stays open. The agent joins once per connection, and
  its loop only logs the errors of `handleMessage`, among them those that are to make it
  reconnect (agent.go:192, 218). It stays LostContact and gets no work, until the
  connection is lost for another reason. `Orphaned` is the exact condition, and the
  exception in `ScheduledJobsDispatched` and `LostAgentRecovers`.

What holds only up to an exception that its property names:

* `ComesUp`: a process that dies between the creation and the filling of a file
  leaves a file that every later start takes for a certificate, a token or a uuid.
  A CA or certificate of that kind, or the empty CA of a server that had no TLS when
  it has one now, fails every later start; what a server does with half a token or
  an empty uuid is its own affair, and the model lets it do either.
  `Spoilt` is the exact condition, and with `OneIdentity` it says that nothing else
  keeps an approved agent down: not the five attempts, nor a key without its
  certificate, which is fetched anew.
* `SavedFilesSurvive`: with a demo cookie every start truncates and rewrites the
  token, and a key that has no certificate is replaced.
* `BuildEnds`: a process that a command has left behind keeps the pipes open, and
  the loop waits for it.
* `BuiltFromPassed`: what is downstream is built from instances that got through their
  first stage, and no more can be said. An instance whose next stage has not been inserted
  looks as if it had passed, and that stage may fail; a rerun may fail; and where two processes give
  a stage different verdicts (`rewritten`) not even that holds.
* `NoSpuriousBuild`: its causes are processes that passed a last stage, not instances
  that passed. One instance may be passed by two processes, and by reruns, and each of them
  triggers what is downstream.

What holds, and is not obvious: concurrent last completions never lose a stage,
because each writes its job before it reads the others; a stage never starts
before the one in front of it is done, although the monitor may write a verdict
twice; concurrent reruns never leave two latest runs, because the loser of the
unique index inserts nothing; no crash makes the scheduler send a job twice,
because the row leaves Scheduled before the build is sent and an in-memory entry
dies with the process that would send it again; the goroutines of a connection
never outlive it; no death of the agent mixes two registrations, because a key that
has no certificate beside it is never used; no command begins while a line of the
one before it is outstanding, although two goroutines post the lines; an upload
whose answer is lost is stored and the build fails, never the reverse; a pipeline that is refused because its upstream has not passed
with the new commit is built once it has; a branch that was reset is detected as
changed by every poll and builds nothing, as the unique index refuses it.

`NoStrandedJob` holds up to a restart of the server (`restarts = 0`) and
`CompletedJobNotReopened` up to a crash: both are exact. A restart between the
write of a run and the write of its job strands the job for good; a crash after
`create_run` leaves an orphan run, whose timeout completes a job that was
dispatched a second time. `SavedCommitIsBuilt` holds up to a user's trigger
(`userTriggers = 0`), for reasons worth knowing. A trigger that has read its
materials before the poller saves a commit, and inserts after the poller's, leaves
a newest instance with the older revision; or it records "HEAD", for which git
failed, after the commit. What is downstream then finds two revisions of one
repository and is refused, and no poll sees a change that would try again.
`NoLostCompletion`, `VerdictMatchesJobs`, `CompletionIsFollowedUp` and
`PassReachesDownstream` hold up to a crash of a handler: nothing looks for what it
left undone.

## Proofs

`JobDispatchProofs` proves, for every set of agents, jobs and runs and every bound
on faults, with the assumptions `JobAssumption`, `AgentAssumption`,
`RunAssumption` and `BoundAssumption` of JobDispatch (names that stand for "none"
are not members, and row ids are numbers):

* `TypeCorrect == Spec => []TypeOK`. `TypeOK` is not inductive: the next step of
  an interrupted handler writes the agent, job, run or result it holds, so
  `TypeInv` adds `ProcessFacts`, that those are real ones. One lemma per action.
* `DispatchedAtMostOnce == Spec => []AtMostOnceDispatch`. The inductive invariant
  `DispatchInv` says why a job that was sent cannot be picked again: a row that
  was sent is past Scheduled for good (`SentRowsNotPending`), an in-memory entry
  that was sent is no longer queued (`SentEntriesNotQueued`) and its id is never
  queued again (`QueueOfDistinct`); a job that is being dispatched has not been
  sent (`PickedNotSent`), and from the write of `assign_job_instance` on its row
  is past Scheduled, too (`AssignedBeforeSent`). The long step is `DequeueKeeps`:
  what `reject_if_in_memory` leaves in the queue.

`JobContractProofs` proves the remaining safety properties of JobDispatch, with the same
assumptions. First it states what one step can do to each variable (`RunWriters` and
its like; `UplinkStep`, `DownlinkStep`, `ChanStep` for one agent). `RunInv` then holds
in every state: a run that anybody outside the scheduler speaks of is `Known`, and one
an agent speaks of was sent to it (`RunsKnown`); so from `create_run` to the broadcast
nobody but the scheduler writes the run (`RunMatchesDispatch`); and links to job
instances are set once and cleared with the row (`LinksSound`). On top of it:

* `AssignedJobsCanEnd == Spec => []NoStrandedJob`. `NoStrandedJob` is inductive over
  `RunInv`: whoever ends an active run goes on to its job (`EndedIsCompleting`) and is
  not disturbed before it has (`CompletingStays`).
* `CompletedJobsStay == Spec => CompletedJobNotReopened`. `NoOrphan` is why: without a
  crash a run that is known belongs to a job past Scheduled, so nobody can complete a
  job that the scheduler has picked and not assigned yet.
* `DispatchKeepsContract == Spec => KeepsContract`. `OneVerdict` says that the build of a
  run is unread, executed, reported or received, once and in one of these places only;
  `VerdictsOpen` that what is on its way belongs to a job without a verdict of an agent.
  Then `SendBuild` is `Hand`, `CompleteReportedJob` is `Conclude`, `CompleteCancelledJob`
  is `GiveUp`, or nothing changes, and every other step is a stutter, restarts included.
* `QuiescentAgentsAreDone == Spec => []QuiescentAgentHasNoRun`. Without faults
  (`QuietInv`) an active run is unread, executed or has its last report on the way, and
  every report but the last is followed by it (`Follows`): that is why a report that
  wakes a cancelled run up is never the last word.

`AgentStartupProofs`, `AgentBuildProofs` and `AgentProcessProofs` prove, for every
number of deaths, attempts, builds, lines and cancels and every tree of commands, with
the assumptions `AttemptAssumption`, `MishapAssumption`, `BuildBoundAssumption`,
`CommandAssumption` (commands of the same id do the same) and `TreeAssumption` (the
trees end: a command comes out of a JSON message, so it cannot be below itself):

* `IdentityKept`, `KeyPairKept` and `FilesSpared` of AgentStartup. The invariant
  `FilesInv` adds to the type invariant what the file being written and the memory
  of the process have to do with the disk: the uuid in memory is the one in the file
  or on its way there, and a certificate is only ever written when the key of the
  same registration has been.
* `ArchivesRemoved`, `NothingAborted` and `LinesPostedInTime` of AgentBuild.
  `ArchiveInv` counts the archives by what the loop is doing; `LoopInv` says that
  no build is current where messages are read, so that a cancelBuild is about
  another one; `OutputInv` says where each line is (in the pipe, at its goroutine,
  answered) and that a goroutine has ended only if the process and its children have.
* `BuildsRunAsPlanned` and `PassedBuildsAreDone` of AgentBuild, which compare a walk that
  replaces a command by its subcommands with the leaves of the whole tree. In `WalkInv`
  a build that has not failed is at some leaf `k` of its tree (`Walked`): the leaves of
  what is to come (`Flat(todo)`) are those after `k`, the environment is what the first
  `k` export, and `DoneUpTo(k)` holds; a build that has failed has nothing left to do.
  A descent leaves `Flat(todo)` as it is (`FlatDescends`), a leaf takes its head
  (`FlatHead`), and when nothing is left every leaf has been (`WalkEnds`,
  `PlanCarriedOut`). Two things come before it: that the function `Leaves`, which
  recurses over the trees, exists and satisfies its equation (`LeavesEquation`), by
  induction in the form "of the commands it does not hold for, take one that is above
  none of the others" (`LowestCommand`), and that joining lists distributes over
  concatenation (`FlattenConcat`). TLC checked `WalkInv` on the run `AgentProcess`
  before it was proved.
* `ProcessImplementsStartup` and `ProcessImplementsBuild`: every step of the composed
  process is a step of each part or leaves it alone, deaths included. All theorems
  about the parts therefore hold of the process, and are stated for it
  (`ProcessTypeCorrect`, `ProcessKeepsIdentity`, `ProcessKeepsKeyPair`,
  `ProcessSparesFiles`, `ProcessLeavesNoArchive`, `ProcessAbortsNothing`,
  `ProcessPostsLines`, `ProcessRunsAsPlanned`, `ProcessPassesWhatIsDone`),
  which is what the run `AgentProcess` checks, and that nothing is aborted.

`StageProgressProofs` proves all six invariants of StageProgress and its type
correctness, for every number of stages, jobs, channels, users and every bound, with
`StageAssumption`, `ProcessAssumption` and `BoundAssumption`. Four hold whatever the
console activity monitor does:

* `StagesTypeCorrect`. `TypeInv` adds which handlers hold a stage, and that a handler
  on its way to the next stage has one to start.
* `CompletionsNotLost`. `NoLostCompletion` is inductive over `TypeInv`: the handler that
  wrote the last job has yet to read the jobs, or has read them and decided.
* `OneLatestRun`. `LatestInv` adds that runs are numbered without gaps, that whoever is
  between the reset and the insert of a rerun knows the run before his own, and
  that no run of his stage is marked until somebody inserts his counter, which makes
  his own insert fail.
* `CompletionsFollowedUp`. In `FollowUpInv` a handler either loaded the stage before
  anybody decided it, or loaded a completed one; a changeset that writes nothing
  therefore leaves the result of a handler that has yet to follow up.

The other three are theorems with the hypothesis `Monitor = {}`, that is, with the
monitor of the console disabled: its verdict of a run that finished in
the meantime reopens a decided stage (run `StageProgress_verdict`), so nothing weaker
would do. `OrderInv` then says that a job has one reporter (`OneReporter`), that all who
decide a stage compute the same verdict (`DecidersAgree`), and hence:

* `StagesInOrder` and `VerdictsMatchJobs`: nothing that is decided is undone.
* `PassesReachDownstream`. `PassTriggersDownstream`: when the last stage of an instance
  passes, all stages before it have (`StagesInOrder`), and the handler that passed it is
  the one that triggers the downstream pipeline; it finds this instance
  or a later one among those that passed (`PassedInstance`).

`MaterialFlowProofs` proves the four invariants of MaterialFlow for every acyclic
configuration, every set of processes and every bound, with `GraphAssumption`,
`ProcessAssumption` and `BoundAssumption`:

* `FlowTypeCorrect` and `NothingBuiltTooEarly`. In `FlowInv` a process has read a
  revision of exactly the materials that are not in `unread`, and the upstream
  instances among them have got through their first stage. What looked passed at the
  read may have failed since; but a verdict of the first run of the first stage is only
  ever replaced by a second one, which `rewritten` then knows.
* `FanInAgrees`: a process at its insert holds what the resolver compared, no process
  changes the revisions of an instance, and so `LeavesOf` of what it read does not change.
* `BuildsHaveCauses` counts, for each pipeline, its instances and the processes that are
  yet to trigger it or are about to insert (`Pending`): together they are never more
  than its causes. A commit is saved once, because a saved one is recorded
  (`SavedRecorded`) and the unique index refuses it; a process that passes a last stage
  triggers each pipeline downstream once for it, and no other completion triggers any.

`Below` and `LeavesOf` recurse over the graph. That a function with such an equation
exists, and what its values are, is proved by induction over pipelines in the form "of
those that are not, take the least" (`LeastNat`).

`AgentConnectionProofs` proves the three invariants of AgentConnection for all
capacities of the channels and any number of builds, notices and lost connections,
with `CapacityAssumption` and `BoundAssumption`:

* `ConnectionTypeCorrect`, which says that no channel overflows.
* `ReportsArriveInOrder`. `Outgoing` is what the server has received, the send channel
  and what the loop is about to send, joined. In `ReportsSound` it is in order as a
  whole while the connection is up; `Send` and `Write` move what is in it, or take
  a ping out, and only the loop adds to its end (`LoopAppends`). What it adds belongs
  to a later build than all of it, since builds arrive in rising order
  (`BuildsRise`). When the connection breaks only what was received counts,
  a prefix; the next one starts with empty channels.
* `ReportsArrive`. In `NothingLost` the agent has never been connected, has stopped, or
  its first connection is still up, and then each build the server sent is on its way to
  the loop, is being executed, or all its reports are in `Outgoing`.

TLC checked the invariant `AllSound` of these proofs on the run `AgentConnection_pumps`
before it was proved.

TLC only: liveness (fairness and ENABLED are outside the prover's reach). Every
invariant and every action property of the passing runs is a theorem.

## Plan

1. `MaterialGraph`: configuration transactions and the cycle check, its depth-first
   search as a recursive function against a definition over paths.
2. `AgentLifecycle`, `Environments`, `ConsoleLog`, `ArtifactCleanup`; test jobs of
   the agent registry as a caller of `JobDispatch`.
3. MaterialFlow with three pipelines, safety only.

## Not modelled

The parts named in the first two points of the plan: configuration and its cycle
check, registration and editing of agents, environments, the console log, artifact
cleanup and test jobs. What the modelled parts take from them is fixed in each
instance: the graph of the materials, the resources and environments that the
matching compares, and which agents are enabled.

Not planned, with reasons, in the component list of `PROJECT.json`: pages and
controllers, accounts, mock data, test agents, the read-only value stream map, and
what commands, archives and certificates contain.
