-------------------------- MODULE AgentConnection --------------------------
(***************************************************************************)
(* One Go agent: its event loop (agent/internal/agent/agent.go) and the    *)
(* two goroutines of its current connection, readPump and writePump        *)
(* (agent/internal/websocket/connection.go), which it talks to through two *)
(* bounded channels.  The loop executes a build itself, so nothing is read *)
(* and no heartbeat is sent meanwhile.                                     *)
(***************************************************************************)
EXTENDS Naturals, Sequences, SequencesExt

CONSTANTS
  SendCap,     \* capacity of the send channel (10)
  RecvCap,     \* capacity of the receive channel (10)
  MaxBuilds,   \* bound on the builds the server sends
  MaxNotices,  \* bound on the other messages the server sends
  MaxBreaks    \* bound on lost connections

ASSUME CapacityAssumption == SendCap \in Nat \ {0} /\ RecvCap \in Nat \ {0}

ASSUME BoundAssumption ==
  MaxBuilds \in Nat /\ MaxNotices \in Nat /\ MaxBreaks \in Nat

VARIABLES
  at,        \* where the event loop is
  build,     \* the build it executes or is still reporting
  todo,      \* the messages it is about to Send, in order
  tick,      \* the heartbeat ticker has fired
  stop,      \* the agent's context is cancelled
  reader, unread,   \* progress of readPump, the message it is delivering
  writer,    \* whether writePump runs
  sendQ, recvQ,     \* the two channels
  done,      \* the connection's done channel is closed
  link,      \* the connection: up, silent (nobody noticed yet) or reset
  wire,      \* what the server has sent and the agent has not read
  joined,    \* the server has a channel for the agent on this connection
  received,  \* history: the reports the server has received
  sent, notices, breaks, stalls  \* counters

loopVars == <<at, build, todo, tick, stop>>
pumpVars == <<reader, unread, writer>>
queues   == <<sendQ, recvQ>>
netVars  == <<link, wire, joined, received>>
counters == <<sent, notices, breaks, stalls>>
vars == <<loopVars, pumpVars, queues, done, netVars, counters>>

\* From the server: the number of a build, or anything the loop only logs
\* (phx_reply, presence_diff, setCookie, reregister, phx_close; a cancelBuild
\* too, since no build is current while the loop reads).
Notice == 0
Builds == 1..MaxBuilds

\* To the server.
Join == <<"join", 0>>
Ping == <<"ping", 0>>
Report(state, b) == <<state, b>>
Lifecycle(b) == <<Report("Building", b), Report("Completing", b), Report("Completed", b)>>
UpMsg == {Join, Ping} \cup {"Building", "Completing", "Completed"} \X Builds

Init ==
  /\ at = "dial" /\ build = Notice /\ todo = <<>> /\ tick = FALSE /\ stop = FALSE
  /\ reader = "exited" /\ unread = Notice /\ writer = "exited"
  /\ sendQ = <<>> /\ recvQ = <<>>
  /\ done = TRUE
  /\ link = "reset" /\ wire = <<>> /\ joined = FALSE /\ received = <<>>
  /\ sent = 0 /\ notices = 0 /\ breaks = 0 /\ stalls = 0

-----------------------------------------------------------------------------
(* The event loop                                                          *)

AtSelect == at = "select" /\ todo = <<>>

\* The dial succeeds: new channels, new goroutines, and a join to send.  The
\* goroutines of the connection before have ended by then, since the loop waits
\* for two seconds first.
Connect ==
  /\ at = "dial" /\ ~ stop
  /\ reader = "exited" /\ writer = "exited"
  /\ at' = "select" /\ todo' = <<Join>>
  /\ tick' = FALSE
  /\ reader' = "reading" /\ writer' = "running"
  /\ sendQ' = <<>> /\ recvQ' = <<>>
  /\ done' = FALSE
  /\ link' = "up" /\ wire' = <<>> /\ joined' = FALSE
  /\ UNCHANGED <<build, stop, unread, received, counters>>

\* Mutant: every Send is a goroutine of its own.
SendInAnyOrder ==
  /\ Len(sendQ) < SendCap
  /\ \E i \in DOMAIN todo :
       /\ sendQ' = Append(sendQ, todo[i])
       /\ todo' = RemoveAt(todo, i)
  /\ UNCHANGED <<at, build, tick, stop, pumpVars, recvQ, done, netVars, counters>>

\* Send blocks while the channel is full.  Its other case, done, is closed only
\* by the loop itself, when it leaves the connection.
Send ==
  /\ todo # <<>>
  /\ Len(sendQ) < SendCap
  /\ sendQ' = Append(sendQ, Head(todo))
  /\ todo' = Tail(todo)
  /\ UNCHANGED <<at, build, tick, stop, pumpVars, recvQ, done, netVars, counters>>

\* A heartbeat interval passes: the loop executes a build or has nothing to
\* read, and neither goroutine has anything to do that takes no time.
ReaderWaits ==
  \/ reader = "reading" /\ wire = <<>> /\ link # "reset"
  \/ reader \in {"delivering", "late"} /\ Len(recvQ) = RecvCap
  \/ reader = "exited"

WriterWaits ==
  \/ writer = "exited"
  \/ sendQ = <<>> /\ link # "reset"

Tick ==
  /\ ~ tick
  /\ \/ at = "build"
     \/ AtSelect /\ recvQ = <<>> /\ reader # "exited"
  /\ ReaderWaits /\ WriterWaits
  /\ tick' = TRUE
  /\ UNCHANGED <<at, build, todo, stop, pumpVars, queues, done, netVars, counters>>

SendPing ==
  /\ AtSelect /\ tick
  /\ tick' = FALSE
  /\ todo' = <<Ping>>
  /\ UNCHANGED <<at, build, stop, pumpVars, queues, done, netVars, counters>>

\* Close: done is closed, then the connection.
Close ==
  /\ done' = TRUE
  /\ link' = "reset"
  /\ wire' = <<>>
  /\ UNCHANGED <<build, todo, tick, stop, pumpVars, queues, joined, received, counters>>

\* Mutant: the errors of handleMessage end the connection.
CloseOnNotice ==
  /\ AtSelect
  /\ recvQ # <<>> /\ Head(recvQ) = Notice
  /\ at' = "dial"
  /\ Close

\* Errors of handleMessage, for phx_close and reregister, are only logged.
ReadNotice ==
  /\ AtSelect
  /\ recvQ # <<>> /\ Head(recvQ) = Notice
  /\ recvQ' = Tail(recvQ)
  /\ UNCHANGED <<loopVars, pumpVars, sendQ, done, netVars, counters>>

\* handleBuild, up to and after the execution of the build.
StartBuild ==
  /\ AtSelect
  /\ recvQ # <<>> /\ Head(recvQ) # Notice
  /\ recvQ' = Tail(recvQ)
  /\ at' = "build" /\ build' = Head(recvQ)
  /\ todo' = <<Report("Building", Head(recvQ))>>
  /\ UNCHANGED <<tick, stop, pumpVars, sendQ, done, netVars, counters>>

FinishBuild ==
  /\ at = "build" /\ todo = <<>>
  /\ at' = "select"
  /\ todo' = <<Report("Completing", build), Report("Completed", build)>>
  /\ UNCHANGED <<build, tick, stop, pumpVars, queues, done, netVars, counters>>

\* The receive channel is closed and drained: leave, and dial again.
LoseConnection ==
  /\ AtSelect
  /\ reader = "exited" /\ recvQ = <<>>
  /\ at' = "dial"
  /\ Close

\* Mutant: the context is looked at between connections only.
StopBetweenConnections ==
  /\ stop /\ at = "dial"
  /\ at' = "stopped"
  /\ Close

\* ctx.Done() is seen where the loop selects, or while it dials.
StopLoop ==
  /\ stop
  /\ AtSelect \/ at = "dial"
  /\ at' = "stopped"
  /\ Close

-----------------------------------------------------------------------------
(* readPump                                                                *)

Read ==
  /\ reader = "reading" /\ wire # <<>> /\ ~ done
  /\ reader' = "delivering"
  /\ unread' = Head(wire)
  /\ wire' = Tail(wire)
  /\ UNCHANGED <<loopVars, writer, queues, done, link, joined, received, counters>>

\* Delivering took longer than the read deadline, so that no pong was handled in
\* time: the next read fails.
ReadDeadlinePasses ==
  /\ reader = "delivering" /\ Len(recvQ) = RecvCap
  /\ reader' = "late"
  /\ stalls' = stalls + 1
  /\ UNCHANGED <<loopVars, unread, writer, queues, done, netVars, sent, notices, breaks>>

\* Mutant: one message too many fits.
DeliverOneMore ==
  /\ reader \in {"delivering", "late"} /\ Len(recvQ) <= RecvCap
  /\ recvQ' = Append(recvQ, unread)
  /\ reader' = IF reader = "late" THEN "exited" ELSE "reading"
  /\ UNCHANGED <<loopVars, unread, writer, sendQ, done, netVars, counters>>

Deliver ==
  /\ reader \in {"delivering", "late"} /\ Len(recvQ) < RecvCap
  /\ recvQ' = Append(recvQ, unread)
  /\ reader' = IF reader = "late" THEN "exited" ELSE "reading"
  /\ UNCHANGED <<loopVars, unread, writer, sendQ, done, netVars, counters>>

\* Mutant: the delivery does not look at done.
ReaderNeverStops ==
  /\ FALSE
  /\ reader' = "exited"
  /\ UNCHANGED <<loopVars, unread, writer, queues, done, netVars, counters>>

ReaderStops ==
  /\ reader \in {"delivering", "late"} /\ done
  /\ reader' = "exited"
  /\ UNCHANGED <<loopVars, unread, writer, queues, done, netVars, counters>>

\* Mutant: no read deadline is set.
ReadFailsOnReset ==
  /\ reader = "reading" /\ link = "reset" /\ wire = <<>>
  /\ reader' = "exited"
  /\ UNCHANGED <<loopVars, unread, writer, queues, done, netVars, counters>>

\* At once if the connection is reset, at the read deadline if it is silent.
ReadFails ==
  /\ reader = "reading" /\ link # "up" /\ wire = <<>>
  /\ reader' = "exited"
  /\ UNCHANGED <<loopVars, unread, writer, queues, done, netVars, counters>>

-----------------------------------------------------------------------------
(* writePump                                                               *)

\* The kernel takes what is written until it learns that the connection is gone.
Write ==
  /\ writer = "running" /\ sendQ # <<>>
  /\ link \in {"up", "silent"}
  /\ sendQ' = Tail(sendQ)
  /\ received' = IF link = "up" /\ Head(sendQ)[2] # 0
                 THEN Append(received, Head(sendQ)) ELSE received
  /\ joined' = (joined \/ (link = "up" /\ Head(sendQ) = Join))
  /\ UNCHANGED <<loopVars, pumpVars, recvQ, done, link, wire, counters>>

\* A message or the ticker's ping cannot be written: the goroutine returns and
\* tells nobody.
WriteFails ==
  /\ writer = "running" /\ link = "reset"
  /\ writer' = "exited"
  /\ sendQ' \in {sendQ} \cup {Tail(s) : s \in {sendQ} \ {<<>>}}
  /\ UNCHANGED <<loopVars, reader, unread, recvQ, done, netVars, counters>>

WriterStops ==
  /\ writer = "running" /\ done
  /\ writer' = "exited"
  /\ UNCHANGED <<loopVars, reader, unread, queues, done, netVars, counters>>

-----------------------------------------------------------------------------
(* The server, the network and the operating system                        *)

\* Only the agent's channel process pushes, once it has joined.
SendBuild ==
  /\ link = "up" /\ joined /\ sent < MaxBuilds
  /\ sent' = sent + 1
  /\ wire' = Append(wire, sent + 1)
  /\ UNCHANGED <<loopVars, pumpVars, queues, done, link, joined, received, notices,
                 breaks, stalls>>

SendNotice ==
  /\ link = "up" /\ joined /\ notices < MaxNotices
  /\ notices' = notices + 1
  /\ wire' = Append(wire, Notice)
  /\ UNCHANGED <<loopVars, pumpVars, queues, done, link, joined, received, sent,
                 breaks, stalls>>

\* The connection is lost, silently at first or for all to see, and with it the
\* end of what was on its way.
Break ==
  /\ link = "up" /\ breaks < MaxBreaks
  /\ breaks' = breaks + 1
  /\ link' \in {"silent", "reset"}
  /\ \E n \in 0..Len(wire) : wire' = SubSeq(wire, 1, n)
  /\ UNCHANGED <<loopVars, pumpVars, queues, done, joined, received, sent, notices,
                 stalls>>

NoticeReset ==
  /\ link = "silent"
  /\ link' = "reset"
  /\ UNCHANGED <<loopVars, pumpVars, queues, done, wire, joined, received, counters>>

CancelContext ==
  /\ ~ stop
  /\ stop' = TRUE
  /\ UNCHANGED <<at, build, todo, tick, pumpVars, queues, done, netVars, counters>>

-----------------------------------------------------------------------------
LoopStep ==
  Connect \/ Send \/ ReadNotice \/ StartBuild \/ FinishBuild \/ LoseConnection

ReaderStep == Read \/ Deliver \/ ReaderStops \/ ReadFails

WriterStep == Write \/ WriteFails \/ WriterStops

Next ==
  \/ LoopStep \/ Tick \/ SendPing \/ StopLoop
  \/ ReaderStep \/ ReadDeadlinePasses
  \/ WriterStep
  \/ SendBuild \/ SendNotice \/ Break \/ NoticeReset \/ CancelContext

\* Goroutines run and deadlines pass; the random choice of select takes ctx.Done()
\* in the end.  Builds end.
Fairness ==
  WF_vars(LoopStep) /\ SF_vars(StopLoop) /\ WF_vars(ReaderStep) /\ WF_vars(WriterStep)

Spec == Init /\ [][Next]_vars
FairSpec == Spec /\ Fairness

-----------------------------------------------------------------------------
(* Properties                                                              *)

\* Every variable has its type, and the channels their capacity.
TypeOK ==
  /\ at \in {"dial", "select", "build", "stopped"}
  /\ build \in Builds \cup {Notice}
  /\ todo \in Seq(UpMsg) /\ Len(todo) <= 2
  /\ tick \in BOOLEAN /\ stop \in BOOLEAN /\ done \in BOOLEAN
  /\ reader \in {"reading", "delivering", "late", "exited"}
  /\ writer \in {"running", "exited"}
  /\ unread \in Builds \cup {Notice}
  /\ sendQ \in Seq(UpMsg) /\ Len(sendQ) <= SendCap
  /\ recvQ \in Seq(Builds \cup {Notice}) /\ Len(recvQ) <= RecvCap
  /\ link \in {"up", "silent", "reset"}
  /\ wire \in Seq(Builds \cup {Notice})
  /\ joined \in BOOLEAN
  /\ received \in Seq(UpMsg)
  /\ sent \in 0..MaxBuilds /\ notices \in 0..MaxNotices /\ breaks \in 0..MaxBreaks
  /\ stalls \in Nat

Step == [Building |-> 1, Completing |-> 2, Completed |-> 3]

\* Report m belongs before report n: builds run one after the other.
Precedes(m, n) == m[2] < n[2] \/ (m[2] = n[2] /\ Step[m[1]] < Step[n[1]])

(***************************************************************************)
(* The server never sees a gap in the reports of a build, nor the reports  *)
(* of two builds mixed, nor a report twice, whatever was lost when a       *)
(* connection broke, and although sender and writer are goroutines of      *)
(* their own.                                                              *)
(***************************************************************************)
ReportsInOrder ==
  /\ \A i, k \in DOMAIN received : i < k => Precedes(received[i], received[k])
  /\ \A k \in DOMAIN received, b \in Builds, n \in {2, 3} :
       received[k] = Lifecycle(b)[n] => \E i \in 1..(k - 1) : received[i] = Lifecycle(b)[n - 1]

(***************************************************************************)
(* As long as no connection was lost, an agent at rest has reported every  *)
(* build the server has sent to its very end.                              *)
(***************************************************************************)
AtRest ==
  AtSelect /\ ~ stop /\ wire = <<>> /\ reader = "reading" /\ recvQ = <<>> /\ sendQ = <<>>

NoReportLost ==
  AtRest /\ breaks = 0 /\ stalls = 0 =>
    \A b \in 1..sent, n \in 1..3 :
      \E i \in DOMAIN received : received[i] = Lifecycle(b)[n]

(***************************************************************************)
(* "Start runs the agent lifecycle with automatic reconnection": a lost    *)
(* connection is followed by another one, unless the agent is stopped.  It *)
(* is not, once the loop is blocked.                                       *)
(***************************************************************************)
Reconnects == link # "up" ~> (link = "up" \/ stop)

\* The loop is in a Send, the channel is full, and the writer has returned on an
\* error.  Nobody but the loop closes done, so this is for ever.
BlockedInSend == todo # <<>> /\ Len(sendQ) = SendCap /\ writer = "exited"

(***************************************************************************)
(* That is the only way to lose the agent: however reader, writer and loop *)
(* block each other, and however late the loss is noticed, the agent       *)
(* connects again.                                                         *)
(***************************************************************************)
ReconnectsUnlessBlocked == link # "up" ~> (link = "up" \/ stop \/ BlockedInSend)

(***************************************************************************)
(* The goroutines of a connection end when the loop leaves it, wherever    *)
(* they are blocked.                                                       *)
(***************************************************************************)
PumpsEnd == done ~> (reader = "exited" /\ writer = "exited")

(***************************************************************************)
(* A cancelled agent stops, although it may be in the middle of a build or *)
(* a dial, or in a Send that the writer keeps waiting; unless the Send is  *)
(* blocked for ever.                                                       *)
(***************************************************************************)
AgentStops == stop ~> (at = "stopped" \/ BlockedInSend)
=============================================================================
