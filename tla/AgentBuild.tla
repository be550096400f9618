----------------------------- MODULE AgentBuild -----------------------------
(***************************************************************************)
(* What the event loop of a Go agent does with a build                     *)
(* (agent/internal/agent/agent.go): it walks the tree of commands and runs *)
(* one after the other.  The output of a command is read by two            *)
(* goroutines, one per stream, that post every line before they read the   *)
(* next.  Artifacts travel through temporary archives.                     *)
(***************************************************************************)
EXTENDS Naturals, Sequences, SequencesExt

CONSTANTS
  Command,    \* commands: what they are, who they are, what they export, subcommands
  Tree,       \* the command trees of the builds, in the order the server sends them
  Var,        \* environment variables
  PipeCap,    \* lines a pipe holds
  MaxLines,   \* bound on the lines a command writes to one stream
  MaxEntries, \* bound on the entries of an archive
  MaxCancels  \* bound on the cancelBuild messages

Build == DOMAIN Tree
NoBuild == 0

ASSUME BuildBoundAssumption ==
  PipeCap \in Nat \ {0} /\ MaxLines \in Nat /\ MaxEntries \in Nat /\ MaxCancels \in Nat

\* Commands of the same id do the same.
ASSUME CommandAssumption ==
  /\ Tree \in Seq(Command)
  /\ \A c \in Command : c.id \in Nat /\ c.var \in Var /\ c.subs \in Seq(Command)
  /\ \A c, d \in Command : c.id = d.id => c.name = d.name

\* The trees end: of any commands, one has none of them as a subcommand.
ASSUME TreeAssumption ==
  \A S \in SUBSET Command : S # {} => \E c \in S : ToSet(c.subs) \cap S = {}

\* The root has subcommands or is a command line, as in every build of this
\* server.  For any other root the agent does nothing and reports Passed.
ASSUME RootAssumption ==
  \A i \in DOMAIN Tree : Tree[i].subs # <<>> \/ Tree[i].name = "exec"

\* The commands of a tree that do something, in the order they are met.
Leaves[c \in Command] ==
  IF c.subs = <<>> THEN <<c>> ELSE FlattenSeq([i \in DOMAIN c.subs |-> Leaves[c.subs[i]]])

Stream == {"stdout", "stderr"}

VARIABLES
  pc,       \* what the loop is doing
  inbox,    \* messages from the server it has not read
  current,  \* the build it executes
  aborted,  \* the context of the build is cancelled
  todo,     \* the commands to come, in order
  env,      \* exported variables
  proc,     \* the process of an exec command
  child,    \* a process it left behind holds its pipes open
  pipe,     \* lines in the pipe of each stream
  posting,  \* the goroutine of the stream posts a line
  eof,      \* the goroutine has ended
  emitted, answered,  \* lines written, lines the server has taken or refused
  unpacked, \* entries of the archive still to be unpacked
  result,
  tmp,      \* number of temporary archives
  sent, cancels,      \* counters
  status,   \* history: the last report of each build
  started,  \* history: commands of the build, and the environment of each
  done,     \* history: commands that did what they are for
  litter    \* history: archives left behind by a killed process

msgVars == <<inbox, sent, cancels>>
walkVars == <<current, aborted, todo, env, result>>
execVars == <<proc, child, pipe, posting, eof, emitted, answered>>
dataVars == <<unpacked, tmp, litter>>
history == <<status, started, done>>
buildVars == <<pc, msgVars, walkVars, execVars, dataVars, history>>

NoEnv == [v \in Var |-> 0]
Quiet == [s \in Stream |-> 0]

BuildInit ==
  /\ pc = "select"
  /\ inbox = <<>> /\ sent = 0 /\ cancels = 0
  /\ current = NoBuild /\ aborted = FALSE /\ todo = <<>> /\ env = NoEnv /\ result = "Unknown"
  /\ proc = "none" /\ child = FALSE
  /\ pipe = Quiet /\ emitted = Quiet /\ answered = Quiet
  /\ posting = [s \in Stream |-> FALSE] /\ eof = [s \in Stream |-> TRUE]
  /\ unpacked = 0 /\ tmp = 0 /\ litter = 0
  /\ status = [b \in Build |-> "none"] /\ started = <<>> /\ done = {}

-----------------------------------------------------------------------------
(* Messages                                                                *)

SendBuild ==
  /\ sent < Len(Tree)
  /\ sent' = sent + 1
  /\ inbox' = Append(inbox, <<"build", sent + 1>>)
  /\ UNCHANGED <<pc, cancels, walkVars, execVars, dataVars, history>>

SendCancel ==
  /\ cancels < MaxCancels
  /\ cancels' = cancels + 1
  /\ \E b \in 1..sent : inbox' = Append(inbox, <<"cancelBuild", b>>)
  /\ UNCHANGED <<pc, sent, walkVars, execVars, dataVars, history>>

Receive(kind) ==
  /\ inbox # <<>> /\ Head(inbox)[1] = kind
  /\ inbox' = Tail(inbox)
  /\ UNCHANGED <<sent, cancels>>

\* handleBuild: the build is current, and its context is new.
StartBuild ==
  /\ pc = "select"
  /\ Receive("build")
  /\ LET b == Head(inbox)[2] IN
       /\ current' = b
       /\ todo' = <<Tree[b]>>
       /\ status' = [status EXCEPT ![b] = "Building"]
  /\ pc' = "walk"
  /\ aborted' = FALSE /\ env' = NoEnv /\ result' = "Passed"
  /\ started' = <<>>
  /\ UNCHANGED <<execVars, dataVars, done>>

\* The context of the build is cancelled if it is the current one.
ReadCancel ==
  /\ pc = "select"
  /\ Receive("cancelBuild")
  /\ aborted' = (aborted \/ current = Head(inbox)[2])
  /\ UNCHANGED <<pc, current, todo, env, result, execVars, dataVars, history>>

-----------------------------------------------------------------------------
(* The walk through the tree                                               *)

At(name) == pc = "walk" /\ todo # <<>> /\ Head(todo).subs = <<>> /\ Head(todo).name = name

Descend ==
  /\ pc = "walk" /\ todo # <<>>
  /\ Head(todo).subs # <<>>
  /\ todo' = Head(todo).subs \o Tail(todo)
  /\ UNCHANGED <<pc, msgVars, current, aborted, env, result, execVars, dataVars, history>>

Begin == started' = Append(started, <<Head(todo).id, env>>)
\* The command is over, and the walk goes on.
Succeed ==
  /\ pc' = "walk"
  /\ todo' = Tail(todo)
  /\ UNCHANGED result

\* Mutant: a failed command does not end the walk.
FailAndGoOn ==
  /\ pc' = "walk"
  /\ todo' = Tail(todo)
  /\ result' = "Failed"

\* The first error ends the walk.
EndWalk(r) ==
  /\ pc' = "walk"
  /\ todo' = <<>>
  /\ result' = r

Fail == EndWalk("Failed")

\* What the error means for the build if the context ends the command.
Interrupted == IF aborted THEN "Cancelled" ELSE "Failed"

Export ==
  /\ At("export")
  /\ Begin
  /\ env' = [env EXCEPT ![Head(todo).var] = Head(todo).id]
  /\ Succeed
  /\ UNCHANGED <<msgVars, current, aborted, execVars, dataVars, status, done>>

\* A command the agent does not know, and that has nothing to execute.
SkipUnknown ==
  /\ At("unknown")
  /\ Begin
  /\ Succeed
  /\ UNCHANGED <<msgVars, current, aborted, env, execVars, dataVars, status, done>>

\* Completing and Completed; then the loop reads again.
ReportResult ==
  /\ pc = "walk" /\ todo = <<>>
  /\ status' = [status EXCEPT ![current] = result]
  /\ pc' = "select" /\ current' = NoBuild
  /\ UNCHANGED <<msgVars, aborted, todo, env, result, execVars, dataVars, started, done>>

-----------------------------------------------------------------------------
(* exec                                                                    *)

StartProcess ==
  /\ At("exec") /\ ~ aborted
  /\ Begin
  /\ pc' = "exec" /\ proc' = "running"
  /\ eof' = [s \in Stream |-> FALSE]
  /\ UNCHANGED <<msgVars, walkVars, child, pipe, posting, emitted, answered, dataVars,
                 status, done>>

ProcessDoesNotStart ==
  /\ At("exec")
  /\ Begin
  /\ EndWalk(Interrupted)
  /\ UNCHANGED <<msgVars, current, aborted, env, execVars, dataVars, status, done>>

\* A line that is not blank; blank ones are read and not posted.
Emit(s) ==
  /\ proc = "running" \/ child
  /\ emitted[s] < MaxLines /\ pipe[s] < PipeCap
  /\ emitted' = [emitted EXCEPT ![s] = @ + 1]
  /\ pipe' = [pipe EXCEPT ![s] = @ + 1]
  /\ UNCHANGED <<pc, msgVars, walkVars, proc, child, posting, eof, answered, dataVars, history>>

ExitProcess ==
  /\ proc = "running"
  /\ proc' \in IF aborted THEN {"error"} ELSE {"ok", "error"}
  /\ child' \in BOOLEAN
  /\ UNCHANGED <<pc, msgVars, walkVars, pipe, posting, eof, emitted, answered, dataVars, history>>

ChildExits ==
  /\ child
  /\ child' = FALSE
  /\ UNCHANGED <<pc, msgVars, walkVars, proc, pipe, posting, eof, emitted, answered,
                 dataVars, history>>

\* streamReaderToConsole: a line is read and posted.
ReadLine(s) ==
  /\ ~ eof[s] /\ ~ posting[s] /\ pipe[s] > 0
  /\ pipe' = [pipe EXCEPT ![s] = @ - 1]
  /\ posting' = [posting EXCEPT ![s] = TRUE]
  /\ UNCHANGED <<pc, msgVars, walkVars, proc, child, eof, emitted, answered, dataVars, history>>

\* The server has taken it, or not, which is only logged.
EndPost(s) ==
  /\ posting[s]
  /\ posting' = [posting EXCEPT ![s] = FALSE]
  /\ answered' = [answered EXCEPT ![s] = @ + 1]
  /\ UNCHANGED <<pc, msgVars, walkVars, proc, child, pipe, eof, emitted, dataVars, history>>

\* Mutant: the goroutine that reads stderr does not say that it is done.
ReadEOFOfStdout(s) ==
  /\ s = "stdout"
  /\ ~ eof[s] /\ ~ posting[s] /\ pipe[s] = 0
  /\ proc # "running" /\ ~ child
  /\ eof' = [eof EXCEPT ![s] = TRUE]
  /\ UNCHANGED <<pc, msgVars, walkVars, proc, child, pipe, posting, emitted, answered,
                 dataVars, history>>

ReadEOF(s) ==
  /\ ~ eof[s] /\ ~ posting[s] /\ pipe[s] = 0
  /\ proc # "running" /\ ~ child
  /\ eof' = [eof EXCEPT ![s] = TRUE]
  /\ UNCHANGED <<pc, msgVars, walkVars, proc, child, pipe, posting, emitted, answered,
                 dataVars, history>>

Reap ==
  /\ proc' = "none"
  /\ emitted' = Quiet /\ answered' = Quiet
  /\ \/ /\ proc = "ok"
        /\ Succeed
        /\ done' = done \cup {Head(todo).id}
     \/ /\ proc = "error"
        /\ EndWalk(Interrupted)
        /\ UNCHANGED done
  /\ UNCHANGED <<msgVars, current, aborted, env, child, pipe, posting, dataVars, status, started>>

\* Mutant: Wait, which closes the pipes, comes before the goroutines are done.
EndProcessFirst ==
  /\ pc = "exec"
  /\ eof' = [s \in Stream |-> TRUE]
  /\ Reap

\* wg.Wait, then Wait.
EndProcess ==
  /\ pc = "exec"
  /\ \A s \in Stream : eof[s]
  /\ UNCHANGED eof
  /\ Reap

-----------------------------------------------------------------------------
(* uploadArtifact                                                          *)

\* The source lies outside the working directory or does not exist, or no
\* temporary file can be created.
UploadImpossible ==
  /\ At("uploadArtifact")
  /\ Begin
  /\ Fail
  /\ UNCHANGED <<msgVars, current, aborted, env, execVars, dataVars, status, done>>

CreateArchive ==
  /\ At("uploadArtifact")
  /\ Begin
  /\ pc' = "zip" /\ tmp' = tmp + 1
  /\ UNCHANGED <<msgVars, walkVars, execVars, unpacked, litter, status, done>>

ZipSource ==
  /\ pc = "zip"
  /\ pc' = "send"
  /\ UNCHANGED <<msgVars, walkVars, execVars, dataVars, history>>

\* Mutant: a file that cannot be read leaves the half of an archive behind.
ZipFailsAndKeeps ==
  /\ pc = "zip"
  /\ Fail
  /\ UNCHANGED <<msgVars, current, aborted, env, execVars, dataVars, history>>

ZipFails ==
  /\ pc = "zip"
  /\ Fail
  /\ tmp' = tmp - 1
  /\ UNCHANGED <<msgVars, current, aborted, env, execVars, unpacked, litter, history>>

\* Mutant: the status of the answer is not looked at.
UploadAnswered ==
  /\ pc = "send"
  /\ done' \in {done, done \cup {Head(todo).id}}
  /\ Succeed
  /\ tmp' = tmp - 1
  /\ UNCHANGED <<msgVars, current, aborted, env, execVars, unpacked, litter, status, started>>

\* Status 200 or 201.
UploadTaken ==
  /\ pc = "send" /\ ~ aborted
  /\ done' = done \cup {Head(todo).id}
  /\ Succeed
  /\ tmp' = tmp - 1
  /\ UNCHANGED <<msgVars, current, aborted, env, execVars, unpacked, litter, status, started>>

\* Refused, or stored with the answer lost.
UploadFails ==
  /\ pc = "send"
  /\ done' \in {done, done \cup {Head(todo).id}}
  /\ Fail
  /\ tmp' = tmp - 1
  /\ UNCHANGED <<msgVars, current, aborted, env, execVars, unpacked, litter, status, started>>

-----------------------------------------------------------------------------
(* fetchArtifact                                                           *)

\* The destination lies outside the working directory, the URL is not the
\* server's, the status is not 200, the file cannot be written, or the archive
\* cannot be stored or opened.
FetchFails ==
  /\ At("fetchArtifact")
  /\ Begin
  /\ Fail
  /\ UNCHANGED <<msgVars, current, aborted, env, execVars, dataVars, status, done>>

FetchFile ==
  /\ At("fetchArtifact") /\ ~ aborted
  /\ Begin
  /\ Succeed
  /\ done' = done \cup {Head(todo).id}
  /\ UNCHANGED <<msgVars, current, aborted, env, execVars, dataVars, status>>

FetchArchive ==
  /\ At("fetchArtifact") /\ ~ aborted
  /\ Begin
  /\ pc' = "unpack" /\ tmp' = tmp + 1
  /\ unpacked' \in 0..MaxEntries
  /\ UNCHANGED <<msgVars, walkVars, execVars, litter, status, done>>

\* unzipSecurely
UnpackEntry ==
  /\ pc = "unpack" /\ unpacked > 0
  /\ unpacked' = unpacked - 1
  /\ UNCHANGED <<pc, msgVars, walkVars, execVars, tmp, litter, history>>

\* An entry whose name begins with two dots, whose place is taken or whose data
\* is damaged ends it; the entries before it stay.
UnpackFails ==
  /\ pc = "unpack" /\ unpacked > 0
  /\ Fail
  /\ tmp' = tmp - 1 /\ unpacked' = 0
  /\ UNCHANGED <<msgVars, current, aborted, env, execVars, litter, history>>

EndUnpack ==
  /\ pc = "unpack" /\ unpacked = 0
  /\ done' = done \cup {Head(todo).id}
  /\ Succeed
  /\ tmp' = tmp - 1
  /\ UNCHANGED <<msgVars, current, aborted, env, execVars, unpacked, litter, status, started>>

-----------------------------------------------------------------------------
(* The process dies in the middle of it: what it had in memory is gone.    *)
LoseBuild ==
  /\ pc' = "select"
  /\ inbox' = <<>>
  /\ current' = NoBuild /\ aborted' = FALSE /\ todo' = <<>> /\ env' = NoEnv
  /\ result' = "Unknown"
  /\ proc' = "none" /\ child' = FALSE
  /\ pipe' = Quiet /\ emitted' = Quiet /\ answered' = Quiet
  /\ posting' = [s \in Stream |-> FALSE] /\ eof' = [s \in Stream |-> TRUE]
  /\ unpacked' = 0
  /\ litter' = tmp
  /\ UNCHANGED <<sent, cancels, tmp, history>>

\* What the agent, its commands and the server that answers it do.
BuildStep ==
  \/ StartBuild \/ ReadCancel
  \/ Descend \/ Export \/ SkipUnknown \/ ReportResult
  \/ StartProcess \/ ProcessDoesNotStart \/ ExitProcess \/ EndProcess
  \/ \E s \in Stream : ReadLine(s) \/ EndPost(s) \/ ReadEOF(s)
  \/ UploadImpossible \/ CreateArchive \/ ZipSource \/ ZipFails \/ UploadTaken \/ UploadFails
  \/ FetchFails \/ FetchFile \/ FetchArchive \/ UnpackEntry \/ UnpackFails \/ EndUnpack

BuildNext ==
  \/ BuildStep
  \/ \E s \in Stream : Emit(s)
  \/ ChildExits \/ SendBuild \/ SendCancel

BuildSpec == BuildInit /\ [][BuildNext \/ LoseBuild]_buildVars

-----------------------------------------------------------------------------
(* Properties                                                              *)

BuildTypeOK ==
  /\ pc \in {"select", "walk", "exec", "zip", "send", "unpack"}
  /\ inbox \in Seq({"build", "cancelBuild"} \X Build)
  /\ current \in Build \cup {NoBuild} /\ aborted \in BOOLEAN
  /\ todo \in Seq(Command)
  /\ env \in [Var -> Nat]
  /\ result \in {"Unknown", "Passed", "Failed", "Cancelled"}
  /\ proc \in {"none", "running", "ok", "error"} /\ child \in BOOLEAN
  /\ pipe \in [Stream -> 0..PipeCap]
  /\ posting \in [Stream -> BOOLEAN] /\ eof \in [Stream -> BOOLEAN]
  /\ emitted \in [Stream -> 0..MaxLines] /\ answered \in [Stream -> 0..MaxLines]
  /\ unpacked \in 0..MaxEntries /\ tmp \in Nat /\ litter \in Nat
  /\ sent \in 0..Len(Tree) /\ cancels \in 0..MaxCancels
  /\ status \in [Build -> {"none", "Building", "Passed", "Failed", "Cancelled"}]

\* What the server asks for: the commands in the order of the tree, each with
\* the variables that the same build exports before it.
Exported(leaves) ==
  [v \in Var |->
     LET E == {i \in DOMAIN leaves : leaves[i].name = "export" /\ leaves[i].var = v}
     IN IF E = {} THEN 0 ELSE leaves[Max(E)].id]

Plan(b) ==
  LET L == Leaves[Tree[b]]
  IN [i \in DOMAIN L |-> <<L[i].id, Exported(SubSeq(L, 1, i - 1))>>]

Effective == {c \in Command : c.name \in {"exec", "uploadArtifact", "fetchArtifact"}}

(***************************************************************************)
(* The commands of a build run in the order of its tree, each after those  *)
(* before it did what they are for, and in the environment the build has   *)
(* exported so far, nothing of which is from a build before it; the build  *)
(* passes if it runs to its end.                                           *)
(***************************************************************************)
RunsAsPlanned ==
  current # NoBuild =>
    /\ IsPrefix(started, Plan(current))
    /\ \A c \in Effective, i \in 1..(Len(started) - 1) : started[i][1] = c.id => c.id \in done
    /\ todo = <<>> /\ result = "Passed" => started = Plan(current)

(***************************************************************************)
(* Every line a command has written was posted, and answered, before the   *)
(* next command starts or the build is reported.                           *)
(***************************************************************************)
OutputPosted ==
  [][pc = "exec" /\ pc' = "walk" => answered = emitted]_buildVars

(***************************************************************************)
(* A build is reported Passed only if every process ended well, the server *)
(* has every artifact and every archive is unpacked to its last entry.     *)
(***************************************************************************)
PassedMeansDone ==
  \A b \in Build : status[b] = "Passed" =>
    \A c \in ToSet(Leaves[Tree[b]]) \cap Effective : c.id \in done

(***************************************************************************)
(* Whatever fails, a build leaves no temporary archive behind, unless the  *)
(* process is killed.                                                      *)
(***************************************************************************)
NoArchiveLeft == pc \in {"select", "walk", "exec"} => tmp = litter

(***************************************************************************)
(* A build ends, however its commands end, if none of them leaves a        *)
(* process behind that holds its output open.                              *)
(***************************************************************************)
BuildEnds == pc # "select" ~> (pc = "select" \/ child)
=============================================================================
