-------------------------- MODULE AgentBuildProofs --------------------------
(***************************************************************************)
(* For all builds, trees, pipes and archives: no line of a command is      *)
(* outstanding when the next one begins, no archive stays behind, no       *)
(* cancelBuild aborts anything; and the walk runs the leaves of the tree   *)
(* in their order, which is what a build that passed has done.             *)
(***************************************************************************)
EXTENDS AgentBuild, SequenceTheorems, WellFoundedInduction, TLAPS

\* Messages and commands the loop has in its hands.
LoopInv ==
  /\ pc = "select" <=> current = NoBuild
  /\ pc \in {"exec", "zip", "send", "unpack"} => todo # <<>>
  /\ pc # "select" => result # "Unknown"
  /\ ~ aborted

\* One archive at a time.
ArchiveInv == tmp = IF pc \in {"zip", "send", "unpack"} THEN litter + 1 ELSE litter

OnItsWay(s) == pipe[s] + (IF posting[s] THEN 1 ELSE 0)

\* A line is in the pipe, at a goroutine, or answered.
OutputInv ==
  /\ \A s \in Stream :
       /\ emitted[s] = answered[s] + OnItsWay(s)
       /\ eof[s] => OnItsWay(s) = 0 /\ proc # "running" /\ ~ child
  /\ pc # "exec" => proc = "none" /\ \A s \in Stream : eof[s]

BuildInv == BuildTypeOK /\ LoopInv /\ ArchiveInv /\ OutputInv

-----------------------------------------------------------------------------
LEMMA FreshBuild ==
  /\ Quiet \in [Stream -> 0..PipeCap] /\ Quiet \in [Stream -> 0..MaxLines]
  /\ \A s \in Stream : Quiet[s] = 0
  /\ NoEnv \in [Var -> Nat]
  /\ <<>> \in Seq(Command) /\ <<>> \in Seq({"build", "cancelBuild"} \X Build)
BY BuildBoundAssumption DEF Quiet, NoEnv

LEMMA TodoTypes ==
  ASSUME NEW t \in Seq(Command)
  PROVE  /\ <<>> \in Seq(Command)
         /\ t # <<>> =>
              /\ Head(t) \in Command
              /\ Tail(t) \in Seq(Command)
              /\ Head(t).subs \o Tail(t) \in Seq(Command)
<1>1. t # <<>> => Head(t) \in Command /\ Tail(t) \in Seq(Command)
  BY HeadTailProperties
<1> QED BY <1>1, CommandAssumption, ConcatProperties

LEMMA InboxTypes ==
  ASSUME NEW S, NEW q \in Seq(S)
  PROVE  /\ q # <<>> => Head(q) \in S /\ Tail(q) \in Seq(S)
         /\ \A x \in S : Append(q, x) \in Seq(S)
BY HeadTailProperties, AppendProperties

LEMMA BuildNumbers ==
  /\ Build = 1..Len(Tree)
  /\ NoBuild \notin Build
  /\ \A b \in Build : Tree[b] \in Command /\ <<Tree[b]>> \in Seq(Command)
BY CommandAssumption DEF Build, NoBuild

-----------------------------------------------------------------------------
(* The steps that count lines, begin a build or end the process            *)

LEMMA LineCounts ==
  ASSUME BuildInv, NEW s \in Stream
  PROVE  /\ emitted[s] \in Nat /\ answered[s] \in Nat /\ pipe[s] \in Nat
         /\ emitted[s] <= MaxLines /\ answered[s] <= MaxLines /\ pipe[s] <= PipeCap
         /\ posting[s] \in BOOLEAN
         /\ posting[s] => answered[s] + 1 <= MaxLines
<1>1. /\ emitted[s] \in 0..MaxLines /\ answered[s] \in 0..MaxLines /\ pipe[s] \in 0..PipeCap
      /\ posting[s] \in BOOLEAN
  BY DEF BuildInv, BuildTypeOK
<1>2. emitted[s] = answered[s] + OnItsWay(s)
  BY DEF BuildInv, OutputInv
<1> QED BY <1>1, <1>2, BuildBoundAssumption DEF OnItsWay

LEMMA EmitSafe ==
  ASSUME BuildInv, NEW s \in Stream, Emit(s)
  PROVE  BuildInv'
<1>1. emitted[s] + 1 \in 0..MaxLines /\ pipe[s] + 1 \in 0..PipeCap
  BY LineCounts, BuildBoundAssumption DEF Emit
<1>2. ~ eof[s] /\ pc = "exec"
  BY DEF Emit, BuildInv, OutputInv
<1>3. /\ emitted' = [emitted EXCEPT ![s] = emitted[s] + 1]
      /\ pipe' = [pipe EXCEPT ![s] = pipe[s] + 1]
      /\ UNCHANGED <<pc, inbox, sent, cancels, current, aborted, todo, env, result, proc, child,
                     posting, eof, answered, unpacked, tmp, litter, status>>
  BY DEF Emit, msgVars, walkVars, dataVars, history
<1>4. BuildTypeOK'
  BY <1>1, <1>3 DEF BuildInv, BuildTypeOK
<1>5. LoopInv' /\ ArchiveInv'
  BY <1>3 DEF BuildInv, LoopInv, ArchiveInv
<1>6. ASSUME NEW t \in Stream
      PROVE  /\ emitted'[t] = answered'[t] + OnItsWay(t)'
             /\ eof'[t] => OnItsWay(t)' = 0 /\ proc' # "running" /\ ~ child'
  <2>1. emitted \in [Stream -> 0..MaxLines] /\ pipe \in [Stream -> 0..PipeCap]
    BY DEF BuildInv, BuildTypeOK
  <2>2. /\ emitted[t] = answered[t] + OnItsWay(t)
        /\ eof[t] => OnItsWay(t) = 0 /\ proc # "running" /\ ~ child
    BY DEF BuildInv, OutputInv
  <2>3. CASE t = s
    BY <1>2, <1>3, <2>1, <2>2, <2>3, LineCounts DEF OnItsWay
  <2>4. CASE t # s
    BY <1>3, <2>1, <2>2, <2>4 DEF OnItsWay
  <2> QED BY <2>3, <2>4
<1>7. OutputInv'
  BY <1>2, <1>3, <1>6 DEF OutputInv
<1> QED BY <1>4, <1>5, <1>7 DEF BuildInv

LEMMA ReadLineSafe ==
  ASSUME BuildInv, NEW s \in Stream, ReadLine(s)
  PROVE  BuildInv'
<1>1. /\ ~ eof[s] /\ ~ posting[s] /\ pipe[s] > 0
      /\ pipe' = [pipe EXCEPT ![s] = pipe[s] - 1]
      /\ posting' = [posting EXCEPT ![s] = TRUE]
      /\ UNCHANGED <<pc, inbox, sent, cancels, current, aborted, todo, env, result, proc, child,
                     eof, emitted, answered, unpacked, tmp, litter, status>>
  BY DEF ReadLine, msgVars, walkVars, dataVars, history
<1>2. pipe[s] - 1 \in 0..PipeCap
  BY <1>1, LineCounts, BuildBoundAssumption
<1>3. BuildTypeOK'
  BY <1>1, <1>2 DEF BuildInv, BuildTypeOK
<1>4. LoopInv' /\ ArchiveInv'
  BY <1>1 DEF BuildInv, LoopInv, ArchiveInv
<1>5. ASSUME NEW t \in Stream
      PROVE  /\ emitted'[t] = answered'[t] + OnItsWay(t)'
             /\ eof'[t] => OnItsWay(t)' = 0 /\ proc' # "running" /\ ~ child'
  <2>1. pipe \in [Stream -> 0..PipeCap] /\ posting \in [Stream -> BOOLEAN]
    BY DEF BuildInv, BuildTypeOK
  <2>2. /\ emitted[t] = answered[t] + OnItsWay(t)
        /\ eof[t] => OnItsWay(t) = 0 /\ proc # "running" /\ ~ child
    BY DEF BuildInv, OutputInv
  <2>3. CASE t = s
    BY <1>1, <2>1, <2>2, <2>3, LineCounts DEF OnItsWay
  <2>4. CASE t # s
    BY <1>1, <2>1, <2>2, <2>4 DEF OnItsWay
  <2> QED BY <2>3, <2>4
<1>6. OutputInv'
  BY <1>1, <1>5 DEF OutputInv, BuildInv
<1> QED BY <1>3, <1>4, <1>6 DEF BuildInv

LEMMA EndPostSafe ==
  ASSUME BuildInv, NEW s \in Stream, EndPost(s)
  PROVE  BuildInv'
<1>1. answered[s] + 1 \in 0..MaxLines
  BY LineCounts, BuildBoundAssumption DEF EndPost
<1>2. /\ posting[s]
      /\ posting' = [posting EXCEPT ![s] = FALSE]
      /\ answered' = [answered EXCEPT ![s] = answered[s] + 1]
      /\ UNCHANGED <<pc, inbox, sent, cancels, current, aborted, todo, env, result, proc, child,
                     pipe, eof, emitted, unpacked, tmp, litter, status>>
  BY DEF EndPost, msgVars, walkVars, dataVars, history
<1>3. BuildTypeOK'
  BY <1>1, <1>2 DEF BuildInv, BuildTypeOK
<1>4. LoopInv' /\ ArchiveInv'
  BY <1>2 DEF BuildInv, LoopInv, ArchiveInv
<1>5. ASSUME NEW t \in Stream
      PROVE  /\ emitted'[t] = answered'[t] + OnItsWay(t)'
             /\ eof'[t] => OnItsWay(t)' = 0 /\ proc' # "running" /\ ~ child'
  <2>1. answered \in [Stream -> 0..MaxLines] /\ posting \in [Stream -> BOOLEAN]
    BY DEF BuildInv, BuildTypeOK
  <2>2. /\ emitted[t] = answered[t] + OnItsWay(t)
        /\ eof[t] => OnItsWay(t) = 0 /\ proc # "running" /\ ~ child
    BY DEF BuildInv, OutputInv
  <2>3. CASE t = s
    BY <1>2, <2>1, <2>2, <2>3, LineCounts DEF OnItsWay
  <2>4. CASE t # s
    BY <1>2, <2>1, <2>2, <2>4 DEF OnItsWay
  <2> QED BY <2>3, <2>4
<1>6. OutputInv'
  BY <1>2, <1>5 DEF OutputInv, BuildInv
<1> QED BY <1>3, <1>4, <1>6 DEF BuildInv

LEMMA StartBuildSafe ==
  ASSUME BuildInv, StartBuild
  PROVE  BuildInv'
<1>1. /\ inbox \in Seq({"build", "cancelBuild"} \X Build)
      /\ inbox # <<>>
  BY DEF BuildInv, BuildTypeOK, StartBuild, Receive
<1>2. /\ Head(inbox)[2] \in Build
      /\ Tail(inbox) \in Seq({"build", "cancelBuild"} \X Build)
  BY <1>1, InboxTypes
<1>3. PICK b \in Build : /\ current' = b /\ todo' = <<Tree[b]>>
                         /\ status' = [status EXCEPT ![b] = "Building"]
  BY <1>2 DEF StartBuild
<1>4. /\ inbox' \in Seq({"build", "cancelBuild"} \X Build)
      /\ pc = "select" /\ pc' = "walk" /\ aborted' = FALSE /\ env' = NoEnv /\ result' = "Passed"
      /\ UNCHANGED <<sent, cancels, proc, child, pipe, posting, eof, emitted, answered,
                     unpacked, tmp, litter>>
  BY <1>2 DEF StartBuild, Receive, execVars, dataVars
<1>5. /\ current' \in Build /\ current' # NoBuild
      /\ todo' \in Seq(Command) /\ todo' # <<>>
  BY <1>3, BuildNumbers
<1>6. status' \in [Build -> {"none", "Building", "Passed", "Failed", "Cancelled"}]
  BY <1>3 DEF BuildInv, BuildTypeOK
<1>7. BuildTypeOK'
  BY <1>4, <1>5, <1>6, FreshBuild DEF BuildInv, BuildTypeOK
<1>8. LoopInv' /\ ArchiveInv' /\ OutputInv'
  BY <1>4, <1>5 DEF BuildInv, LoopInv, ArchiveInv, OutputInv, OnItsWay
<1> QED BY <1>7, <1>8 DEF BuildInv

LEMMA LoseBuildSafe ==
  ASSUME BuildInv, LoseBuild
  PROVE  BuildInv'
<1>0. /\ posting' \in [Stream -> BOOLEAN] /\ eof' \in [Stream -> BOOLEAN]
      /\ pipe' \in [Stream -> 0..PipeCap]
      /\ emitted' \in [Stream -> 0..MaxLines] /\ answered' \in [Stream -> 0..MaxLines]
      /\ todo' \in Seq(Command) /\ inbox' \in Seq({"build", "cancelBuild"} \X Build)
      /\ env' \in [Var -> Nat]
  BY FreshBuild DEF LoseBuild
<1>1. BuildTypeOK'
  <2>1. /\ pc' = "select" /\ current' = NoBuild /\ aborted' = FALSE /\ result' = "Unknown"
        /\ proc' = "none" /\ child' = FALSE /\ unpacked' = 0 /\ litter' = tmp
        /\ UNCHANGED <<sent, cancels, tmp, status>>
    BY DEF LoseBuild, history
  <2>2. 0 \in 0..MaxEntries
    BY BuildBoundAssumption
  <2> QED BY <1>0, <2>1, <2>2 DEF BuildInv, BuildTypeOK
<1>2. LoopInv' /\ ArchiveInv'
  BY DEF LoseBuild, BuildInv, LoopInv, ArchiveInv
<1>3. OutputInv'
  BY FreshBuild DEF LoseBuild, OutputInv, OnItsWay
<1> QED BY <1>1, <1>2, <1>3 DEF BuildInv

\* What the server sends touches nothing but the messages.
LEMMA MessagesSafe ==
  ASSUME BuildInv, aborted' = FALSE,
         inbox' \in Seq({"build", "cancelBuild"} \X Build),
         sent' \in 0..Len(Tree), cancels' \in 0..MaxCancels,
         UNCHANGED <<pc, current, todo, env, result, execVars, dataVars, history>>
  PROVE  BuildInv'
<1>1. BuildTypeOK'
  BY DEF BuildInv, BuildTypeOK, execVars, dataVars, history
<1>2. LoopInv' /\ ArchiveInv' /\ OutputInv'
  BY DEF BuildInv, LoopInv, ArchiveInv, OutputInv, OnItsWay, execVars, dataVars
<1> QED BY <1>1, <1>2 DEF BuildInv

LEMMA SendSafe ==
  ASSUME BuildInv, SendBuild \/ SendCancel
  PROVE  BuildInv'
<1>1. /\ inbox \in Seq({"build", "cancelBuild"} \X Build) /\ aborted = FALSE
      /\ sent \in 0..Len(Tree) /\ cancels \in 0..MaxCancels
  BY DEF BuildInv, BuildTypeOK, LoopInv
<1>2. CASE SendBuild
  <2>1. sent + 1 \in Build /\ sent' \in 0..Len(Tree)
    BY <1>1, <1>2, BuildNumbers, CommandAssumption DEF SendBuild
  <2>2. inbox' \in Seq({"build", "cancelBuild"} \X Build)
    BY <1>1, <1>2, <2>1, InboxTypes DEF SendBuild
  <2> QED BY <1>1, <1>2, <2>1, <2>2, MessagesSafe DEF SendBuild, walkVars
<1>3. CASE SendCancel
  <2>1. PICK b \in 1..sent : inbox' = Append(inbox, <<"cancelBuild", b>>)
    BY <1>3 DEF SendCancel
  <2>2. b \in Build /\ cancels' \in 0..MaxCancels
    BY <1>1, <1>3, BuildNumbers, BuildBoundAssumption, CommandAssumption DEF SendCancel
  <2>3. inbox' \in Seq({"build", "cancelBuild"} \X Build)
    BY <1>1, <2>1, <2>2, InboxTypes
  <2> QED BY <1>1, <1>3, <2>2, <2>3, MessagesSafe DEF SendCancel, walkVars
<1> QED BY <1>2, <1>3

\* No build is current when the message is read, so it is about another.
LEMMA ReadCancelSafe ==
  ASSUME BuildInv, ReadCancel
  PROVE  BuildInv'
<1>1. /\ inbox \in Seq({"build", "cancelBuild"} \X Build) /\ inbox # <<>>
      /\ current = NoBuild /\ ~ aborted
      /\ sent \in 0..Len(Tree) /\ cancels \in 0..MaxCancels
  BY DEF BuildInv, BuildTypeOK, LoopInv, ReadCancel, Receive
<1>2. /\ Head(inbox)[2] \in Build
      /\ Tail(inbox) \in Seq({"build", "cancelBuild"} \X Build)
  BY <1>1, InboxTypes
<1>3. aborted' = FALSE
  BY <1>1, <1>2, BuildNumbers DEF ReadCancel
<1>4. /\ inbox' \in Seq({"build", "cancelBuild"} \X Build)
      /\ UNCHANGED <<sent, cancels>>
  BY <1>2 DEF ReadCancel, Receive
<1> QED BY <1>1, <1>3, <1>4, MessagesSafe DEF ReadCancel

LEMMA BuildStepSafe ==
  ASSUME BuildInv, BuildNext \/ LoseBuild
  PROVE  BuildInv'
<1> USE FreshBuild, BuildBoundAssumption
      DEF BuildInv, BuildTypeOK, LoopInv, ArchiveInv, OutputInv, OnItsWay, Stream,
          msgVars, walkVars, execVars, dataVars, history
<1>1. CASE SendBuild
  BY <1>1, SendSafe
<1>2. CASE SendCancel
  BY <1>2, SendSafe
<1>3. CASE StartBuild
  BY <1>3, StartBuildSafe
<1>4. CASE ReadCancel
  BY <1>4, ReadCancelSafe
<1>5. CASE Descend
  BY <1>5, TodoTypes DEF Descend
<1>6. CASE Export
  BY <1>6, TodoTypes, CommandAssumption DEF Export, At, Begin, Succeed
<1>7. CASE SkipUnknown
  BY <1>7, TodoTypes DEF SkipUnknown, At, Begin, Succeed
<1>8. CASE ReportResult
  BY <1>8, BuildNumbers DEF ReportResult
<1>9. CASE StartProcess
  BY <1>9 DEF StartProcess, At, Begin
<1>10. CASE ProcessDoesNotStart
  BY <1>10, TodoTypes DEF ProcessDoesNotStart, At, Begin, EndWalk, Interrupted
<1>11. ASSUME NEW s \in Stream, Emit(s) PROVE BuildInv'
  BY <1>11, EmitSafe
<1>12. CASE ExitProcess
  BY <1>12 DEF ExitProcess
<1>13. CASE ChildExits
  BY <1>13 DEF ChildExits
<1>14. ASSUME NEW s \in Stream, ReadLine(s) PROVE BuildInv'
  BY <1>14, ReadLineSafe
<1>15. ASSUME NEW s \in Stream, EndPost(s) PROVE BuildInv'
  BY <1>15, EndPostSafe
<1>16. ASSUME NEW s \in Stream, ReadEOF(s) PROVE BuildInv'
  <2>1. BuildTypeOK'
    BY <1>16 DEF ReadEOF
  <2>2. LoopInv' /\ ArchiveInv'
    BY <1>16 DEF ReadEOF
  <2>3. OutputInv'
    BY <1>16 DEF ReadEOF
  <2> QED BY <2>1, <2>2, <2>3
<1>17. CASE EndProcess
  <2>1. BuildTypeOK'
    BY <1>17, TodoTypes DEF EndProcess, Reap, Succeed, EndWalk, Interrupted
  <2>2. LoopInv'
    BY <1>17, TodoTypes DEF EndProcess, Reap, Succeed, EndWalk, Interrupted
  <2>3. ArchiveInv'
    BY <1>17, TodoTypes DEF EndProcess, Reap, Succeed, EndWalk, Interrupted
  <2>4. OutputInv'
    BY <1>17, TodoTypes DEF EndProcess, Reap, Succeed, EndWalk, Interrupted
  <2> QED BY <2>1, <2>2, <2>3, <2>4
<1>18. CASE UploadImpossible
  BY <1>18, TodoTypes DEF UploadImpossible, At, Begin, Fail, EndWalk
<1>19. CASE CreateArchive
  <2>1. /\ pc = "walk" /\ todo # <<>>
        /\ pc' = "zip" /\ tmp' = tmp + 1 /\ unpacked' = unpacked
        /\ UNCHANGED <<msgVars, walkVars, execVars, litter, status>>
    BY <1>19 DEF CreateArchive, At
  <2>2. BuildTypeOK'
    BY <2>1
  <2>3. LoopInv' /\ ArchiveInv'
    BY <2>1
  <2>4. OutputInv'
    BY <2>1
  <2> QED BY <2>2, <2>3, <2>4
<1>20. CASE ZipSource
  BY <1>20 DEF ZipSource
<1>21. CASE ZipFails
  BY <1>21, TodoTypes DEF ZipFails, Fail, EndWalk
<1>22. CASE UploadTaken
  BY <1>22, TodoTypes DEF UploadTaken, Succeed
<1>23. CASE UploadFails
  BY <1>23, TodoTypes DEF UploadFails, Fail, EndWalk
<1>24. CASE FetchFails
  BY <1>24, TodoTypes DEF FetchFails, At, Begin, Fail, EndWalk
<1>25. CASE FetchFile
  BY <1>25, TodoTypes DEF FetchFile, At, Begin, Succeed
<1>26. CASE FetchArchive
  <2>1. /\ pc = "walk" /\ todo # <<>>
        /\ pc' = "unpack" /\ tmp' = tmp + 1 /\ unpacked' \in 0..MaxEntries
        /\ UNCHANGED <<msgVars, walkVars, execVars, litter, status>>
    BY <1>26 DEF FetchArchive, At
  <2>2. BuildTypeOK'
    BY <2>1
  <2>3. LoopInv' /\ ArchiveInv'
    BY <2>1
  <2>4. OutputInv'
    BY <2>1
  <2> QED BY <2>2, <2>3, <2>4
<1>27. CASE UnpackEntry
  BY <1>27 DEF UnpackEntry
<1>28. CASE UnpackFails
  BY <1>28, TodoTypes DEF UnpackFails, Fail, EndWalk
<1>29. CASE EndUnpack
  BY <1>29, TodoTypes DEF EndUnpack, Succeed
<1>30. CASE LoseBuild
  BY <1>30, LoseBuildSafe
<1> HIDE FreshBuild, BuildBoundAssumption
      DEF BuildInv, BuildTypeOK, LoopInv, ArchiveInv, OutputInv, OnItsWay, Stream,
          msgVars, walkVars, execVars, dataVars, history
<1> QED
  BY <1>1, <1>2, <1>3, <1>4, <1>5, <1>6, <1>7, <1>8, <1>9, <1>10, <1>11, <1>12, <1>13,
     <1>14, <1>15, <1>16, <1>17, <1>18, <1>19, <1>20, <1>21, <1>22, <1>23, <1>24, <1>25,
     <1>26, <1>27, <1>28, <1>29, <1>30
        DEF BuildNext, BuildStep

LEMMA BuildInvariant == BuildSpec => []BuildInv
<1>1. BuildInit => BuildInv
  <2> SUFFICES ASSUME BuildInit PROVE BuildInv
    OBVIOUS
  <2>1. /\ posting \in [Stream -> BOOLEAN] /\ eof \in [Stream -> BOOLEAN]
        /\ status \in [Build -> {"none", "Building", "Passed", "Failed", "Cancelled"}]
    BY DEF BuildInit
  <2>2. 0 \in 0..MaxEntries /\ 0 \in 0..MaxCancels /\ 0 \in 0..Len(Tree)
    BY BuildBoundAssumption, CommandAssumption
  <2>3. BuildTypeOK
    BY <2>1, <2>2, FreshBuild DEF BuildInit, BuildTypeOK
  <2>4. LoopInv /\ ArchiveInv
    BY DEF BuildInit, LoopInv, ArchiveInv
  <2>5. OutputInv
    BY FreshBuild DEF BuildInit, OutputInv, OnItsWay
  <2> QED BY <2>3, <2>4, <2>5 DEF BuildInv
<1>2. BuildInv /\ [BuildNext \/ LoseBuild]_buildVars => BuildInv'
  <2> SUFFICES ASSUME BuildInv, [BuildNext \/ LoseBuild]_buildVars PROVE BuildInv'
    OBVIOUS
  <2>1. CASE BuildNext \/ LoseBuild
    BY <2>1, BuildStepSafe
  <2>2. CASE UNCHANGED buildVars
    BY <2>2 DEF BuildInv, BuildTypeOK, LoopInv, ArchiveInv, OutputInv, OnItsWay,
                buildVars, msgVars, walkVars, execVars, dataVars, history
  <2> QED BY <2>1, <2>2
<1> QED BY <1>1, <1>2, PTL DEF BuildSpec

-----------------------------------------------------------------------------
(* What a step of the loop may assume of the lines                         *)

LEMMA AllAnswered ==
  ASSUME BuildInv, pc = "exec" /\ pc' = "walk", BuildNext \/ LoseBuild
  PROVE  answered = emitted
<1>1. EndProcess
  BY DEF BuildNext, BuildStep, LoseBuild, SendBuild, SendCancel, Emit, ChildExits, StartBuild,
         ReadCancel, Descend, Export, SkipUnknown, ReportResult, StartProcess,
         ProcessDoesNotStart, ExitProcess, ReadLine, EndPost, ReadEOF, UploadImpossible, CreateArchive, ZipSource, ZipFails,
         UploadTaken, UploadFails, FetchFails, FetchFile, FetchArchive, UnpackEntry, UnpackFails,
         EndUnpack, At
<1>2. \A s \in Stream : emitted[s] = answered[s] + OnItsWay(s) /\ OnItsWay(s) = 0
  BY <1>1 DEF EndProcess, BuildInv, OutputInv
<1>3. \A s \in Stream : answered[s] \in Nat
  BY LineCounts
<1>4. \A s \in Stream : emitted[s] = answered[s]
  BY <1>2, <1>3
<1> QED BY <1>4 DEF BuildInv, BuildTypeOK

-----------------------------------------------------------------------------
(* Joining sequences, and the leaves of a tree                             *)

LEMMA LeastNat ==
  ASSUME NEW T \in SUBSET Nat, T # {}
  PROVE  \E n \in T : \A m \in T : n <= m
<1> DEFINE R == OpToRel(<, Nat)
<1>1. IsWellFoundedOn(R, Nat)
  BY NatLessThanWellFounded, Zenon
<1>2. R = {p \in Nat \X Nat : p[1] < p[2]}
  BY Zenon DEF OpToRel
<1> HIDE DEF R
<1>3. PICK n \in T : \A m \in T : ~ <<m, n>> \in R
  BY <1>1, WFMin, Zenon
<1>4. \A m \in T : ~ m < n
  BY <1>2, <1>3
<1> QED BY <1>4

\* f joins the first i sequences, for each i up to k.
Joins(f, ss, k) == f = [i \in 1..k |-> IF i = 1 THEN ss[i] ELSE f[i - 1] \o ss[i]]

LEMMA JoinsValues ==
  ASSUME NEW f, NEW ss, NEW k \in Nat, Joins(f, ss, k)
  PROVE  \A i \in 1..k : f[i] = IF i = 1 THEN ss[i] ELSE f[i - 1] \o ss[i]
<1> DEFINE g(i) == IF i = 1 THEN ss[i] ELSE f[i - 1] \o ss[i]
<1>1. f = [i \in 1..k |-> g(i)]
  BY DEF Joins
<1> HIDE DEF g
<1>2. \A i \in 1..k : f[i] = g(i)
  BY <1>1, Zenon
<1> QED BY <1>2 DEF g

LEMMA JoinsStep ==
  ASSUME NEW f, NEW ss, NEW k \in Nat, Joins(f, ss, k)
  PROVE  \E g : Joins(g, ss, k + 1)
<1> DEFINE new == IF k = 0 THEN ss[1] ELSE f[k] \o ss[k + 1]
           g == [i \in 1..(k + 1) |-> IF i = k + 1 THEN new ELSE f[i]]
           h(i) == IF i = 1 THEN ss[i] ELSE g[i - 1] \o ss[i]
<1>1. ASSUME NEW i \in 1..(k + 1)
      PROVE  g[i] = h(i)
  <2>1. CASE i = k + 1
    <3>1. CASE k = 0
      BY <2>1, <3>1
    <3>2. CASE k # 0
      <4>1. k \in 1..(k + 1) /\ k # k + 1 /\ i # 1 /\ i - 1 = k
        BY <2>1, <3>2
      <4>2. g[k] = f[k]
        BY <4>1
      <4>3. g[i] = f[k] \o ss[i]
        BY <2>1, <3>2
      <4> QED BY <4>1, <4>2, <4>3
    <3> QED BY <3>1, <3>2
  <2>2. CASE i # k + 1
    <3>1. i \in 1..k /\ g[i] = f[i]
      BY <2>2
    <3>2. f[i] = IF i = 1 THEN ss[i] ELSE f[i - 1] \o ss[i]
      BY <3>1, JoinsValues
    <3>3. i # 1 => g[i - 1] = f[i - 1]
      BY <3>1
    <3> QED BY <3>1, <3>2, <3>3
  <2> QED BY <2>1, <2>2
<1>2. g = [i \in 1..(k + 1) |-> g[i]]
  OBVIOUS
<1> HIDE DEF g
<1>3. g = [i \in 1..(k + 1) |-> h(i)]
  <2> HIDE DEF h
  <2> QED BY <1>1, <1>2
<1>4. Joins(g, ss, k + 1)
  BY <1>3 DEF Joins
<1> QED BY <1>4

LEMMA JoinsExists ==
  ASSUME NEW ss, NEW n \in Nat
  PROVE  \E f : Joins(f, ss, n)
<1> DEFINE T == {k \in Nat : ~ \E f : Joins(f, ss, k)}
<1>1. SUFFICES ASSUME T # {} PROVE FALSE
  OBVIOUS
<1>2. PICK k \in T : \A j \in T : k <= j
  <2>1. T \in SUBSET Nat
    OBVIOUS
  <2> HIDE DEF T
  <2> QED BY <1>1, <2>1, LeastNat
<1>3. CASE k = 0
  <2> DEFINE f == [i \in 1..0 |-> {}]
  <2>1. f = [i \in 1..0 |-> IF i = 1 THEN ss[i] ELSE f[i - 1] \o ss[i]]
    OBVIOUS
  <2>2. Joins(f, ss, 0)
    BY <2>1 DEF Joins
  <2> QED BY <1>3, <2>2
<1>4. CASE k # 0
  <2>1. k - 1 \in Nat /\ k = (k - 1) + 1 /\ ~ k <= k - 1
    BY <1>4
  <2>2. k - 1 \notin T
    <3> HIDE DEF T
    <3> QED BY <1>2, <2>1
  <2>3. PICK f : Joins(f, ss, k - 1)
    BY <2>1, <2>2
  <2> QED BY <2>1, <2>3, JoinsStep
<1> QED BY <1>3, <1>4

LEMMA FlattenIsJoin ==
  ASSUME NEW ss, Len(ss) \in Nat \ {0}
  PROVE  \E f : Joins(f, ss, Len(ss)) /\ FlattenSeq(ss) = f[Len(ss)]
<1> DEFINE f == CHOOSE f : Joins(f, ss, Len(ss))
<1>1. Joins(f, ss, Len(ss))
  BY JoinsExists
<1>2. FlattenSeq(ss) = f[Len(ss)]
  BY DEF FlattenSeq, Joins
<1> QED BY <1>1, <1>2

LEMMA JoinsTyped ==
  ASSUME NEW S, NEW ss \in Seq(Seq(S)), NEW f, Joins(f, ss, Len(ss))
  PROVE  \A i \in 1..Len(ss) : f[i] \in Seq(S)
<1> DEFINE T == {i \in 1..Len(ss) : f[i] \notin Seq(S)}
<1>0. Len(ss) \in Nat /\ \A i \in 1..Len(ss) : ss[i] \in Seq(S)
  OBVIOUS
<1>1. SUFFICES ASSUME T # {} PROVE FALSE
  OBVIOUS
<1>2. PICK i \in T : \A j \in T : i <= j
  <2>1. T \in SUBSET Nat
    BY <1>0
  <2> HIDE DEF T
  <2> QED BY <1>1, <2>1, LeastNat
<1>3. f[i] = IF i = 1 THEN ss[i] ELSE f[i - 1] \o ss[i]
  BY <1>0, JoinsValues
<1>4. i # 1 => f[i - 1] \in Seq(S)
  <2>1. i # 1 => i - 1 \in 1..Len(ss) /\ ~ i <= i - 1
    BY <1>0
  <2>2. i # 1 => i - 1 \notin T
    <3> HIDE DEF T
    <3> QED BY <1>2, <2>1
  <2> QED BY <2>1, <2>2
<1>5. f[i] \in Seq(S)
  BY <1>0, <1>3, <1>4, ConcatProperties
<1> QED BY <1>5

LEMMA FlattenTyped ==
  ASSUME NEW S, NEW ss \in Seq(Seq(S))
  PROVE  FlattenSeq(ss) \in Seq(S)
<1> DEFINE Q == Seq(S)
<1>1. ss \in Seq(Q)
  OBVIOUS
<1> HIDE DEF Q
<1>2. CASE ss = <<>>
  <2>1. FlattenSeq(<<>>) = <<>>
    BY DEF FlattenSeq
  <2> QED BY <1>2, <2>1, EmptySeq
<1>3. CASE ss # <<>>
  <2>1. Len(ss) \in Nat \ {0}
    BY <1>1, <1>3, EmptySeq
  <2>2. PICK f : Joins(f, ss, Len(ss)) /\ FlattenSeq(ss) = f[Len(ss)]
    BY <2>1, FlattenIsJoin
  <2>3. \A i \in 1..Len(ss) : f[i] \in Seq(S)
    BY <2>2, JoinsTyped
  <2> QED BY <2>1, <2>2, <2>3
<1> QED BY <1>2, <1>3

LEMMA FlattenSmall ==
  /\ FlattenSeq(<<>>) = <<>>
  /\ \A s : FlattenSeq(<<s>>) = s
<1>1. FlattenSeq(<<>>) = <<>>
  BY DEF FlattenSeq
<1>2. ASSUME NEW s
      PROVE  FlattenSeq(<<s>>) = s
  <2> DEFINE ss == <<s>>
  <2>1. Len(ss) = 1 /\ ss[1] = s
    OBVIOUS
  <2> HIDE DEF ss
  <2>2. PICK f : Joins(f, ss, Len(ss)) /\ FlattenSeq(ss) = f[Len(ss)]
    <3>1. Len(ss) \in Nat \ {0}
      BY <2>1
    <3> QED BY <3>1, FlattenIsJoin
  <2>3. f[1] = ss[1]
    <3>1. Len(ss) \in Nat /\ 1 \in 1..Len(ss)
      BY <2>1
    <3>2. \A i \in 1..Len(ss) : f[i] = IF i = 1 THEN ss[i] ELSE f[i - 1] \o ss[i]
      BY <2>2, <3>1, JoinsValues
    <3> QED BY <3>1, <3>2
  <2> QED BY <2>1, <2>2, <2>3 DEF ss
<1> QED BY <1>1, <1>2

LEMMA FlattenConcat ==
  ASSUME NEW S, NEW s \in Seq(Seq(S)), NEW t \in Seq(Seq(S))
  PROVE  FlattenSeq(s \o t) = FlattenSeq(s) \o FlattenSeq(t)
<1>1. CASE s = <<>>
  BY <1>1, FlattenSmall, FlattenTyped, ConcatEmptySeq
<1>2. CASE t = <<>>
  BY <1>2, FlattenSmall, FlattenTyped, ConcatEmptySeq
<1>3. CASE s # <<>> /\ t # <<>>
  <2> DEFINE m == Len(s)
             n == Len(t)
             st == s \o t
  <2>1. /\ m \in Nat \ {0} /\ n \in Nat \ {0} /\ m + n \in Nat \ {0} /\ Len(st) = m + n
        /\ \A i \in 1..m : st[i] = s[i] /\ s[i] \in Seq(S)
        /\ \A j \in 1..n : st[m + j] = t[j] /\ t[j] \in Seq(S)
    <3> DEFINE Q == Seq(S)
    <3>1. s \in Seq(Q) /\ t \in Seq(Q)
      OBVIOUS
    <3> HIDE DEF Q
    <3>2. m \in Nat \ {0} /\ n \in Nat \ {0}
      BY <1>3, <3>1, EmptySeq
    <3>3. /\ Len(st) = m + n
          /\ \A i \in 1..(m + n) : st[i] = IF i <= m THEN s[i] ELSE t[i - m]
      BY <3>1, ConcatProperties
    <3>4. (\A i \in 1..m : s[i] \in Q) /\ (\A j \in 1..n : t[j] \in Q)
      BY <3>1, ElementOfSeq
    <3>5. /\ m + n \in Nat \ {0}
          /\ \A i \in 1..m : i \in 1..(m + n) /\ i <= m
          /\ \A j \in 1..n : m + j \in 1..(m + n) /\ ~ m + j <= m /\ (m + j) - m = j
      BY <3>2
    <3> HIDE DEF m, n, st
    <3>6. \A i \in 1..m : st[i] = s[i]
      BY <3>3, <3>5
    <3>7. \A j \in 1..n : st[m + j] = t[j]
      BY <3>3, <3>5
    <3> QED BY <3>2, <3>3, <3>4, <3>5, <3>6, <3>7 DEF Q
  <2> HIDE DEF st
  <2>2. PICK f : Joins(f, s, m) /\ FlattenSeq(s) = f[m]
    BY <2>1, FlattenIsJoin
  <2>3. PICK g : Joins(g, t, n) /\ FlattenSeq(t) = g[n]
    BY <2>1, FlattenIsJoin
  <2>4. PICK h : Joins(h, st, Len(st)) /\ FlattenSeq(st) = h[Len(st)]
    <3>1. Len(st) \in Nat \ {0}
      BY <2>1
    <3> QED BY <3>1, FlattenIsJoin
  <2> HIDE DEF m, n
  <2>5. \A i \in 1..(m + n) : h[i] = IF i = 1 THEN st[i] ELSE h[i - 1] \o st[i]
    <3>1. Len(st) \in Nat
      BY <2>1
    <3>2. \A i \in 1..Len(st) : h[i] = IF i = 1 THEN st[i] ELSE h[i - 1] \o st[i]
      BY <2>4, <3>1, JoinsValues
    <3> QED BY <2>1, <3>2
  <2>6. \A i \in 1..m : h[i] = f[i]
    <3> DEFINE T == {i \in 1..m : h[i] # f[i]}
    <3>1. SUFFICES ASSUME T # {} PROVE FALSE
      OBVIOUS
    <3>2. PICK i \in T : \A j \in T : i <= j
      <4>1. T \in SUBSET Nat
        BY <2>1
      <4> HIDE DEF T
      <4> QED BY <3>1, <4>1, LeastNat
    <3>3. i # 1 => h[i - 1] = f[i - 1]
      <4>1. i # 1 => i - 1 \in 1..m /\ ~ i <= i - 1
        BY <2>1
      <4>2. i # 1 => i - 1 \notin T
        <5> HIDE DEF T
        <5> QED BY <3>2, <4>1
      <4> QED BY <4>1, <4>2
    <3>4. i \in 1..m /\ i \in 1..(m + n)
      BY <2>1
    <3>5. f[i] = IF i = 1 THEN s[i] ELSE f[i - 1] \o s[i]
      BY <2>1, <2>2, <3>4, JoinsValues
    <3>6. h[i] = IF i = 1 THEN st[i] ELSE h[i - 1] \o st[i]
      BY <2>5, <3>4
    <3>7. h[i] = f[i]
      BY <2>1, <3>3, <3>4, <3>5, <3>6
    <3> QED BY <3>7
  <2>7. f[m] \in Seq(S) /\ \A j \in 1..n : g[j] \in Seq(S)
    <3>1. \A i \in 1..Len(s) : f[i] \in Seq(S)
      BY <2>2, JoinsTyped DEF m
    <3>2. \A j \in 1..Len(t) : g[j] \in Seq(S)
      BY <2>3, JoinsTyped DEF n
    <3>3. m \in 1..m
      BY <2>1
    <3> QED BY <3>1, <3>2, <3>3 DEF m, n
  <2>8. \A j \in 1..n : h[m + j] = f[m] \o g[j]
    <3> DEFINE T == {j \in 1..n : h[m + j] # f[m] \o g[j]}
    <3>1. SUFFICES ASSUME T # {} PROVE FALSE
      OBVIOUS
    <3>2. PICK j \in T : \A i \in T : j <= i
      <4>1. 1..n \subseteq Nat
        BY <2>1
      <4>2. T \in SUBSET (1..n)
        BY Zenon
      <4> HIDE DEF T
      <4> QED BY <3>1, <4>1, <4>2, LeastNat
    <3>3. j # 1 => h[m + (j - 1)] = f[m] \o g[j - 1]
      <4>1. j # 1 => j - 1 \in 1..n /\ ~ j <= j - 1
        BY <2>1
      <4>2. j # 1 => j - 1 \notin T
        <5> HIDE DEF T
        <5> QED BY <3>2, <4>1
      <4> QED BY <4>1, <4>2
    <3>4. /\ j \in 1..n /\ m + j \in 1..(m + n) /\ m + j # 1
          /\ (m + j) - 1 = m + (j - 1) /\ m \in 1..m /\ m + (1 - 1) = m
      BY <2>1
    <3>5. g[j] = IF j = 1 THEN t[j] ELSE g[j - 1] \o t[j]
      BY <2>1, <2>3, <3>4, JoinsValues
    <3>6. h[m + j] = h[m + (j - 1)] \o t[j]
      <4>1. h[m + j] = h[(m + j) - 1] \o st[m + j]
        BY <2>5, <3>4
      <4> QED BY <2>1, <3>4, <4>1
    <3>7. CASE j = 1
      BY <2>6, <3>4, <3>5, <3>6, <3>7
    <3>8. CASE j # 1
      <4>1. j - 1 \in 1..n
        BY <2>1, <3>4, <3>8
      <4>2. h[m + j] = (f[m] \o g[j - 1]) \o t[j]
        BY <3>3, <3>6, <3>8
      <4>3. (f[m] \o g[j - 1]) \o t[j] = f[m] \o (g[j - 1] \o t[j])
        <5>1. f[m] \in Seq(S) /\ g[j - 1] \in Seq(S) /\ t[j] \in Seq(S)
          BY <2>1, <2>7, <3>4, <4>1
        <5>2. ASSUME NEW a \in Seq(S), NEW b \in Seq(S), NEW c \in Seq(S)
              PROVE  (a \o b) \o c = a \o (b \o c)
          BY ONLY ConcatAssociative, Z3T(30)
        <5> QED BY <5>1, <5>2, Zenon
      <4> QED BY <3>5, <3>8, <4>2, <4>3
    <3> QED BY <3>7, <3>8
  <2>9. n \in 1..n
    BY <2>1
  <2> QED BY <2>1, <2>2, <2>3, <2>4, <2>8, <2>9 DEF st
<1> QED BY <1>1, <1>2, <1>3

\* What the leaves of c are, if f says what those of its subcommands are.
LeavesBy(f, c) ==
  IF c.subs = <<>> THEN <<c>> ELSE FlattenSeq([i \in DOMAIN c.subs |-> f[c.subs[i]]])

IsLeaves(f, D) == f = [c \in D |-> LeavesBy(f, c)]

\* Commands with all that is below them.
Closed(D) == D \subseteq Command /\ \A c \in D : ToSet(c.subs) \subseteq D

LEMMA SubcommandFacts ==
  ASSUME NEW c \in Command
  PROVE  /\ ToSet(c.subs) \subseteq Command
         /\ \A i \in DOMAIN c.subs : c.subs[i] \in ToSet(c.subs)
         /\ c.subs \in Seq(Command) /\ DOMAIN c.subs = 1..Len(c.subs) /\ Len(c.subs) \in Nat
<1>1. c.subs \in Seq(Command)
  BY CommandAssumption
<1> QED BY <1>1, LenProperties, ElementOfSeq DEF ToSet

\* Of the commands that something does not hold for, one is above none of the others.
LEMMA LowestCommand ==
  ASSUME NEW T \in SUBSET Command, T # {}
  PROVE  \E c \in T : ToSet(c.subs) \subseteq Command \ T
<1>1. PICK c \in T : ToSet(c.subs) \cap T = {}
  BY TreeAssumption
<1>2. ToSet(c.subs) \subseteq Command
  BY SubcommandFacts
<1> QED BY <1>1, <1>2

LEMMA LeavesBySame ==
  ASSUME NEW c \in Command, NEW f, NEW g, \A d \in ToSet(c.subs) : f[d] = g[d]
  PROVE  LeavesBy(f, c) = LeavesBy(g, c)
<1>1. \A i \in DOMAIN c.subs : f[c.subs[i]] = g[c.subs[i]]
  BY SubcommandFacts
<1>2. [i \in DOMAIN c.subs |-> f[c.subs[i]]] = [i \in DOMAIN c.subs |-> g[c.subs[i]]]
  BY <1>1, Zenon
<1> QED BY <1>2, Zenon DEF LeavesBy

LEMMA IsLeavesValues ==
  ASSUME NEW f, NEW D, IsLeaves(f, D)
  PROVE  \A c \in D : f[c] = LeavesBy(f, c)
<1>1. f = [c \in D |-> LeavesBy(f, c)]
  BY DEF IsLeaves
<1> QED BY <1>1, Zenon

LEMMA LeavesAgree ==
  ASSUME NEW D, NEW E, Closed(D), Closed(E), NEW f, NEW g, IsLeaves(f, D), IsLeaves(g, E)
  PROVE  \A c \in D \cap E : f[c] = g[c]
<1> DEFINE T == {c \in D \cap E : f[c] # g[c]}
<1>1. SUFFICES ASSUME T # {} PROVE FALSE
  OBVIOUS
<1>2. PICK c \in T : ToSet(c.subs) \subseteq Command \ T
  <2>1. T \in SUBSET Command
    BY DEF Closed
  <2> HIDE DEF T
  <2> QED BY <1>1, <2>1, LowestCommand
<1>3. c \in Command /\ c \in D /\ c \in E
  BY DEF Closed
<1>4. ToSet(c.subs) \subseteq D \cap E
  BY <1>3 DEF Closed
<1>5. \A d \in ToSet(c.subs) : f[d] = g[d]
  BY <1>2, <1>4
<1>6. LeavesBy(f, c) = LeavesBy(g, c)
  BY <1>3, <1>5, LeavesBySame
<1>7. f[c] = LeavesBy(f, c) /\ g[c] = LeavesBy(g, c)
  BY <1>3, IsLeavesValues
<1> QED BY <1>6, <1>7

\* The commands whose leaves are known, and what they are.
Known == {c \in Command : \E D, f : Closed(D) /\ c \in D /\ IsLeaves(f, D)}
KnownLeaves == [c \in Known |-> CHOOSE v : \E D, f : Closed(D) /\ c \in D /\ IsLeaves(f, D) /\ v = f[c]]

LEMMA KnownAgree ==
  ASSUME NEW D, NEW f, Closed(D), IsLeaves(f, D)
  PROVE  D \subseteq Known /\ \A c \in D : KnownLeaves[c] = f[c]
<1>1. D \subseteq Known
  BY DEF Known, Closed
<1>2. ASSUME NEW c \in D
      PROVE  KnownLeaves[c] = f[c]
  <2> DEFINE Value(v) == \E E, g : Closed(E) /\ c \in E /\ IsLeaves(g, E) /\ v = g[c]
  <2>1. KnownLeaves[c] = CHOOSE v : Value(v)
    BY <1>1 DEF KnownLeaves
  <2>2. Value(f[c])
    OBVIOUS
  <2>3. ASSUME NEW v, Value(v)
        PROVE  v = f[c]
    <3>1. PICK E, g : Closed(E) /\ c \in E /\ IsLeaves(g, E) /\ v = g[c]
      BY <2>3
    <3> QED BY <3>1, LeavesAgree
  <2> HIDE DEF Value
  <2>4. Value(CHOOSE v : Value(v))
    BY <2>2
  <2> QED BY <2>1, <2>3, <2>4
<1> QED BY <1>1, <1>2

LEMMA KnownFacts == Closed(Known) /\ IsLeaves(KnownLeaves, Known)
<1>1. ASSUME NEW c \in Known
      PROVE  ToSet(c.subs) \subseteq Known /\ KnownLeaves[c] = LeavesBy(KnownLeaves, c)
  <2>1. c \in Command
    BY DEF Known
  <2>2. PICK D, f : Closed(D) /\ c \in D /\ IsLeaves(f, D)
    BY DEF Known
  <2>3. D \subseteq Known /\ \A d \in D : KnownLeaves[d] = f[d]
    BY <2>2, KnownAgree
  <2>4. ToSet(c.subs) \subseteq D
    BY <2>2 DEF Closed
  <2>5. \A d \in ToSet(c.subs) : KnownLeaves[d] = f[d]
    BY <2>3, <2>4
  <2>6. LeavesBy(KnownLeaves, c) = LeavesBy(f, c)
    BY <2>1, <2>5, LeavesBySame
  <2>7. f[c] = LeavesBy(f, c)
    BY <2>2, IsLeavesValues
  <2> QED BY <2>2, <2>3, <2>4, <2>6, <2>7
<1>2. Closed(Known)
  BY <1>1 DEF Closed, Known
<1>3. KnownLeaves = [c \in Known |-> KnownLeaves[c]]
  BY DEF KnownLeaves
<1>4. KnownLeaves = [c \in Known |-> LeavesBy(KnownLeaves, c)]
  BY <1>1, <1>3
<1> QED BY <1>2, <1>4 DEF IsLeaves

LEMMA AllKnown == Known = Command
<1> DEFINE T == Command \ Known
<1>1. SUFFICES ASSUME T # {} PROVE FALSE
  BY DEF Known
<1>2. PICK c \in T : ToSet(c.subs) \subseteq Command \ T
  BY <1>1, LowestCommand
<1>3. c \in Command /\ c \notin Known /\ ToSet(c.subs) \subseteq Known
  BY <1>2
<1> DEFINE E == Known \cup {c}
           g == [d \in E |-> IF d = c THEN LeavesBy(KnownLeaves, c) ELSE KnownLeaves[d]]
<1>4. Closed(E)
  BY <1>3, KnownFacts DEF Closed
<1>5. g[c] = LeavesBy(KnownLeaves, c) /\ \A d \in Known : g[d] = KnownLeaves[d]
  BY <1>3
<1>6. g = [d \in E |-> g[d]]
  OBVIOUS
<1> HIDE DEF g
<1>7. ASSUME NEW d \in E
      PROVE  g[d] = LeavesBy(g, d)
  <2>1. d \in Command /\ ToSet(d.subs) \subseteq Known
    BY <1>3, KnownFacts DEF Closed
  <2>2. \A b \in ToSet(d.subs) : g[b] = KnownLeaves[b]
    BY <1>5, <2>1
  <2>3. LeavesBy(g, d) = LeavesBy(KnownLeaves, d)
    BY <2>1, <2>2, LeavesBySame
  <2>4. g[d] = LeavesBy(KnownLeaves, d)
    BY <1>5, KnownFacts, IsLeavesValues
  <2> QED BY <2>3, <2>4
<1>8. g = [d \in E |-> LeavesBy(g, d)]
  BY <1>6, <1>7
<1>9. IsLeaves(g, E)
  BY <1>8 DEF IsLeaves
<1>10. c \in Known
  BY <1>4, <1>9, KnownAgree
<1> QED BY <1>3, <1>10

LEMMA LeavesEquation == \A c \in Command : Leaves[c] = LeavesBy(Leaves, c)
<1>1. Leaves = CHOOSE f : IsLeaves(f, Command)
  BY DEF Leaves, IsLeaves, LeavesBy
<1>2. IsLeaves(KnownLeaves, Command)
  BY KnownFacts, AllKnown
<1>3. IsLeaves(Leaves, Command)
  BY <1>1, <1>2
<1> QED BY <1>3, IsLeavesValues

\* The leaves of a list of commands, one after the other.
Flat(cs) == FlattenSeq([i \in DOMAIN cs |-> Leaves[cs[i]]])

LEMMA LeavesTyped == \A c \in Command : Leaves[c] \in Seq(Command)
<1> DEFINE T == {c \in Command : Leaves[c] \notin Seq(Command)}
<1>1. SUFFICES ASSUME T # {} PROVE FALSE
  OBVIOUS
<1>2. PICK c \in T : ToSet(c.subs) \subseteq Command \ T
  <2> HIDE DEF T
  <2>1. T \in SUBSET Command
    BY DEF T
  <2> QED BY <1>1, <2>1, LowestCommand
<1>3. c \in Command
  OBVIOUS
<1>4. Leaves[c] = LeavesBy(Leaves, c)
  BY <1>3, LeavesEquation
<1> DEFINE ss == [i \in DOMAIN c.subs |-> Leaves[c.subs[i]]]
<1>5. \A i \in 1..Len(c.subs) : Leaves[c.subs[i]] \in Seq(Command)
  BY <1>2, <1>3, SubcommandFacts
<1>6. ss \in Seq(Seq(Command))
  <2> DEFINE Q == Seq(Command)
  <2>1. \A i \in 1..Len(c.subs) : Leaves[c.subs[i]] \in Q
    BY <1>5
  <2> HIDE DEF Q
  <2>2. Len(c.subs) \in Nat /\ DOMAIN c.subs = 1..Len(c.subs)
    BY <1>3, SubcommandFacts
  <2>3. ss \in Seq(Q)
    BY <2>1, <2>2, IsASeq
  <2> QED BY <2>3 DEF Q
<1> HIDE DEF ss
<1>7. FlattenSeq(ss) \in Seq(Command)
  BY <1>6, FlattenTyped
<1>8. <<c>> \in Seq(Command)
  BY <1>3
<1>9. Leaves[c] \in Seq(Command)
  BY <1>4, <1>7, <1>8 DEF LeavesBy, ss
<1> QED BY <1>9

LEMMA ListsOfLeaves ==
  ASSUME NEW cs \in Seq(Command)
  PROVE  [i \in DOMAIN cs |-> Leaves[cs[i]]] \in Seq(Seq(Command))
<1> DEFINE Q == Seq(Command)
<1>1. \A i \in 1..Len(cs) : Leaves[cs[i]] \in Q
  BY LeavesTyped, ElementOfSeq
<1> HIDE DEF Q
<1>2. Len(cs) \in Nat /\ DOMAIN cs = 1..Len(cs)
  BY LenProperties
<1>3. [i \in DOMAIN cs |-> Leaves[cs[i]]] \in Seq(Q)
  BY <1>1, <1>2, IsASeq
<1> QED BY <1>3 DEF Q

LEMMA FlatConcat ==
  ASSUME NEW s \in Seq(Command), NEW t \in Seq(Command)
  PROVE  Flat(s \o t) = Flat(s) \o Flat(t)
<1> DEFINE st == s \o t
           ls == [i \in DOMAIN s |-> Leaves[s[i]]]
           lt == [i \in DOMAIN t |-> Leaves[t[i]]]
           lst == [i \in DOMAIN st |-> Leaves[st[i]]]
           Q == Seq(Command)
<1>1. /\ st \in Seq(Command) /\ Len(st) = Len(s) + Len(t)
      /\ Len(s) \in Nat /\ Len(t) \in Nat
      /\ DOMAIN s = 1..Len(s) /\ DOMAIN t = 1..Len(t) /\ DOMAIN st = 1..Len(st)
      /\ \A i \in 1..(Len(s) + Len(t)) : st[i] = IF i <= Len(s) THEN s[i] ELSE t[i - Len(s)]
  BY ConcatProperties, LenProperties
<1> HIDE DEF st
<1>2. /\ ls \in Seq(Q) /\ lt \in Seq(Q) /\ lst \in Seq(Q)
  BY <1>1, ListsOfLeaves
<1>3. /\ \A i \in 1..Len(s) : ls[i] = Leaves[s[i]]
      /\ \A i \in 1..Len(t) : lt[i] = Leaves[t[i]]
      /\ \A i \in 1..(Len(s) + Len(t)) : lst[i] = Leaves[st[i]]
      /\ DOMAIN ls = 1..Len(s) /\ DOMAIN lt = 1..Len(t) /\ DOMAIN lst = 1..(Len(s) + Len(t))
  BY <1>1
<1>4. /\ Flat(st) = FlattenSeq(lst) /\ Flat(s) = FlattenSeq(ls) /\ Flat(t) = FlattenSeq(lt)
  BY DEF Flat
<1> HIDE DEF Q, ls, lt, lst
<1>5. Len(ls) = Len(s) /\ Len(lt) = Len(t) /\ Len(lst) = Len(s) + Len(t)
  BY <1>1, <1>2, <1>3
<1>6. /\ ls \o lt \in Seq(Q) /\ Len(ls \o lt) = Len(ls) + Len(lt)
      /\ \A i \in 1..(Len(ls) + Len(lt)) :
           (ls \o lt)[i] = IF i <= Len(ls) THEN ls[i] ELSE lt[i - Len(ls)]
  BY <1>2, ConcatProperties
<1>7. ASSUME NEW i \in 1..(Len(s) + Len(t))
      PROVE  lst[i] = (ls \o lt)[i]
  <2>1. lst[i] = Leaves[st[i]]
    BY <1>3
  <2>2. i \in Nat /\ i \in 1..(Len(ls) + Len(lt))
    BY <1>1, <1>5
  <2>3. CASE i <= Len(s)
    <3>1. i \in 1..Len(s) /\ st[i] = s[i]
      BY <1>1, <2>2, <2>3
    <3>2. (ls \o lt)[i] = ls[i]
      BY <1>5, <1>6, <2>2, <2>3
    <3> QED BY <1>3, <2>1, <3>1, <3>2
  <2>4. CASE ~ i <= Len(s)
    <3>1. i - Len(s) \in 1..Len(t) /\ st[i] = t[i - Len(s)]
      BY <1>1, <2>2, <2>4
    <3>2. (ls \o lt)[i] = lt[i - Len(s)]
      BY <1>5, <1>6, <2>2, <2>4
    <3> QED BY <1>3, <2>1, <3>1, <3>2
  <2> QED BY <2>3, <2>4
<1>8. lst = ls \o lt
  BY <1>1, <1>2, <1>5, <1>6, <1>7, SeqEqual
<1>9. FlattenSeq(ls \o lt) = FlattenSeq(ls) \o FlattenSeq(lt)
  BY <1>2, FlattenConcat DEF Q
<1> QED BY <1>4, <1>8, <1>9 DEF st

LEMMA FlatFacts ==
  /\ Flat(<<>>) = <<>>
  /\ \A c \in Command : Flat(<<c>>) = Leaves[c]
  /\ \A c \in Command : c.subs = <<>> => Leaves[c] = <<c>>
  /\ \A c \in Command : c.subs # <<>> => Leaves[c] = Flat(c.subs)
  /\ \A cs \in Seq(Command) : Flat(cs) \in Seq(Command)
<1>1. Flat(<<>>) = <<>>
  <2>1. [i \in DOMAIN <<>> |-> Leaves[<<>>[i]]] = <<>>
    OBVIOUS
  <2> QED BY <2>1, FlattenSmall DEF Flat
<1>2. ASSUME NEW c \in Command
      PROVE  Flat(<<c>>) = Leaves[c]
  <2>1. [i \in DOMAIN <<c>> |-> Leaves[<<c>>[i]]] = <<Leaves[c]>>
    OBVIOUS
  <2> QED BY <2>1, FlattenSmall DEF Flat
<1>3. \A c \in Command : /\ c.subs = <<>> => Leaves[c] = <<c>>
                         /\ c.subs # <<>> => Leaves[c] = Flat(c.subs)
  BY LeavesEquation DEF LeavesBy, Flat
<1>4. \A cs \in Seq(Command) : Flat(cs) \in Seq(Command)
  BY ListsOfLeaves, FlattenTyped DEF Flat
<1> QED BY <1>1, <1>2, <1>3, <1>4

\* A command with subcommands is replaced by them.
LEMMA FlatDescends ==
  ASSUME NEW t \in Seq(Command), t # <<>>, Head(t).subs # <<>>
  PROVE  Flat(Head(t).subs \o Tail(t)) = Flat(t)
<1>1. Head(t) \in Command /\ Tail(t) \in Seq(Command) /\ t = <<Head(t)>> \o Tail(t)
  OBVIOUS
<1>2. <<Head(t)>> \in Seq(Command) /\ Head(t).subs \in Seq(Command)
  BY <1>1, SubcommandFacts
<1>3. Flat(t) = Flat(<<Head(t)>>) \o Flat(Tail(t))
  BY <1>1, <1>2, FlatConcat
<1>4. Flat(Head(t).subs \o Tail(t)) = Flat(Head(t).subs) \o Flat(Tail(t))
  BY <1>1, <1>2, FlatConcat
<1> QED BY <1>1, <1>3, <1>4, FlatFacts

\* One without is the first leaf.
LEMMA FlatHead ==
  ASSUME NEW t \in Seq(Command), t # <<>>, Head(t).subs = <<>>
  PROVE  Flat(t) = <<Head(t)>> \o Flat(Tail(t))
<1>1. Head(t) \in Command /\ Tail(t) \in Seq(Command) /\ t = <<Head(t)>> \o Tail(t)
  OBVIOUS
<1>2. <<Head(t)>> \in Seq(Command)
  BY <1>1
<1>3. Flat(t) = Flat(<<Head(t)>>) \o Flat(Tail(t))
  BY <1>1, <1>2, FlatConcat
<1> QED BY <1>1, <1>3, FlatFacts

-----------------------------------------------------------------------------
(* The environment a leaf finds                                            *)

LEMMA MaxFacts ==
  ASSUME NEW n \in Nat, NEW E \in SUBSET (1..n), E # {}
  PROVE  Max(E) \in E /\ \A x \in E : Max(E) >= x
<1> DEFINE S == {n - x : x \in E}
<1>1. S \in SUBSET Nat /\ S # {}
  <2>1. \A x \in E : n - x \in Nat
    OBVIOUS
  <2> QED BY <2>1
<1>2. PICK m \in S : \A y \in S : m <= y
  BY <1>1, LeastNat
<1>3. PICK x \in E : m = n - x
  OBVIOUS
<1>4. \A y \in E : n - x <= n - y
  BY <1>2, <1>3
<1>5. \A y \in E : x >= y
  BY <1>4
<1> QED BY <1>5 DEF Max

ExportsOf(leaves, v) == {i \in DOMAIN leaves : leaves[i].name = "export" /\ leaves[i].var = v}

LEMMA ExportedFacts ==
  /\ Exported(<<>>) = NoEnv
  /\ \A p \in Seq(Command) : Exported(p) \in [Var -> Nat]
<1>1. Exported(<<>>) = NoEnv
  BY DEF Exported, NoEnv
<1>2. ASSUME NEW p \in Seq(Command)
      PROVE  Exported(p) \in [Var -> Nat]
  <2>1. /\ Len(p) \in Nat /\ DOMAIN p = 1..Len(p)
        /\ \A i \in DOMAIN p : p[i] \in Command /\ p[i].id \in Nat
    BY LenProperties, ElementOfSeq, CommandAssumption
  <2>2. ASSUME NEW v \in Var
        PROVE  (IF ExportsOf(p, v) = {} THEN 0 ELSE p[Max(ExportsOf(p, v))].id) \in Nat
    <3>1. CASE ExportsOf(p, v) = {}
      BY <3>1
    <3>2. CASE ExportsOf(p, v) # {}
      <4>1. ExportsOf(p, v) \in SUBSET (1..Len(p))
        BY <2>1 DEF ExportsOf
      <4>2. Max(ExportsOf(p, v)) \in DOMAIN p
        BY <2>1, <3>2, <4>1, MaxFacts
      <4> QED BY <2>1, <3>2, <4>2
    <3> QED BY <3>1, <3>2
  <2>3. Exported(p) = [v \in Var |-> IF ExportsOf(p, v) = {} THEN 0 ELSE p[Max(ExportsOf(p, v))].id]
    BY DEF Exported, ExportsOf
  <2> QED BY <2>2, <2>3
<1> QED BY <1>1, <1>2

LEMMA ExportedNext ==
  ASSUME NEW p \in Seq(Command), NEW c \in Command
  PROVE  Exported(Append(p, c)) = IF c.name = "export" THEN [Exported(p) EXCEPT ![c.var] = c.id]
                                                       ELSE Exported(p)
<1> DEFINE q == Append(p, c)
           n == Len(p)
           value(r, v) == IF ExportsOf(r, v) = {} THEN 0 ELSE r[Max(ExportsOf(r, v))].id
<1>1. /\ n \in Nat /\ DOMAIN p = 1..n /\ DOMAIN q = 1..(n + 1)
      /\ q[n + 1] = c /\ \A i \in 1..n : q[i] = p[i]
  BY LenProperties, AppendProperties
<1> HIDE DEF q, n
<1>2. \A r : Exported(r) = [v \in Var |-> value(r, v)]
  BY DEF Exported, ExportsOf
<1>3. ASSUME NEW v \in Var
      PROVE  value(q, v) = IF c.name = "export" /\ c.var = v THEN c.id ELSE value(p, v)
  <2>1. CASE c.name = "export" /\ c.var = v
    <3>1. n + 1 \in ExportsOf(q, v) /\ ExportsOf(q, v) \in SUBSET (1..(n + 1))
      BY <1>1, <2>1 DEF ExportsOf
    <3> DEFINE m == Max(ExportsOf(q, v))
    <3>2. n + 1 \in Nat
      BY <1>1
    <3>3. m \in ExportsOf(q, v) /\ m >= n + 1
      BY <3>1, <3>2, MaxFacts
    <3>4. m \in 1..(n + 1)
      BY <3>1, <3>3
    <3> HIDE DEF m
    <3>5. m = n + 1
      BY <1>1, <3>3, <3>4
    <3> QED BY <1>1, <2>1, <3>1, <3>5 DEF m
  <2>2. CASE ~ (c.name = "export" /\ c.var = v)
    <3>1. ExportsOf(q, v) = ExportsOf(p, v)
      <4>1. n + 1 \notin ExportsOf(q, v)
        BY <1>1, <2>2 DEF ExportsOf
      <4>2. \A i \in 1..n : i \in ExportsOf(q, v) <=> i \in ExportsOf(p, v)
        BY <1>1 DEF ExportsOf
      <4>3. \A i \in 1..(n + 1) : i = n + 1 \/ i \in 1..n
        BY <1>1
      <4>4. ExportsOf(q, v) \subseteq 1..(n + 1) /\ ExportsOf(p, v) \subseteq 1..n
        BY <1>1 DEF ExportsOf
      <4> QED BY <4>1, <4>2, <4>3, <4>4
    <3>2. CASE ExportsOf(p, v) = {}
      BY <2>2, <3>1, <3>2
    <3>3. CASE ExportsOf(p, v) # {}
      <4>1. ExportsOf(p, v) \in SUBSET (1..n)
        BY <1>1 DEF ExportsOf
      <4>2. Max(ExportsOf(p, v)) \in 1..n
        BY <1>1, <3>3, <4>1, MaxFacts
      <4> QED BY <1>1, <2>2, <3>1, <4>2
    <3> QED BY <3>2, <3>3
  <2> QED BY <2>1, <2>2
<1>4. CASE c.name = "export"
  <2>1. c.var \in Var
    BY CommandAssumption
  <2>2. \A v \in Var : value(q, v) = IF v = c.var THEN c.id ELSE value(p, v)
    BY <1>3, <1>4
  <2> HIDE DEF value
  <2>3. [v \in Var |-> value(q, v)] = [[v \in Var |-> value(p, v)] EXCEPT ![c.var] = c.id]
    BY <2>1, <2>2
  <2> QED BY <1>2, <1>4, <2>3 DEF q
<1>5. CASE c.name # "export"
  <2>1. \A v \in Var : value(q, v) = value(p, v)
    BY <1>3, <1>5
  <2> HIDE DEF value
  <2>2. [v \in Var |-> value(q, v)] = [v \in Var |-> value(p, v)]
    BY <2>1
  <2> QED BY <1>2, <1>5, <2>2 DEF q
<1> QED BY <1>4, <1>5

LEMMA PlanFacts ==
  ASSUME NEW b \in Build
  PROVE  /\ Leaves[Tree[b]] \in Seq(Command) /\ Len(Leaves[Tree[b]]) \in Nat
         /\ Plan(b) \in Seq(Nat \X [Var -> Nat])
         /\ Len(Plan(b)) = Len(Leaves[Tree[b]])
         /\ \A i \in 1..Len(Leaves[Tree[b]]) :
              /\ Leaves[Tree[b]][i] \in Command
              /\ Plan(b)[i] = <<Leaves[Tree[b]][i].id, Exported(SubSeq(Leaves[Tree[b]], 1, i - 1))>>
<1> DEFINE L == Leaves[Tree[b]]
           step(i) == <<L[i].id, Exported(SubSeq(L, 1, i - 1))>>
<1>1. L \in Seq(Command)
  BY BuildNumbers, LeavesTyped
<1>2. Plan(b) = [i \in DOMAIN L |-> step(i)]
  BY DEF Plan
<1> HIDE DEF L
<1>3. Len(L) \in Nat /\ DOMAIN L = 1..Len(L) /\ \A i \in 1..Len(L) : L[i] \in Command
  BY <1>1, LenProperties, ElementOfSeq
<1>4. ASSUME NEW i \in 1..Len(L)
      PROVE  step(i) \in Nat \X [Var -> Nat]
  <2>1. SubSeq(L, 1, i - 1) \in Seq(Command)
    <3>1. 1 \in Int /\ i - 1 \in Int /\ \A j \in 1..(i - 1) : L[j] \in Command
      BY <1>3
    <3> QED BY <3>1, SubSeqProperties
  <2>2. L[i].id \in Nat
    BY <1>3, CommandAssumption
  <2> QED BY <2>1, <2>2, ExportedFacts
<1> HIDE DEF step
<1>5. /\ Plan(b) \in Seq(Nat \X [Var -> Nat]) /\ Len(Plan(b)) = Len(L)
      /\ \A i \in 1..Len(L) : Plan(b)[i] = step(i)
  BY <1>2, <1>3, <1>4, IsASeq
<1> QED BY <1>1, <1>3, <1>5 DEF L, step

-----------------------------------------------------------------------------
(* How far the walk has come                                               *)

\* The first k leaves of the build are behind it, with what they export.
Walked(b, t, e, k) ==
  LET L == Leaves[Tree[b]] IN
    /\ k \in 0..Len(L)
    /\ Flat(t) = SubSeq(L, k + 1, Len(L))
    /\ e = Exported(SubSeq(L, 1, k))

LEMMA WalkBegins ==
  ASSUME NEW b \in Build
  PROVE  Walked(b, <<Tree[b]>>, NoEnv, 0)
<1> DEFINE L == Leaves[Tree[b]]
<1>1. Tree[b] \in Command /\ L \in Seq(Command) /\ Len(L) \in Nat
  BY BuildNumbers, PlanFacts
<1>2. Flat(<<Tree[b]>>) = L
  BY <1>1, FlatFacts
<1> HIDE DEF L
<1>3. SubSeq(L, 0 + 1, Len(L)) = L
  BY <1>1, SubSeqFull
<1>4. SubSeq(L, 1, 0) = <<>>
  BY <1>1, SubSeqEmpty
<1>5. NoEnv = Exported(SubSeq(L, 1, 0))
  BY <1>4, ExportedFacts
<1>6. Flat(<<Tree[b]>>) = SubSeq(L, 0 + 1, Len(L))
  BY <1>2, <1>3
<1>7. 0 \in 0..Len(L)
  BY <1>1
<1> QED BY <1>5, <1>6, <1>7 DEF Walked, L

LEMMA WalkDescends ==
  ASSUME NEW b, NEW t \in Seq(Command), NEW e, NEW k, Walked(b, t, e, k),
         t # <<>>, Head(t).subs # <<>>
  PROVE  Walked(b, Head(t).subs \o Tail(t), e, k)
BY FlatDescends DEF Walked

LEMMA WalkGoesOn ==
  ASSUME NEW b \in Build, NEW t \in Seq(Command), NEW e, NEW k, Walked(b, t, e, k),
         t # <<>>, Head(t).subs = <<>>
  PROVE  /\ k \in Nat /\ k + 1 \in 1..Len(Plan(b))
         /\ Leaves[Tree[b]][k + 1] = Head(t)
         /\ Plan(b)[k + 1] = <<Head(t).id, e>>
         /\ Walked(b, Tail(t), IF Head(t).name = "export" THEN [e EXCEPT ![Head(t).var] = Head(t).id]
                                                          ELSE e, k + 1)
<1> DEFINE L == Leaves[Tree[b]]
           c == Head(t)
           rest == Flat(Tail(t))
<1>1. L \in Seq(Command) /\ Len(L) \in Nat /\ Len(Plan(b)) = Len(L)
  BY PlanFacts
<1>2. c \in Command /\ Tail(t) \in Seq(Command) /\ rest \in Seq(Command)
  BY HeadTailProperties, FlatFacts
<1>3. k \in 0..Len(L) /\ Flat(t) = SubSeq(L, k + 1, Len(L)) /\ e = Exported(SubSeq(L, 1, k))
  BY DEF Walked
<1>4. Flat(t) = <<c>> \o rest
  BY FlatHead
<1> HIDE DEF L, c, rest
<1>5. Flat(t) # <<>>
  BY <1>2, <1>4
<1>6. k \in Nat /\ k + 1 \in 1..Len(L)
  <2>1. CASE k = Len(L)
    <3>1. SubSeq(L, k + 1, Len(L)) = <<>>
      BY <1>1, <2>1, SubSeqEmpty
    <3> QED BY <1>3, <1>5, <3>1
  <2> QED BY <1>1, <1>3, <2>1
<1>7. Flat(t) = <<L[k + 1]>> \o SubSeq(L, (k + 1) + 1, Len(L))
  <2>1. Len(L) \in (k + 1)..Len(L)
    BY <1>1, <1>6
  <2> QED BY <1>1, <1>3, <1>6, <2>1, SubSeqRecursiveFirst
<1>8. L[k + 1] \in Command /\ SubSeq(L, (k + 1) + 1, Len(L)) \in Seq(Command)
  <2>1. \A i \in ((k + 1) + 1)..Len(L) : L[i] \in Command
    BY <1>1, <1>6, ElementOfSeq
  <2> QED BY <1>1, <1>6, <2>1, ElementOfSeq, SubSeqProperties
<1>9. ASSUME NEW d \in Command, NEW s \in Seq(Command)
      PROVE  Head(<<d>> \o s) = d /\ Tail(<<d>> \o s) = s
  OBVIOUS
<1>10. L[k + 1] = c /\ SubSeq(L, (k + 1) + 1, Len(L)) = rest
  <2>1. Head(Flat(t)) = c /\ Tail(Flat(t)) = rest
    BY <1>2, <1>4, <1>9
  <2>2. Head(Flat(t)) = L[k + 1] /\ Tail(Flat(t)) = SubSeq(L, (k + 1) + 1, Len(L))
    <3> DEFINE d == L[k + 1]
               s == SubSeq(L, (k + 1) + 1, Len(L))
    <3>1. d \in Command /\ s \in Seq(Command) /\ Flat(t) = <<d>> \o s
      BY <1>7, <1>8
    <3> HIDE DEF d, s
    <3>2. Head(Flat(t)) = d /\ Tail(Flat(t)) = s
      BY <1>9, <3>1
    <3> QED BY <3>2 DEF d, s
  <2> QED BY <2>1, <2>2
<1>11. SubSeq(L, 1, k + 1) = Append(SubSeq(L, 1, k), L[k + 1]) /\ SubSeq(L, 1, k) \in Seq(Command)
  <2>1. SubSeq(L, 1, k) \in Seq(Command)
    <3>1. \A i \in 1..k : L[i] \in Command
      BY <1>1, <1>6, ElementOfSeq
    <3> QED BY <1>6, <3>1, SubSeqProperties
  <2>2. SubSeq(L, 1, k + 1) = SubSeq(L, 1, (k + 1) - 1) \o <<L[k + 1]>>
    <3>1. 1 \in 1..Len(L) /\ k + 1 \in 1..Len(L)
      BY <1>1, <1>6
    <3> QED BY <1>1, <3>1, SubSeqRecursiveSecond
  <2>3. (k + 1) - 1 = k
    BY <1>6
  <2> QED BY <1>8, <2>1, <2>2, <2>3, AppendIsConcat
<1>12. Exported(SubSeq(L, 1, k + 1)) = IF c.name = "export" THEN [e EXCEPT ![c.var] = c.id] ELSE e
  BY <1>2, <1>3, <1>10, <1>11, ExportedNext
<1>13. Plan(b)[k + 1] = <<c.id, e>>
  <2>1. Plan(b)[k + 1] = <<L[k + 1].id, Exported(SubSeq(L, 1, (k + 1) - 1))>>
    BY <1>6, PlanFacts DEF L
  <2>2. (k + 1) - 1 = k
    BY <1>6
  <2> QED BY <1>3, <1>10, <2>1, <2>2
<1>14. k + 1 \in 0..Len(L)
  BY <1>1, <1>6
<1>15. Walked(b, Tail(t), IF c.name = "export" THEN [e EXCEPT ![c.var] = c.id] ELSE e, k + 1)
  BY <1>10, <1>12, <1>14 DEF Walked, L, rest
<1> QED BY <1>1, <1>6, <1>10, <1>13, <1>15 DEF L, c

LEMMA WalkEnds ==
  ASSUME NEW b \in Build, NEW e, NEW k, Walked(b, <<>>, e, k)
  PROVE  k = Len(Plan(b))
<1> DEFINE L == Leaves[Tree[b]]
<1>1. L \in Seq(Command) /\ Len(L) \in Nat /\ Len(Plan(b)) = Len(L)
  BY PlanFacts
<1>2. k \in 0..Len(L) /\ <<>> = SubSeq(L, k + 1, Len(L))
  BY FlatFacts DEF Walked
<1> HIDE DEF L
<1>3. CASE k # Len(L)
  <2>1. k + 1 <= Len(L) /\ \A i \in (k + 1)..Len(L) : L[i] \in Command
    BY <1>1, <1>2, <1>3, ElementOfSeq
  <2>2. Len(SubSeq(L, k + 1, Len(L))) = Len(L) - (k + 1) + 1
    BY <1>1, <1>2, <2>1, SubSeqProperties
  <2>3. Len(<<>>) = 0
    OBVIOUS
  <2> QED BY <1>1, <1>2, <1>3, <2>2, <2>3
<1> QED BY <1>1, <1>3

DoneUpTo(k) ==
  \A c \in Effective, i \in 1..k : started[i][1] = c.id => c.id \in done

\* Commands of the build that are over.
Over == IF pc = "walk" THEN Len(started) ELSE Len(started) - 1

\* A build that has not failed is where the leaves behind it say; one that has
\* failed has nothing left to do.
OnPlan ==
  /\ IsPrefix(started, Plan(current))
  /\ result = "Passed" => Walked(current, todo, env, Over) /\ DoneUpTo(Over)
  /\ result # "Passed" => pc = "walk" /\ todo = <<>> /\ DoneUpTo(Len(started) - 1)
  /\ pc # "walk" => Head(todo).subs = <<>> /\ Head(todo) \in Effective

WalkInv ==
  /\ started \in Seq(Nat \X [Var -> Nat])
  /\ current # NoBuild => OnPlan
  /\ PassedMeansDone

LEMMA PrefixFacts ==
  ASSUME NEW S, NEW s \in Seq(S), NEW p \in Seq(S)
  PROVE  /\ IsPrefix(s, p) <=> Len(s) <= Len(p) /\ \A i \in 1..Len(s) : s[i] = p[i]
         /\ IsPrefix(s, p) /\ Len(s) = Len(p) => s = p
         /\ IsPrefix(<<>>, p)
<1>1. Len(s) \in Nat /\ Len(p) \in Nat /\ SubSeq(s, 1, Len(s)) = s
  BY LenProperties, SubSeqFull
<1>2. ASSUME Len(s) <= Len(p)
      PROVE  /\ SubSeq(p, 1, Len(s)) \in Seq(S) /\ Len(SubSeq(p, 1, Len(s))) = Len(s)
             /\ \A i \in 1..Len(s) : SubSeq(p, 1, Len(s))[i] = p[i]
  <2>1. \A i \in 1..Len(s) : p[i] \in S
    BY <1>1, <1>2, ElementOfSeq
  <2> DEFINE q == SubSeq(p, 1, Len(s))
  <2>2. /\ q \in Seq(S) /\ Len(q) = IF 1 <= Len(s) THEN Len(s) - 1 + 1 ELSE 0
        /\ \A i \in 1..(Len(s) - 1 + 1) : q[i] = p[1 + i - 1]
    BY <1>1, <2>1, SubSeqProperties
  <2> HIDE DEF q
  <2>3. \A i \in 1..Len(s) : i \in 1..(Len(s) - 1 + 1) /\ 1 + i - 1 = i
    BY <1>1
  <2>4. q \in Seq(S) /\ Len(q) = Len(s) /\ \A i \in 1..Len(s) : q[i] = p[i]
    BY <1>1, <2>2, <2>3
  <2> QED BY <2>4 DEF q
<1>3. IsPrefix(s, p) <=> Len(s) <= Len(p) /\ \A i \in 1..Len(s) : s[i] = p[i]
  <2>1. ASSUME IsPrefix(s, p)
        PROVE  Len(s) <= Len(p) /\ \A i \in 1..Len(s) : s[i] = p[i]
    <3>1. Len(s) <= Len(p) /\ s = SubSeq(p, 1, Len(s))
      BY <1>1, <2>1 DEF IsPrefix
    <3> QED BY <1>2, <3>1
  <2>2. ASSUME Len(s) <= Len(p), \A i \in 1..Len(s) : s[i] = p[i]
        PROVE  IsPrefix(s, p)
    <3>1. s = SubSeq(p, 1, Len(s))
      BY <1>2, <2>2, SeqEqual
    <3> QED BY <1>1, <2>2, <3>1 DEF IsPrefix
  <2> QED BY <2>1, <2>2
<1>4. ASSUME IsPrefix(s, p), Len(s) = Len(p)
      PROVE  s = p
  BY <1>3, <1>4, SeqEqual
<1>5. IsPrefix(<<>>, p)
  <2>1. Len(<<>>) = 0 /\ SubSeq(<<>>, 1, 0) = <<>> /\ SubSeq(p, 1, 0) = <<>>
    BY SubSeqEmpty
  <2> QED BY <1>1, <2>1 DEF IsPrefix
<1> QED BY <1>3, <1>4, <1>5

LEMMA EffectiveFacts ==
  ASSUME NEW c \in Command, NEW d \in Effective, d.id = c.id
  PROVE  c \in Effective /\ c.name # "export"
<1>1. d.name = c.name
  BY CommandAssumption DEF Effective
<1> QED BY <1>1 DEF Effective

\* What is done stays done, whatever begins or fails.
LEMMA DoneStays ==
  ASSUME NEW k \in Nat, DoneUpTo(k), done \subseteq done',
         \A i \in 1..k : started'[i] = started[i]
  PROVE  DoneUpTo(k)'
BY DEF DoneUpTo

LEMMA PassedStays ==
  ASSUME PassedMeansDone, done \subseteq done', status' = status
  PROVE  PassedMeansDone'
BY DEF PassedMeansDone

LEMMA CurrentFacts ==
  ASSUME BuildInv, WalkInv, current # NoBuild
  PROVE  /\ current \in Build /\ OnPlan
         /\ todo \in Seq(Command)
         /\ started \in Seq(Nat \X [Var -> Nat]) /\ Len(started) \in Nat
         /\ Plan(current) \in Seq(Nat \X [Var -> Nat]) /\ Len(Plan(current)) \in Nat
         /\ Len(started) <= Len(Plan(current))
         /\ \A i \in 1..Len(started) : started[i] = Plan(current)[i]
<1>1. current \in Build /\ OnPlan /\ todo \in Seq(Command)
  BY DEF BuildInv, BuildTypeOK, WalkInv
<1>2. started \in Seq(Nat \X [Var -> Nat]) /\ Plan(current) \in Seq(Nat \X [Var -> Nat])
  BY <1>1, PlanFacts DEF WalkInv
<1>3. IsPrefix(started, Plan(current))
  BY <1>1 DEF OnPlan
<1> QED BY <1>1, <1>2, <1>3, LenProperties, PrefixFacts

\* The next leaf is the next step of the plan.
LEMMA BeginFacts ==
  ASSUME BuildInv, WalkInv, pc = "walk", todo # <<>>, Head(todo).subs = <<>>, Begin
  PROVE  /\ current \in Build /\ current # NoBuild /\ result = "Passed"
         /\ Len(started) \in Nat /\ Len(started') = Len(started) + 1
         /\ DoneUpTo(Len(started))
         /\ started' \in Seq(Nat \X [Var -> Nat])
         /\ IsPrefix(started', Plan(current))
         /\ \A i \in 1..Len(started) : started'[i] = started[i]
         /\ started'[Len(started) + 1][1] = Head(todo).id
         /\ Head(todo) \in Command
         /\ Walked(current, todo, env, Len(started))
         /\ Walked(current, Tail(todo),
                   IF Head(todo).name = "export" THEN [env EXCEPT ![Head(todo).var] = Head(todo).id]
                                                 ELSE env, Len(started) + 1)
<1> DEFINE k == Len(started)
           x == <<Head(todo).id, env>>
<1>1. current # NoBuild
  BY DEF BuildInv, LoopInv
<1>2. result = "Passed" /\ Walked(current, todo, env, k) /\ DoneUpTo(k)
  BY <1>1, CurrentFacts DEF OnPlan, Over
<1>3. /\ k + 1 \in 1..Len(Plan(current)) /\ Plan(current)[k + 1] = x
      /\ Walked(current, Tail(todo),
                IF Head(todo).name = "export" THEN [env EXCEPT ![Head(todo).var] = Head(todo).id]
                                              ELSE env, k + 1)
  BY <1>1, <1>2, CurrentFacts, WalkGoesOn
<1>4. Head(todo) \in Command /\ x \in Nat \X [Var -> Nat]
  <2>1. Head(todo) \in Command
    BY <1>1, CurrentFacts, HeadTailProperties
  <2> QED BY <2>1, CommandAssumption DEF BuildInv, BuildTypeOK
<1>5. started' = Append(started, x)
  BY DEF Begin
<1>6. x[1] = Head(todo).id
  OBVIOUS
<1> HIDE DEF x
<1>7. /\ started' \in Seq(Nat \X [Var -> Nat]) /\ Len(started') = k + 1
      /\ \A i \in 1..k : started'[i] = started[i]
      /\ started'[k + 1] = x
  BY <1>1, <1>4, <1>5, CurrentFacts, AppendProperties
<1>8. \A i \in 1..(k + 1) : started'[i] = Plan(current)[i]
  <2>1. k \in Nat /\ \A i \in 1..(k + 1) : i \in 1..k \/ i = k + 1
    BY <1>1, CurrentFacts
  <2>2. \A i \in 1..k : started'[i] = Plan(current)[i]
    BY <1>1, <1>7, CurrentFacts
  <2> QED BY <1>3, <1>7, <2>1, <2>2
<1>9. IsPrefix(started', Plan(current))
  <2>1. Len(started') <= Len(Plan(current)) /\ \A i \in 1..Len(started') : started'[i] = Plan(current)[i]
    BY <1>1, <1>3, <1>7, <1>8, CurrentFacts
  <2> QED BY <1>1, <1>7, <2>1, CurrentFacts, PrefixFacts
<1> QED BY <1>1, <1>2, <1>3, <1>4, <1>6, <1>7, <1>9, CurrentFacts

\* Three ways a leaf can begin: it is over at once, it goes on, or it fails.
LEMMA LeafSucceeds ==
  ASSUME BuildInv, WalkInv, pc = "walk", todo # <<>>, Head(todo).subs = <<>>, Begin, Succeed,
         env' = IF Head(todo).name = "export" THEN [env EXCEPT ![Head(todo).var] = Head(todo).id]
                                              ELSE env,
         done \subseteq done', Head(todo) \in Effective => Head(todo).id \in done',
         UNCHANGED <<current, status>>
  PROVE  WalkInv'
<1>0. PICK k \in Nat : k = Len(started)
  BY BeginFacts
<1>1. /\ Len(started') = k + 1 /\ DoneUpTo(k) /\ current \in Build
      /\ started'[k + 1][1] = Head(todo).id /\ result = "Passed"
      /\ \A i \in 1..k : started'[i] = started[i]
      /\ Head(todo) \in Command
      /\ started' \in Seq(Nat \X [Var -> Nat]) /\ IsPrefix(started', Plan(current))
  BY <1>0, BeginFacts
<1>2. Walked(current', todo', env', k + 1)
  BY <1>0, BeginFacts DEF Succeed
<1>3. pc' = "walk" /\ result' = "Passed" /\ current' = current
  BY <1>1 DEF Succeed
<1>4. DoneUpTo(k)'
  BY <1>1, DoneStays
<1>5. DoneUpTo(k + 1)'
  <2> SUFFICES ASSUME NEW c \in Effective, NEW i \in 1..(k + 1), started'[i][1] = c.id
               PROVE  c.id \in done'
    BY DEF DoneUpTo
  <2>1. CASE i \in 1..k
    BY <1>4, <2>1 DEF DoneUpTo
  <2>2. CASE i = k + 1
    <3>1. Head(todo) \in Effective
      BY <1>1, <2>2, EffectiveFacts
    <3> QED BY <1>1, <2>2, <3>1
  <2> QED BY <1>1, <2>1, <2>2
<1>6. OnPlan'
  BY <1>1, <1>2, <1>3, <1>5 DEF OnPlan, Over
<1> QED BY <1>1, <1>6, PassedStays DEF WalkInv

LEMMA LeafGoesOn ==
  ASSUME BuildInv, WalkInv, pc = "walk", todo # <<>>, Head(todo).subs = <<>>, Begin,
         Head(todo) \in Effective, pc' \in {"exec", "zip", "unpack"},
         UNCHANGED <<current, todo, env, result, status, done>>
  PROVE  WalkInv'
<1>0. PICK k \in Nat : k = Len(started)
  BY BeginFacts
<1>1. /\ Len(started') = k + 1 /\ DoneUpTo(k) /\ current \in Build
      /\ result = "Passed" /\ Walked(current, todo, env, k)
      /\ \A i \in 1..k : started'[i] = started[i]
      /\ started' \in Seq(Nat \X [Var -> Nat]) /\ IsPrefix(started', Plan(current))
  BY <1>0, BeginFacts
<1>2. Walked(current', todo', env', k)
  BY <1>1
<1>3. DoneUpTo(k)'
  BY <1>1, DoneStays
<1>4. OnPlan'
  BY <1>1, <1>2, <1>3 DEF OnPlan, Over
<1> QED BY <1>1, <1>4, PassedStays DEF WalkInv

LEMMA LeafFails ==
  ASSUME BuildInv, WalkInv, pc = "walk", todo # <<>>, Head(todo).subs = <<>>, Begin,
         NEW r, r # "Passed", EndWalk(r), UNCHANGED <<current, status, done>>
  PROVE  WalkInv'
<1>0. PICK k \in Nat : k = Len(started)
  BY BeginFacts
<1>1. /\ Len(started') = k + 1 /\ DoneUpTo(k) /\ current \in Build
      /\ \A i \in 1..k : started'[i] = started[i]
      /\ started' \in Seq(Nat \X [Var -> Nat]) /\ IsPrefix(started', Plan(current))
  BY <1>0, BeginFacts
<1>2. DoneUpTo(k)'
  BY <1>1, DoneStays
<1>3. OnPlan'
  BY <1>1, <1>2 DEF OnPlan, Over, EndWalk
<1> QED BY <1>1, <1>3, PassedStays DEF WalkInv

\* What is under way when the loop executes a command.
LEMMA UnderWay ==
  ASSUME BuildInv, WalkInv, pc \in {"exec", "zip", "send", "unpack"}
  PROVE  /\ current \in Build /\ current # NoBuild /\ result = "Passed"
         /\ todo # <<>> /\ Head(todo).subs = <<>> /\ Head(todo) \in Effective
         /\ Len(started) - 1 \in Nat /\ DoneUpTo(Len(started) - 1)
         /\ IsPrefix(started, Plan(current))
         /\ started[Len(started)][1] = Head(todo).id
         /\ Walked(current, Tail(todo), env, Len(started))
<1>1. current # NoBuild /\ todo # <<>>
  BY DEF BuildInv, LoopInv
<1>2. /\ current \in Build /\ OnPlan /\ Len(started) \in Nat
      /\ todo \in Seq(Command)
      /\ \A i \in 1..Len(started) : started[i] = Plan(current)[i]
  BY <1>1, CurrentFacts
<1>3. result = "Passed" /\ Head(todo).subs = <<>> /\ Head(todo) \in Effective
      /\ IsPrefix(started, Plan(current))
      /\ DoneUpTo(Len(started) - 1) /\ Walked(current, todo, env, Len(started) - 1)
  BY <1>2 DEF OnPlan, Over
<1>4. PICK k : k = Len(started) - 1
  OBVIOUS
<1>5. Walked(current, todo, env, k)
  BY <1>3, <1>4
<1>6. /\ k \in Nat /\ Plan(current)[k + 1] = <<Head(todo).id, env>>
      /\ Walked(current, Tail(todo),
                IF Head(todo).name = "export" THEN [env EXCEPT ![Head(todo).var] = Head(todo).id]
                                              ELSE env, k + 1)
  BY <1>1, <1>2, <1>3, <1>5, WalkGoesOn
<1>7. Head(todo).name # "export"
  BY <1>3 DEF Effective
<1>8. Len(started) = k + 1 /\ Len(started) \in 1..Len(started)
  BY <1>2, <1>4, <1>6
<1>9. started[Len(started)][1] = Head(todo).id
  BY <1>2, <1>6, <1>8
<1>10. Walked(current, Tail(todo), env, Len(started))
  BY <1>6, <1>7, <1>8
<1> QED BY <1>1, <1>2, <1>3, <1>4, <1>6, <1>9, <1>10

LEMMA CommandSucceeds ==
  ASSUME BuildInv, WalkInv, pc \in {"exec", "zip", "send", "unpack"}, Succeed,
         done' = done \cup {Head(todo).id}, UNCHANGED <<current, env, status, started>>
  PROVE  WalkInv'
<1>0. PICK k \in Nat : k = Len(started) - 1
  BY UnderWay
<1>1. /\ DoneUpTo(k) /\ current \in Build /\ result = "Passed"
      /\ IsPrefix(started, Plan(current)) /\ started \in Seq(Nat \X [Var -> Nat])
      /\ started[k + 1][1] = Head(todo).id /\ Len(started) = k + 1
      /\ Walked(current, Tail(todo), env, k + 1)
  <2>1. Len(started) \in Nat /\ started \in Seq(Nat \X [Var -> Nat])
    BY UnderWay, CurrentFacts
  <2>2. Len(started) = k + 1
    BY <1>0, <2>1
  <2> QED BY <1>0, <2>1, <2>2, UnderWay
<1>2. Walked(current', todo', env', k + 1)
  BY <1>1 DEF Succeed
<1>3. DoneUpTo(k)'
  BY <1>1, DoneStays
<1>4. DoneUpTo(k + 1)'
  <2> SUFFICES ASSUME NEW c \in Effective, NEW i \in 1..(k + 1), started'[i][1] = c.id
               PROVE  c.id \in done'
    BY DEF DoneUpTo
  <2>1. CASE i \in 1..k
    BY <1>3, <2>1 DEF DoneUpTo
  <2>2. CASE i = k + 1
    BY <1>1, <2>2
  <2> QED BY <2>1, <2>2
<1>5. OnPlan'
  BY <1>1, <1>2, <1>4 DEF OnPlan, Over, Succeed
<1> QED BY <1>1, <1>5, PassedStays DEF WalkInv

LEMMA CommandFails ==
  ASSUME BuildInv, WalkInv, pc \in {"exec", "zip", "send", "unpack"},
         NEW r, r # "Passed", EndWalk(r), done \subseteq done',
         UNCHANGED <<current, status, started>>
  PROVE  WalkInv'
<1>0. PICK k \in Nat : k = Len(started) - 1
  BY UnderWay
<1>1. /\ DoneUpTo(k) /\ current \in Build
      /\ IsPrefix(started, Plan(current)) /\ started \in Seq(Nat \X [Var -> Nat])
  BY <1>0, UnderWay DEF WalkInv
<1>2. DoneUpTo(k)'
  BY <1>1, DoneStays
<1>3. OnPlan'
  BY <1>0, <1>1, <1>2 DEF OnPlan, Over, EndWalk
<1> QED BY <1>1, <1>3, PassedStays DEF WalkInv

\* The loop executes the same command as before.
LEMMA CommandStays ==
  ASSUME WalkInv, UNCHANGED <<current, todo, env, result, status, started, done>>,
         pc' = pc \/ (pc \in {"exec", "zip", "send", "unpack"} /\ pc' \in {"exec", "zip", "send", "unpack"})
  PROVE  WalkInv'
<1>1. Over' = Over
  BY DEF Over
<1>2. Len(started') = Len(started)
  OBVIOUS
<1>3. current # NoBuild /\ OnPlan => OnPlan'
  <2> SUFFICES ASSUME OnPlan PROVE OnPlan'
    OBVIOUS
  <2>1. PICK k, n : k = Over /\ n = Len(started) - 1
    OBVIOUS
  <2>2. DoneUpTo(k) <=> DoneUpTo(k)'
    BY DEF DoneUpTo
  <2>3. DoneUpTo(n) <=> DoneUpTo(n)'
    BY DEF DoneUpTo
  <2> QED BY <1>1, <2>1, <2>2, <2>3 DEF OnPlan
<1> QED BY <1>3, PassedStays DEF WalkInv

LEMMA BuildBegins ==
  ASSUME BuildInv, WalkInv, StartBuild
  PROVE  WalkInv'
<1>1. Head(inbox)[2] \in Build
  <2>1. inbox \in Seq({"build", "cancelBuild"} \X Build) /\ inbox # <<>>
    BY DEF BuildInv, BuildTypeOK, StartBuild, Receive
  <2> QED BY <2>1, InboxTypes
<1>2. PICK b \in Build : /\ current' = b /\ todo' = <<Tree[b]>>
                         /\ status' = [status EXCEPT ![b] = "Building"]
  BY <1>1 DEF StartBuild
<1>3. /\ pc' = "walk" /\ env' = NoEnv /\ result' = "Passed" /\ started' = <<>> /\ done' = done
  BY DEF StartBuild
<1>4. Walked(current', todo', env', 0)
  BY <1>2, <1>3, WalkBegins
<1>5. started' \in Seq(Nat \X [Var -> Nat]) /\ Len(started') = 0
  BY <1>3
<1>6. IsPrefix(started', Plan(current'))
  BY <1>2, <1>3, <1>5, PlanFacts, PrefixFacts
<1>7. DoneUpTo(0)'
  BY DEF DoneUpTo
<1>8. OnPlan'
  BY <1>3, <1>4, <1>5, <1>6, <1>7 DEF OnPlan, Over
<1>9. PassedMeansDone'
  BY <1>2, <1>3 DEF WalkInv, PassedMeansDone, BuildInv, BuildTypeOK
<1> QED BY <1>5, <1>8, <1>9 DEF WalkInv

LEMMA BuildDescends ==
  ASSUME BuildInv, WalkInv, Descend
  PROVE  WalkInv'
<1>1. /\ pc = "walk" /\ todo # <<>> /\ Head(todo).subs # <<>>
      /\ todo' = Head(todo).subs \o Tail(todo)
      /\ UNCHANGED <<pc, current, env, result, status, started, done>>
  BY DEF Descend, history
<1>2. current # NoBuild
  BY <1>1 DEF BuildInv, LoopInv
<1>3. PICK k : k = Len(started)
  OBVIOUS
<1>4. OnPlan /\ current \in Build /\ todo \in Seq(Command)
  BY <1>2, CurrentFacts
<1>5. result = "Passed" /\ Walked(current, todo, env, k) /\ DoneUpTo(k) /\ IsPrefix(started, Plan(current))
  BY <1>1, <1>3, <1>4 DEF OnPlan, Over
<1>6. Walked(current', todo', env', k)
  BY <1>1, <1>4, <1>5, WalkDescends
<1>7. DoneUpTo(k)'
  BY <1>1, <1>5 DEF DoneUpTo
<1>8. OnPlan'
  BY <1>1, <1>3, <1>5, <1>6, <1>7 DEF OnPlan, Over
<1> QED BY <1>1, <1>8, PassedStays DEF WalkInv

\* At the end of the walk every leaf of the tree has begun.
LEMMA PlanCarriedOut ==
  ASSUME BuildInv, WalkInv, current # NoBuild, todo = <<>>, result = "Passed"
  PROVE  started = Plan(current) /\ DoneUpTo(Len(started))
<1>1. pc = "walk"
  BY DEF BuildInv, LoopInv, BuildTypeOK
<1>2. OnPlan /\ current \in Build
  BY CurrentFacts
<1>3. Walked(current, <<>>, env, Len(started)) /\ DoneUpTo(Len(started))
  BY <1>1, <1>2 DEF OnPlan, Over
<1>4. Len(started) = Len(Plan(current))
  BY <1>2, <1>3, WalkEnds
<1> QED BY <1>2, <1>3, <1>4, CurrentFacts, PrefixFacts DEF OnPlan

LEMMA BuildReports ==
  ASSUME BuildInv, WalkInv, ReportResult
  PROVE  WalkInv'
<1>1. /\ pc = "walk" /\ todo = <<>> /\ current' = NoBuild
      /\ status' = [status EXCEPT ![current] = result]
      /\ UNCHANGED <<started, done>>
  BY DEF ReportResult
<1>2. current # NoBuild
  BY <1>1 DEF BuildInv, LoopInv
<1>3. current \in Build
  BY <1>2, CurrentFacts
<1>4. ASSUME NEW b \in Build, status'[b] = "Passed",
             NEW c \in ToSet(Leaves[Tree[b]]) \cap Effective
      PROVE  c.id \in done'
  <2>1. CASE b = current
    <3>1. result = "Passed"
      BY <1>1, <1>4, <2>1 DEF BuildInv, BuildTypeOK
    <3>2. started = Plan(b) /\ DoneUpTo(Len(started))
      BY <1>1, <1>2, <2>1, <3>1, PlanCarriedOut
    <3>3. PICK i \in DOMAIN Leaves[Tree[b]] : Leaves[Tree[b]][i] = c
      BY DEF ToSet
    <3>4. i \in 1..Len(started) /\ started[i][1] = c.id
      <4>1. i \in 1..Len(Leaves[Tree[b]])
        BY PlanFacts, LenProperties
      <4> QED BY <3>2, <3>3, <4>1, PlanFacts
    <3> QED BY <1>1, <3>2, <3>4 DEF DoneUpTo
  <2>2. CASE b # current
    <3>1. status[b] = "Passed"
      BY <1>1, <1>4, <2>2 DEF BuildInv, BuildTypeOK
    <3> QED BY <1>1, <3>1 DEF WalkInv, PassedMeansDone
  <2> QED BY <2>1, <2>2
<1>5. PassedMeansDone'
  BY <1>4 DEF PassedMeansDone
<1> QED BY <1>1, <1>5 DEF WalkInv

\* The process dies: what it has reported stays reported.
LEMMA BuildLost ==
  ASSUME WalkInv, LoseBuild
  PROVE  WalkInv'
<1>1. current' = NoBuild /\ UNCHANGED <<status, started, done>>
  BY DEF LoseBuild, history
<1> QED BY <1>1, PassedStays DEF WalkInv

LEMMA LeafSteps ==
  ASSUME BuildInv, WalkInv,
         \/ Export \/ SkipUnknown \/ FetchFile
         \/ StartProcess \/ CreateArchive \/ FetchArchive
         \/ ProcessDoesNotStart \/ UploadImpossible \/ FetchFails
  PROVE  WalkInv'
<1>1. ASSUME NEW n, At(n)
      PROVE  pc = "walk" /\ todo # <<>> /\ Head(todo).subs = <<>> /\ Head(todo).name = n
             /\ Head(todo) \in Command
  <2>1. pc = "walk" /\ todo # <<>> /\ Head(todo).subs = <<>> /\ Head(todo).name = n
    BY <1>1 DEF At
  <2> QED BY <2>1, TodoTypes DEF BuildInv, BuildTypeOK
<1>2. CASE Export
  <2>1. At("export") /\ Begin /\ Succeed /\ UNCHANGED <<current, status, done>>
        /\ env' = [env EXCEPT ![Head(todo).var] = Head(todo).id]
    BY <1>2 DEF Export
  <2>2. Head(todo) \notin Effective
    BY <1>1, <2>1 DEF Effective
  <2> QED BY <1>1, <2>1, <2>2, LeafSucceeds
<1>3. CASE SkipUnknown
  <2>1. At("unknown") /\ Begin /\ Succeed /\ UNCHANGED <<current, env, status, done>>
    BY <1>3 DEF SkipUnknown
  <2>2. Head(todo) \notin Effective
    BY <1>1, <2>1 DEF Effective
  <2> QED BY <1>1, <2>1, <2>2, LeafSucceeds
<1>4. CASE FetchFile
  <2>1. At("fetchArtifact") /\ Begin /\ Succeed /\ UNCHANGED <<current, env, status>>
        /\ done' = done \cup {Head(todo).id}
    BY <1>4 DEF FetchFile
  <2> QED BY <1>1, <2>1, LeafSucceeds
<1>5. CASE StartProcess
  <2>1. At("exec") /\ Begin /\ pc' = "exec"
        /\ UNCHANGED <<current, todo, env, result, status, done>>
    BY <1>5 DEF StartProcess, walkVars
  <2>2. Head(todo) \in Effective
    BY <1>1, <2>1 DEF Effective
  <2> QED BY <1>1, <2>1, <2>2, LeafGoesOn
<1>6. CASE CreateArchive
  <2>1. At("uploadArtifact") /\ Begin /\ pc' = "zip"
        /\ UNCHANGED <<current, todo, env, result, status, done>>
    BY <1>6 DEF CreateArchive, walkVars
  <2>2. Head(todo) \in Effective
    BY <1>1, <2>1 DEF Effective
  <2> QED BY <1>1, <2>1, <2>2, LeafGoesOn
<1>7. CASE FetchArchive
  <2>1. At("fetchArtifact") /\ Begin /\ pc' = "unpack"
        /\ UNCHANGED <<current, todo, env, result, status, done>>
    BY <1>7 DEF FetchArchive, walkVars
  <2>2. Head(todo) \in Effective
    BY <1>1, <2>1 DEF Effective
  <2> QED BY <1>1, <2>1, <2>2, LeafGoesOn
<1>8. CASE ProcessDoesNotStart
  <2>1. At("exec") /\ Begin /\ EndWalk(Interrupted) /\ UNCHANGED <<current, status, done>>
    BY <1>8 DEF ProcessDoesNotStart
  <2>2. Interrupted # "Passed"
    BY DEF Interrupted
  <2> QED BY <1>1, <2>1, <2>2, LeafFails
<1>9. CASE UploadImpossible
  <2>1. At("uploadArtifact") /\ Begin /\ EndWalk("Failed") /\ UNCHANGED <<current, status, done>>
    BY <1>9 DEF UploadImpossible, Fail
  <2> QED BY <1>1, <2>1, LeafFails
<1>10. CASE FetchFails
  <2>1. At("fetchArtifact") /\ Begin /\ EndWalk("Failed") /\ UNCHANGED <<current, status, done>>
    BY <1>10 DEF FetchFails, Fail
  <2> QED BY <1>1, <2>1, LeafFails
<1> QED BY <1>2, <1>3, <1>4, <1>5, <1>6, <1>7, <1>8, <1>9, <1>10

LEMMA CommandEnds ==
  ASSUME BuildInv, WalkInv,
         \/ EndProcess \/ UploadTaken \/ EndUnpack
         \/ ZipFails \/ UploadFails \/ UnpackFails
  PROVE  WalkInv'
<1>1. CASE EndProcess
  <2>1. pc = "exec" /\ UNCHANGED <<current, env, status, started>>
    BY <1>1 DEF EndProcess, Reap
  <2>2. \/ Succeed /\ done' = done \cup {Head(todo).id}
        \/ EndWalk(Interrupted) /\ done' = done
    BY <1>1 DEF EndProcess, Reap
  <2>3. Interrupted # "Passed"
    BY DEF Interrupted
  <2>4. CASE Succeed /\ done' = done \cup {Head(todo).id}
    BY <2>1, <2>4, CommandSucceeds
  <2>5. CASE EndWalk(Interrupted) /\ done' = done
    BY <2>1, <2>3, <2>5, CommandFails
  <2> QED BY <2>2, <2>4, <2>5
<1>2. CASE UploadTaken
  <2>1. pc = "send" /\ Succeed /\ done' = done \cup {Head(todo).id}
        /\ UNCHANGED <<current, env, status, started>>
    BY <1>2 DEF UploadTaken
  <2> QED BY <2>1, CommandSucceeds
<1>3. CASE EndUnpack
  <2>1. pc = "unpack" /\ Succeed /\ done' = done \cup {Head(todo).id}
        /\ UNCHANGED <<current, env, status, started>>
    BY <1>3 DEF EndUnpack
  <2> QED BY <2>1, CommandSucceeds
<1>4. CASE ZipFails
  <2>1. pc = "zip" /\ EndWalk("Failed") /\ UNCHANGED <<current, status, started, done>>
    BY <1>4 DEF ZipFails, Fail, history
  <2> QED BY <2>1, CommandFails
<1>5. CASE UploadFails
  <2>1. pc = "send" /\ EndWalk("Failed") /\ UNCHANGED <<current, status, started>>
    BY <1>5 DEF UploadFails, Fail
  <2>2. done \subseteq done'
    BY <1>5 DEF UploadFails
  <2> QED BY <2>1, <2>2, CommandFails
<1>6. CASE UnpackFails
  <2>1. pc = "unpack" /\ EndWalk("Failed") /\ UNCHANGED <<current, status, started, done>>
    BY <1>6 DEF UnpackFails, Fail, history
  <2> QED BY <2>1, CommandFails
<1> QED BY <1>1, <1>2, <1>3, <1>4, <1>5, <1>6

\* Neither the messages nor the output of a command move the walk.
LEMMA WalkPauses ==
  ASSUME WalkInv,
         \/ SendBuild \/ SendCancel \/ ReadCancel
         \/ ExitProcess \/ ChildExits \/ ZipSource \/ UnpackEntry
         \/ \E s \in Stream : Emit(s) \/ ReadLine(s) \/ EndPost(s) \/ ReadEOF(s)
         \/ UNCHANGED buildVars
  PROVE  WalkInv'
<1>1. UNCHANGED <<current, todo, env, result, status, started, done>>
  <2>1. CASE SendBuild
    BY <2>1 DEF SendBuild, walkVars, history
  <2>2. CASE SendCancel
    BY <2>2 DEF SendCancel, walkVars, history
  <2>3. CASE ReadCancel
    BY <2>3 DEF ReadCancel, history
  <2>4. CASE ExitProcess
    BY <2>4 DEF ExitProcess, walkVars, history
  <2>5. CASE ChildExits
    BY <2>5 DEF ChildExits, walkVars, history
  <2>6. CASE ZipSource
    BY <2>6 DEF ZipSource, walkVars, history
  <2>7. CASE UnpackEntry
    BY <2>7 DEF UnpackEntry, walkVars, history
  <2>8. ASSUME NEW s \in Stream, Emit(s) \/ ReadLine(s) \/ EndPost(s) \/ ReadEOF(s)
        PROVE  UNCHANGED <<current, todo, env, result, status, started, done>>
    BY <2>8 DEF Emit, ReadLine, EndPost, ReadEOF, walkVars, history
  <2>9. CASE UNCHANGED buildVars
    BY <2>9 DEF buildVars, walkVars, history
  <2> QED BY <2>1, <2>2, <2>3, <2>4, <2>5, <2>6, <2>7, <2>8, <2>9
<1>2. pc' = pc \/ (pc = "zip" /\ pc' = "send")
  BY DEF SendBuild, SendCancel, ReadCancel, ExitProcess, ChildExits, ZipSource, UnpackEntry,
         Emit, ReadLine, EndPost, ReadEOF, buildVars
<1> QED BY <1>1, <1>2, CommandStays

LEMMA WalkStepSafe ==
  ASSUME BuildInv, WalkInv, [BuildNext \/ LoseBuild]_buildVars
  PROVE  WalkInv'
<1>1. \/ StartBuild \/ Descend \/ ReportResult \/ LoseBuild
      \/ \/ Export \/ SkipUnknown \/ FetchFile
         \/ StartProcess \/ CreateArchive \/ FetchArchive
         \/ ProcessDoesNotStart \/ UploadImpossible \/ FetchFails
      \/ \/ EndProcess \/ UploadTaken \/ EndUnpack
         \/ ZipFails \/ UploadFails \/ UnpackFails
      \/ \/ SendBuild \/ SendCancel \/ ReadCancel
         \/ ExitProcess \/ ChildExits \/ ZipSource \/ UnpackEntry
         \/ \E s \in Stream : Emit(s) \/ ReadLine(s) \/ EndPost(s) \/ ReadEOF(s)
         \/ UNCHANGED buildVars
  BY DEF BuildNext, BuildStep
<1> QED
  BY <1>1, BuildBegins, BuildDescends, BuildReports, BuildLost, LeafSteps, CommandEnds, WalkPauses

LEMMA WalkInvariant == BuildSpec => [](BuildInv /\ WalkInv)
<1>1. BuildInit => WalkInv
  <2> SUFFICES ASSUME BuildInit PROVE WalkInv
    OBVIOUS
  <2>1. current = NoBuild /\ started = <<>> /\ status = [b \in Build |-> "none"]
    BY DEF BuildInit
  <2> QED BY <2>1 DEF WalkInv, PassedMeansDone
<1>2. BuildInv /\ WalkInv /\ [BuildNext \/ LoseBuild]_buildVars => WalkInv'
  BY WalkStepSafe
<1> QED BY <1>1, <1>2, BuildInvariant, PTL DEF BuildSpec
-----------------------------------------------------------------------------
(***************************************************************************)
(* The loop, the commands, the pipes and the temporary files stay what     *)
(* they are declared to be, for all builds.                                *)
(***************************************************************************)
THEOREM BuildTypeCorrect == BuildSpec => []BuildTypeOK
BY BuildInvariant, PTL DEF BuildInv

(***************************************************************************)
(* No build leaves a temporary archive behind but by the death of the      *)
(* process, whatever commands it has and whichever of them fail.           *)
(***************************************************************************)
THEOREM ArchivesRemoved == BuildSpec => []NoArchiveLeft
<1>1. BuildInv => NoArchiveLeft
  BY DEF BuildInv, ArchiveInv, NoArchiveLeft
<1> QED BY <1>1, BuildInvariant, PTL

(***************************************************************************)
(* The context of a build is never cancelled, whatever builds the server   *)
(* sends and whenever it cancels them.                                     *)
(***************************************************************************)
THEOREM NothingAborted == BuildSpec => [](aborted = FALSE)
<1>1. BuildInv => aborted = FALSE
  BY DEF BuildInv, LoopInv
<1> QED BY <1>1, BuildInvariant, PTL

(***************************************************************************)
(* No line of a command is outstanding when the next command begins,       *)
(* however many lines it writes and however small the pipes are.           *)
(***************************************************************************)
THEOREM LinesPostedInTime == BuildSpec => OutputPosted
<1>1. BuildInv /\ [BuildNext \/ LoseBuild]_buildVars
        => [pc = "exec" /\ pc' = "walk" => answered = emitted]_buildVars
  BY AllAnswered
<1> QED BY <1>1, BuildInvariant, PTL DEF BuildSpec, OutputPosted

(***************************************************************************)
(* Of any tree, however deep, the commands run in its order, each after    *)
(* those before it did what they are for and in the environment of its own *)
(* build; a build that passes has run to the end of its tree.              *)
(***************************************************************************)
THEOREM BuildsRunAsPlanned == BuildSpec => []RunsAsPlanned
<1>1. ASSUME BuildInv, WalkInv
      PROVE  RunsAsPlanned
  <2> SUFFICES ASSUME current # NoBuild
               PROVE  /\ IsPrefix(started, Plan(current))
                      /\ DoneUpTo(Len(started) - 1)
                      /\ todo = <<>> /\ result = "Passed" => started = Plan(current)
    BY DEF RunsAsPlanned, DoneUpTo
  <2>1. OnPlan /\ Len(started) \in Nat
    BY <1>1, CurrentFacts
  <2>2. DoneUpTo(Len(started)) => DoneUpTo(Len(started) - 1)
    <3>1. 1..(Len(started) - 1) \subseteq 1..Len(started)
      BY <2>1
    <3> QED BY <3>1 DEF DoneUpTo
  <2>3. DoneUpTo(Len(started) - 1)
    BY <2>1, <2>2 DEF OnPlan, Over
  <2> QED BY <1>1, <2>1, <2>3, PlanCarriedOut DEF OnPlan
<1> QED BY <1>1, WalkInvariant, PTL

(***************************************************************************)
(* Whatever its tree is and whichever of its commands fail or are lost, a  *)
(* build is reported Passed only if each of them did what it is for.       *)
(***************************************************************************)
THEOREM PassedBuildsAreDone == BuildSpec => []PassedMeansDone
<1>1. WalkInv => PassedMeansDone
  BY DEF WalkInv
<1> QED BY <1>1, WalkInvariant, PTL
=============================================================================
