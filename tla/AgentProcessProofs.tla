------------------------- MODULE AgentProcessProofs -------------------------
(***************************************************************************)
(* The process of an agent does nothing but what its start and its event   *)
(* loop do, each at its time, so what is proved of either holds for it.    *)
(***************************************************************************)
EXTENDS AgentProcess, AgentStartupProofs, AgentBuildProofs

LEMMA ProcessStep ==
  ASSUME [Next]_vars
  PROVE  [StartupNext \/ Die]_startupVars /\ [BuildNext \/ LoseBuild]_buildVars
BY DEF Next, ComeUp, Serve, Surroundings, Kill, StartupNext, BuildNext, vars

(***************************************************************************)
(* Whatever becomes of the builds, the process comes up, registers and     *)
(* dies as AgentStartup says.                                              *)
(***************************************************************************)
THEOREM ProcessImplementsStartup == Spec => StartupSpec
<1>1. [Next]_vars => [StartupNext \/ Die]_startupVars
  BY ProcessStep
<1> QED BY <1>1, PTL DEF Spec, Init, StartupSpec

(***************************************************************************)
(* However often the process dies and starts again, its event loop does    *)
(* what AgentBuild says.                                                   *)
(***************************************************************************)
THEOREM ProcessImplementsBuild == Spec => BuildSpec
<1>1. [Next]_vars => [BuildNext \/ LoseBuild]_buildVars
  BY ProcessStep
<1> QED BY <1>1, PTL DEF Spec, Init, BuildSpec

(***************************************************************************)
(* Memory, files, builds and what the server knows stay well typed.        *)
(***************************************************************************)
THEOREM ProcessTypeCorrect == Spec => []TypeOK
BY ProcessImplementsStartup, ProcessImplementsBuild, StartupTypeCorrect, BuildTypeCorrect, PTL
   DEF TypeOK

(***************************************************************************)
(* The server hears of one uuid only, for every number of deaths and of    *)
(* changes of the configuration.                                           *)
(***************************************************************************)
THEOREM ProcessKeepsIdentity == Spec => []OneIdentity
BY ProcessImplementsStartup, IdentityKept, PTL

(***************************************************************************)
(* Key and certificate on the disk come from one registration, whenever the *)
(* process has died.                                                       *)
(***************************************************************************)
THEOREM ProcessKeepsKeyPair == Spec => []KeyMatchesCertificate
BY ProcessImplementsStartup, KeyPairKept, PTL

(***************************************************************************)
(* No start, and no build, spoils what an earlier start has saved.         *)
(***************************************************************************)
THEOREM ProcessSparesFiles == Spec => SavedFilesSurvive
BY ProcessImplementsStartup, FilesSpared, PTL

(***************************************************************************)
(* Between two commands there is no temporary archive but those of         *)
(* processes that were killed, for all trees of commands.                  *)
(***************************************************************************)
THEOREM ProcessLeavesNoArchive == Spec => []NoArchiveLeft
BY ProcessImplementsBuild, ArchivesRemoved, PTL

(***************************************************************************)
(* No cancelBuild ever reaches the build it is for, whenever it arrives,   *)
(* contrary to agent.go:316 and docs/status.md:486.  This is why a run the *)
(* server has cancelled is reported on all the same.                       *)
(***************************************************************************)
THEOREM ProcessAbortsNothing == Spec => [](aborted = FALSE)
BY ProcessImplementsBuild, NothingAborted, PTL

(***************************************************************************)
(* No line of a command is outstanding when the walk goes on, for all      *)
(* capacities of the pipes.                                                *)
(***************************************************************************)
THEOREM ProcessPostsLines == Spec => OutputPosted
BY ProcessImplementsBuild, LinesPostedInTime, PTL

(***************************************************************************)
(* The commands of a build run as the server asks, for all trees, whatever *)
(* builds came before it and however often the process has died.           *)
(***************************************************************************)
THEOREM ProcessRunsAsPlanned == Spec => []RunsAsPlanned
BY ProcessImplementsBuild, BuildsRunAsPlanned, PTL

(***************************************************************************)
(* A build the server knows as Passed was carried out to its last command, *)
(* for all trees and all failures and deaths.                              *)
(***************************************************************************)
THEOREM ProcessPassesWhatIsDone == Spec => []PassedMeansDone
BY ProcessImplementsBuild, PassedBuildsAreDone, PTL
=============================================================================
