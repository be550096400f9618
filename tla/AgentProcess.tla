---------------------------- MODULE AgentProcess ----------------------------
(***************************************************************************)
(* The process of a Go agent from its launch to its death, again and       *)
(* again: it comes up (AgentStartup), executes builds in its event loop    *)
(* (AgentBuild), and may be killed at any point of either.  What outlives  *)
(* it are the files it keeps and the archives it has left behind.          *)
(***************************************************************************)
EXTENDS AgentStartup, AgentBuild

vars == <<startupVars, buildVars>>

Init == StartupInit /\ BuildInit

\* runAgent: New, then Start.
ComeUp == StartupStep /\ UNCHANGED buildVars

\* The event loop; the server sends builds only to an agent that is connected.
Serve == at = "loop" /\ BuildStep /\ UNCHANGED startupVars

\* What the agent has no part in.
Surroundings ==
  \/ (Reconfigure \/ Approve) /\ UNCHANGED buildVars
  \/ /\ at = "loop"
     /\ \/ \E s \in Stream : Emit(s)
        \/ ChildExits \/ SendBuild \/ SendCancel
     /\ UNCHANGED startupVars

Kill == Die /\ LoseBuild

Next == ComeUp \/ Serve \/ Surroundings \/ Kill

Spec == Init /\ [][Next]_vars

(***************************************************************************)
(* The agent is launched whenever it is down and goes on by itself.  A     *)
(* command ends, the server answers.  Nobody has to approve the agent, to  *)
(* send it a build, or to end what a command has left running.             *)
(***************************************************************************)
FairSpec == Spec /\ WF_vars(ComeUp) /\ WF_vars(Serve)

TypeOK == StartupTypeOK /\ BuildTypeOK
=============================================================================
