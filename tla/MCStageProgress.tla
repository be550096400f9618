-------------------------- MODULE MCStageProgress --------------------------
(* Small instances of StageProgress for TLC.                               *)
EXTENDS StageProgress, TLC

\* The first stage has every job, the others have one.
MCJobsOf == [s \in 1..NStages |-> IF s = 1 THEN JobName ELSE {"compile"}]

ChannelSymmetry == Permutations(Channel)
UserSymmetry == Permutations(User)
WorkerSymmetry == ChannelSymmetry \cup UserSymmetry
=============================================================================
