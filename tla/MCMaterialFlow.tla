---------------------------- MODULE MCMaterialFlow ----------------------------
(***************************************************************************)
(* Two pipelines: 1 builds the repository, 2 both the repository and what 1 *)
(* has built, so that two paths lead from 2 to a commit.  1 has two stages. *)
(***************************************************************************)
EXTENDS MaterialFlow

MCGitsOf == <<Git, Git>>
MCUpstreamsOf == <<{}, {1}>>
MCNStages == <<2, 1>>
=============================================================================
