--------------------------- MODULE MCAgentProcess ---------------------------
(***************************************************************************)
(* Two builds for one agent.  The first exports a variable, runs a command *)
(* with it, exports it anew and uploads an artifact; the second, which     *)
(* exports nothing, fetches an artifact and meets a command the agent does *)
(* not know.  The second tree is flat, as this server builds them          *)
(* (scheduler.ex, build_command_from_job_instance); the first is nested,   *)
(* as those of the original GoCD server, whose protocol the agent speaks.  *)
(***************************************************************************)
EXTENDS AgentProcess

Leaf(name, id) == [name |-> name, id |-> id, var |-> "X", subs |-> <<>>]
Compose(subs) == [name |-> "compose", id |-> 0, var |-> "X", subs |-> subs]

Export1 == Leaf("export", 1)
Exec == Leaf("exec", 2)
Export2 == Leaf("export", 3)
Upload == Leaf("uploadArtifact", 4)
Inner == Compose(<<Export2, Upload>>)
Outer1 == Compose(<<Export1, Exec, Inner>>)
Fetch == Leaf("fetchArtifact", 5)
Unknown == Leaf("unknown", 6)
Outer2 == Compose(<<Fetch, Unknown>>)

MCTree == <<Outer1, Outer2>>
MCCommand == {Outer1, Outer2, Inner, Export1, Exec, Export2, Upload, Fetch, Unknown}
=============================================================================
