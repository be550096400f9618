---------------------------- MODULE JobContract ----------------------------
(***************************************************************************)
(* What the server promises about the jobs it schedules, with no mention   *)
(* of rows, messages or processes:                                         *)
(*   - a job is handed to at most one agent, one that may run it, and is   *)
(*     never taken away again;                                             *)
(*   - a job passes or fails only after it was handed to an agent, and the *)
(*     agent's verdict is given once;                                      *)
(*   - the server may declare a job Cancelled at any time, and the agent   *)
(*     may still overrule that.                                            *)
(***************************************************************************)
CONSTANTS Job, Agent, NoAgent,
          Eligible     \* pairs <<job, agent>>: the agent may run the job

VARIABLES holder,      \* the agent each job was handed to
          verdict      \* the result recorded for each job

contractVars == <<holder, verdict>>

Init ==
  /\ holder = [j \in Job |-> NoAgent]
  /\ verdict = [j \in Job |-> "Unknown"]

\* The job goes to its one agent.
Hand(j, a) ==
  /\ holder[j] = NoAgent
  /\ <<j, a>> \in Eligible
  /\ holder' = [holder EXCEPT ![j] = a]
  /\ UNCHANGED verdict

\* The agent's verdict, unless it has already given the opposite one.
Conclude(j, v) ==
  /\ holder[j] # NoAgent
  /\ verdict[j] \in {"Unknown", "Cancelled"}
  /\ verdict' = [verdict EXCEPT ![j] = v]
  /\ UNCHANGED holder

\* The server gives up on the job.
GiveUp(j) ==
  /\ verdict[j] # "Cancelled"
  /\ verdict' = [verdict EXCEPT ![j] = "Cancelled"]
  /\ UNCHANGED holder

Next ==
  \E j \in Job :
    \/ \E a \in Agent : Hand(j, a)
    \/ \E v \in {"Passed", "Failed"} : Conclude(j, v)
    \/ GiveUp(j)

Spec == Init /\ [][Next]_contractVars
=============================================================================
