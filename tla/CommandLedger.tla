----------------------------- MODULE CommandLedger -----------------------------
(***************************************************************************)
(* What the command bridge promises to the operator, without files,        *)
(* network or crashes: a command is on the queue, it may be run, its       *)
(* receipt appears after it was run (or was rejected), and it leaves the   *)
(* queue through an acknowledgement only when its receipt is there.        *)
(***************************************************************************)
CONSTANTS
  Payloads,   \* the commands
  Rejected    \* those that must never be run

VARIABLES
  stage,      \* where the command is in its life
  ran,        \* the commands that have been run at least once
  receipted   \* the commands with a receipt

vars == <<stage, ran, receipted>>

Stages == {"new", "queued", "gone", "done"}

Init ==
  /\ stage = [c \in Payloads |-> "new"]
  /\ ran = {}
  /\ receipted = {}

Move(c, from, to) ==
  /\ stage[c] = from
  /\ stage' = [stage EXCEPT ![c] = to]

Submit(c) == Move(c, "new", "queued") /\ UNCHANGED <<ran, receipted>>

Withdraw(c) == Move(c, "queued", "gone") /\ UNCHANGED <<ran, receipted>>

\* A withdrawn command may still be run: the agent can hold a copy of it.
Run(c) ==
  /\ stage[c] \in {"queued", "gone"}
  /\ c \notin Rejected
  /\ ran' = ran \union {c}
  /\ UNCHANGED <<stage, receipted>>

Report(c) ==
  /\ stage[c] \in {"queued", "gone"}
  /\ c \in ran \union Rejected
  /\ receipted' = receipted \union {c}
  /\ UNCHANGED <<stage, ran>>

Acknowledge(c) ==
  /\ c \in receipted
  /\ Move(c, "queued", "done")
  /\ UNCHANGED <<ran, receipted>>

Next ==
  \E c \in Payloads :
    Submit(c) \/ Withdraw(c) \/ Run(c) \/ Report(c) \/ Acknowledge(c)

Spec == Init /\ [][Next]_vars
===============================================================================
