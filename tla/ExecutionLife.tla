--------------------------- MODULE ExecutionLife ----------------------------
(***************************************************************************)
(* What src/executions.lisp promises of the commands an extension          *)
(* declares, without turns, pipes, signals or clocks: a declared command   *)
(* runs while no other of its identity does, its result is told once, and  *)
(* a command that is withdrawn while it runs is first over, then gone.     *)
(***************************************************************************)
EXTENDS FiniteSets

CONSTANTS Jobs, Identities, None

VARIABLES
  stage,    \* "none", "declared", "running", "told", "withdrawn" or "gone"
  identity

vars == <<stage, identity>>

Init ==
  /\ stage = [j \in Jobs |-> "none"]
  /\ identity = [j \in Jobs |-> None]

\* The process of j may still exist.
Occupies(j) == stage[j] \in {"running", "withdrawn"}

Free(j) == \A i \in Jobs : Occupies(i) /\ identity[i] = identity[j] => i = j

Withdrawn(s) ==
  CASE s = "running"              -> "withdrawn"
    [] s \in {"declared", "told"} -> "gone"
    [] OTHER                      -> s

\* A transaction replaces declarations.
Redeclare(dropped, fresh) ==
  /\ \A j \in fresh : stage[j] = "none"
  /\ \A j \in dropped : stage[j] \in {"declared", "running", "told"}
  /\ stage' = [j \in Jobs |-> CASE j \in fresh   -> "declared"
                                [] j \in dropped -> Withdrawn(stage[j])
                                [] OTHER         -> stage[j]]
  /\ \E of \in [fresh -> Identities] :
       identity' = [j \in Jobs |-> IF j \in fresh THEN of[j] ELSE identity[j]]

Start(j) ==
  /\ stage[j] = "declared" /\ Free(j)
  /\ stage' = [stage EXCEPT ![j] = "running"]
  /\ UNCHANGED identity

\* Of a command that ran, or that could not be started or ended at once.
Tell(j) ==
  /\ stage[j] \in {"declared", "running"} /\ Free(j)
  /\ stage' = [stage EXCEPT ![j] = "told"]
  /\ UNCHANGED identity

Release(over) ==
  /\ \A j \in over : stage[j] = "withdrawn"
  /\ stage' = [j \in Jobs |-> IF j \in over THEN "gone" ELSE stage[j]]
  /\ UNCHANGED identity

Next ==
  \/ \E dropped, fresh \in SUBSET Jobs : Redeclare(dropped, fresh)
  \/ \E j \in Jobs : Start(j) \/ Tell(j)
  \/ \E over \in SUBSET Jobs : Release(over)

Spec == Init /\ [][Next]_vars
=============================================================================
