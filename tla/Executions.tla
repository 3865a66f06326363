----------------------------- MODULE Executions -----------------------------
(***************************************************************************)
(* Owned asynchronous commands: src/executions.lisp over                   *)
(* support/executions.c.                                                   *)
(*                                                                         *)
(* An extension declares commands by name; a transaction that commits      *)
(* installs the declared set.  A job is one object of that list: it is     *)
(* declared, started by a later service pass, drained, timed out or        *)
(* overflowed, and delivered; a job that is no longer declared is retired, *)
(* its process group terminated, killed after a second, and released.      *)
(* The main thread does all that one job at a time; the kernel (a leader   *)
(* that exits, relatives in its group that outlive it and hold its pipes,  *)
(* the clock) moves between any two of its steps.                          *)
(***************************************************************************)
EXTENDS ProcessLease, Sequences, FiniteSets, SequencesExt

CONSTANTS
  Jobs,         \* owned-execution objects; a finite supply bounds a run
  Identities,   \* (source, extension, name) of a declaration
  MaxActive,    \* 64 owned executions
  MaxAll,       \* 128 active or retiring executions
  TermRounds,   \* rounds of stop-executions within the second after SIGTERM
  StopRounds,   \* 200 rounds in all
  None

ASSUME ExecutionAssumption ==
  /\ MaxActive \in Nat /\ MaxAll \in Nat
  /\ TermRounds \in Nat /\ StopRounds \in Nat /\ TermRounds < StopRounds
  /\ None \notin Identities

VARIABLES
  place,   \* where a job is: "new", in a list of the runtime, or "gone"
  job,     \* the owned-execution and the process behind its lease
  turns,   \* runtime-executions, by turn
  reaping, \* the retired jobs the current service-executions has still to reap
  pass,    \* the jobs it has still to poll
  served,  \* whether this pass has serviced a job
  rounds,  \* the rounds stop-executions has made
  phase    \* "run", "stopping", "stopped" or "failed"

vars == <<place, job, turns, reaping, pass, served, rounds, phase>>

Live     == {"pending", "running", "terminating"}

In(p) == {j \in Jobs : place[j] = p}

-----------------------------------------------------------------------------
(* Operations on one job. *)

\* The owned-execution around the lease; `deadline' as `kill_at'.
NewJob(identity) ==
  [identity |-> identity, status |-> "pending", reason |-> None, held |-> FALSE,
   child |-> "none", kin |-> FALSE, stopped |-> FALSE, refused |-> FALSE, kill_at |-> "nil",
   deadline |-> "nil", eof |-> FALSE, delivered |-> FALSE]

start_execution(r, outcome) ==
  IF outcome = "error" THEN [r EXCEPT !.status = "spawn-error"]
  ELSE [r EXCEPT !.held = TRUE, !.child = outcome, !.status = "running", !.deadline = "future"]

\* What reading both pipes once may come to.
Drains(r) ==
  CASE r.eof -> {"eof"}
    [] ~r.eof /\ r.child # "alive" /\ ~r.kin -> {"some", "output-limit", "io-error", "eof"}
    [] OTHER -> {"some", "output-limit", "io-error"}

Terminating(r, reason, ok) ==
  kill_execution([r EXCEPT !.status = "terminating", !.reason = reason], ok)

drain_execution(r, outcome, ok) ==
  CASE r.status # "running" \/ outcome = "some" -> r
    [] r.status = "running" /\ outcome = "eof"  -> [r EXCEPT !.eof = TRUE]
    [] OTHER -> Terminating(r, outcome, ok)

\* Slip: the deadline is never looked at.
TimesOut_Never(r) == FALSE

TimesOut(r) ==
  /\ r.status = "running"
  /\ ~(r.child = "reaped" /\ r.eof)
  /\ r.deadline = "past"

Finishes(r) == r.child = "reaped" /\ (r.status # "running" \/ r.eof)

\* Slip: the lease is released although the group may not have been killed.
finish_execution_Releases(r, ok) ==
  IF ~Finishes(r) THEN r
  ELSE release_execution([r EXCEPT !.status = IF r.reason = None THEN "exited" ELSE r.reason])

\* The end of poll-execution, once the leader's status is known.
finish_execution(r, ok) ==
  IF ~Finishes(r) THEN r
  ELSE LET over == kill_execution([r EXCEPT !.status = IF r.reason = None THEN "exited"
                                                       ELSE r.reason], ok)
       IN IF over.stopped THEN release_execution(over) ELSE over

\* poll-execution for a job that has a process.
poll_execution(r, outcome, ok) ==
  LET drained == drain_execution(r, outcome, ok)
      signaled == IF drained.status = "terminating" THEN kill_execution(drained, ok) ELSE drained
      polled == exec_poll(signaled)
      timed == IF TimesOut(polled) THEN Terminating(polled, "timeout", ok) ELSE polled
  IN finish_execution(timed, ok)

\* install-executions, for a job that is retired.
retire_execution(r, ok) == kill_execution([r EXCEPT !.status = "cancelled"], ok)

-----------------------------------------------------------------------------
(* prepare-executions and install-executions, at a commit. *)

WithinLimits(active, retiring) ==
  /\ Cardinality(active) <= MaxActive
  /\ Cardinality(active \cup retiring \cup In("retired")) <= MaxAll

\* A declaration equal to the active job's keeps that job; any other makes a
\* new one.  A job without a process is dropped, one with a process retired.
\* Too many jobs make the preparation, and so the transaction, fail.
install_executions(keep, fresh, ok) ==
  LET retiring == {j \in In("active") \ keep : job[j].held}
  IN /\ WithinLimits(keep \cup fresh, retiring)
     /\ place' = [j \in Jobs |->
                    CASE j \in keep \cup fresh -> "active"
                      [] j \in retiring -> "retired"
                      [] place[j] = "active" /\ j \notin keep \cup retiring -> "gone"
                      [] OTHER -> place[j]]
     /\ turns' = SetToSeq(fresh) \o SelectSeq(turns, LAMBDA j : j \in keep)
     /\ \E identity \in [fresh -> Identities] :
          /\ \A j, k \in fresh : j # k => identity[j] # identity[k]
          /\ \A j \in fresh, k \in keep : identity[j] # job[k].identity
          /\ job' = [j \in Jobs |->
                       CASE j \in fresh -> NewJob(identity[j])
                         [] j \in retiring -> retire_execution(job[j], ok)
                         [] OTHER -> job[j]]

\* Any transaction between two steps of the pass: an observation's, another
\* service's, or the one that delivers a result.  None runs while jobs are
\* reaped.
Transact ==
  /\ phase = "run" /\ reaping = {}
  /\ \E keep \in SUBSET In("active"), fresh \in SUBSET In("new"), ok \in StopResults :
       /\ keep # In("active") \/ fresh # {}
       /\ install_executions(keep, fresh, ok)
  /\ UNCHANGED <<reaping, pass, served, rounds, phase>>

-----------------------------------------------------------------------------
(* service-executions. *)

\* reap-executions first, then the undelivered jobs, the longest unserved first.
StartPass ==
  /\ phase = "run" /\ reaping = {} /\ pass = <<>>
  /\ reaping' = In("retired")
  /\ pass' = SelectSeq(turns, LAMBDA j : ~job[j].delivered)
  /\ served' = FALSE
  /\ UNCHANGED <<place, job, turns, rounds, phase>>

\* One turn of reap-executions.
reap_execution(j, ok) ==
  LET r == exec_poll(kill_execution(job[j], ok))
      over == r.child = "reaped" /\ r.stopped
  IN /\ job' = [job EXCEPT ![j] = IF over THEN release_execution(r) ELSE r]
     /\ place' = [place EXCEPT ![j] = IF over THEN "gone" ELSE "retired"]

Reap ==
  /\ phase = "run"
  /\ \E j \in reaping, ok \in StopResults :
       reap_execution(j, ok) /\ reaping' = reaping \ {j}
  /\ UNCHANGED <<turns, pass, served, rounds, phase>>

\* Slip: a new job does not wait.
Fenced_Never(j) == FALSE

\* A job waits for the retired job of the same identity.
Fenced(j) ==
  /\ job[j].status = "pending"
  /\ \E i \in In("retired") : job[i].identity = job[j].identity

\* What poll-execution may make of a job.
Polled(j) ==
  LET started == IF job[j].status = "pending"
                 THEN {start_execution(job[j], o) : o \in {"error", "alive", "zombie"}}
                 ELSE {job[j]}
      drained(r) == {poll_execution(r, o, ok) : o \in Drains(r), ok \in StopResults}
  IN IF Fenced(j) THEN {job[j]}
     ELSE UNION {IF r.held THEN drained(r) ELSE {r} : r \in started}

IsTerminal(r) == r.status \notin Live

Deliverable(r) == IsTerminal(r) /\ ~r.held

\* One turn of service-executions: poll-execution, then deliver-execution.
Service ==
  /\ phase = "run" /\ reaping = {} /\ pass # <<>>
  /\ LET j == Head(pass)
     IN IF place[j] # "active" THEN UNCHANGED <<job, turns, served>>
        ELSE /\ \E r \in Polled(j) :
                  job' = [job EXCEPT ![j] =
                            [r EXCEPT !.delivered = Deliverable(r)]]
             /\ turns' = Append(SelectSeq(turns, LAMBDA i : i # j), j)
             /\ served' = TRUE
  /\ pass' = Tail(pass)
  /\ UNCHANGED <<place, reaping, rounds, phase>>

\* 64 jobs or 8 ms are enough for one pass, but one job is always serviced.
Yield ==
  /\ phase = "run" /\ reaping = {} /\ pass # <<>> /\ served
  /\ pass' = <<>>
  /\ UNCHANGED <<place, job, turns, reaping, served, rounds, phase>>

-----------------------------------------------------------------------------
(* stop-executions. *)

Stop ==
  /\ phase = "run" /\ reaping = {}
  /\ \E ok \in StopResults :
       job' = [j \in Jobs |-> IF place[j] = "active" /\ job[j].held
                              THEN retire_execution(job[j], ok) ELSE job[j]]
  /\ place' = [j \in Jobs |-> IF place[j] = "active"
                              THEN IF job[j].held THEN "retired" ELSE "gone"
                              ELSE place[j]]
  /\ turns' = <<>> /\ pass' = <<>>
  /\ phase' = "stopping"
  /\ UNCHANGED <<reaping, served, rounds>>

\* A round reaps every retired job; a second has passed by round TermRounds.
StopRound ==
  /\ phase = "stopping" /\ In("retired") # {} /\ rounds < StopRounds
  /\ \E ok \in StopResults :
       LET due == [j \in Jobs |-> IF rounds >= TermRounds /\ job[j].kill_at = "future"
                                  THEN [job[j] EXCEPT !.kill_at = "past"] ELSE job[j]]
           r == [j \in Jobs |-> exec_poll(kill_execution(due[j], ok))]
           over == {j \in In("retired") : r[j].child = "reaped" /\ r[j].stopped}
       IN /\ job' = [j \in Jobs |-> CASE j \in over -> release_execution(r[j])
                                      [] j \in In("retired") \ over -> r[j]
                                      [] OTHER -> job[j]]
          /\ place' = [j \in Jobs |-> IF j \in over THEN "gone" ELSE place[j]]
  /\ rounds' = rounds + 1
  /\ UNCHANGED <<turns, reaping, pass, served, phase>>

StopDone ==
  /\ phase = "stopping"
  /\ In("retired") = {} \/ rounds = StopRounds
  /\ phase' = IF In("retired") = {} THEN "stopped" ELSE "failed"
  /\ UNCHANGED <<place, job, turns, reaping, pass, served, rounds>>

-----------------------------------------------------------------------------
(* The kernel and the clock. *)

Kernel(j, r) ==
  /\ job' = [job EXCEPT ![j] = r]
  /\ UNCHANGED <<place, turns, reaping, pass, served, rounds, phase>>

LeaderExits(j) == job[j].child = "alive" /\ Kernel(j, Exited(job[j]))

Forks(j) == MayFork(job[j]) /\ Kernel(j, Forked(job[j]))

KinExits(j) == job[j].kin /\ Kernel(j, Orphaned(job[j]))

DeadlinePasses(j) ==
  /\ job[j].held /\ job[j].status = "running" /\ job[j].deadline = "future"
  /\ Kernel(j, [job[j] EXCEPT !.deadline = "past"])

SecondPasses(j) ==
  /\ phase = "run" \/ (phase = "stopping" /\ rounds < StopRounds)
  /\ job[j].held /\ ~job[j].stopped /\ job[j].kill_at = "future"
  /\ Kernel(j, [job[j] EXCEPT !.kill_at = "past"])

-----------------------------------------------------------------------------
Init ==
  /\ place = [j \in Jobs |-> "new"]
  /\ job = [j \in Jobs |-> NewJob(None)]
  /\ turns = <<>> /\ reaping = {} /\ pass = <<>> /\ served = FALSE
  /\ rounds = 0
  /\ phase = "run"

ServicePass == StartPass \/ Reap \/ Service \/ Yield

Shutdown == StopRound \/ StopDone

Environment ==
  \E j \in Jobs : \/ LeaderExits(j) \/ Forks(j) \/ KinExits(j)
                  \/ DeadlinePasses(j) \/ SecondPasses(j)

Next == Transact \/ ServicePass \/ Stop \/ Shutdown \/ Environment

Spec == Init /\ [][Next]_vars

\* The main loop keeps calling service-executions, time passes, and SIGKILL
\* ends the leader it is sent to.  A command may otherwise run forever.
FairSpec ==
  /\ Spec
  /\ WF_vars(ServicePass) /\ WF_vars(Shutdown)
  /\ \A j \in Jobs : /\ WF_vars(DeadlinePasses(j)) /\ WF_vars(SecondPasses(j))
                     /\ WF_vars(job[j].stopped /\ LeaderExits(j))

-----------------------------------------------------------------------------
(* Properties. *)

\* A lease ends only when the leader was reaped (no zombie stays) and its group
\* was sent SIGKILL (no relative of it stays), on every path: delivery,
\* retirement, shutdown.
ReleasedMeansOver ==
  \A j \in Jobs :
    /\ job[j].held <=> job[j].child # "none" /\ place[j] \in {"active", "retired"}
                       /\ ~job[j].delivered
    /\ ~job[j].held /\ job[j].child # "none" => job[j].child = "reaped" /\ job[j].stopped

\* stop-executions leaves no process behind that was not sent SIGKILL, but one
\* whose signals could not be sent, or not before its last second.
ShutdownKillsEverything ==
  phase \in {"stopped", "failed"} =>
    \A j \in Jobs :
      /\ job[j].held => job[j].stopped \/ job[j].refused \/ job[j].kill_at = "future"
      /\ phase = "stopped" => ~job[j].held

\* The life of a job in the list p, as far as an extension can tell.
Stage(p, r) ==
  CASE p = "new"     -> "none"
    [] p = "gone"    -> "gone"
    [] p = "retired" -> "withdrawn"
    [] p = "active"  -> IF r.delivered THEN "told" ELSE IF r.held THEN "running" ELSE "declared"

stage == [j \in Jobs |-> Stage(place[j], job[j])]

Life == INSTANCE ExecutionLife WITH stage <- stage,
                                    identity <- [j \in Jobs |-> job[j].identity]

\* The jobs live the lives ExecutionLife allows.
ImplementsLife == Life!Spec

\* Every declared command is delivered, or withdrawn, however long it or its
\* relatives run and whatever was retired before it.
DeclaredIsDelivered ==
  \A j \in Jobs :
    place[j] = "active" ~> (job[j].delivered \/ place[j] # "active")

\* Every withdrawn process is released, or shutdown has given up on it.
RetiredIsReleased ==
  \A j \in Jobs : place[j] = "retired" ~> (place[j] = "gone" \/ phase = "failed")
=============================================================================
