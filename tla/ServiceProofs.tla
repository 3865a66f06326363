---------------------------- MODULE ServiceProofs ---------------------------
(***************************************************************************)
(* Machine-checked proofs about the services of the main loop.  Types, for *)
(* any quotas and limits.  Timers: a one-shot fires once.  Processes:      *)
(* a service has one process, every process group has an owner and a       *)
(* one-shot is launched once, for any identities, any number of jobs and   *)
(* launches, any limits and failing signals.  The battery: once everything *)
(* sent has been read and answered, the policy is told what UPower says,   *)
(* or /sys without it, for any levels, bounds and interleaving.            *)
(***************************************************************************)
EXTENDS Services, Integers, FiniteSetTheorems, WellFoundedInduction, TLAPS

-----------------------------------------------------------------------------
(* Timers. *)

\* A one-shot's event was delivered only if the timer it is of is kept, fired.
ShotOnce(t) ==
  timer[t].kind = "once" => /\ shots[t] <= 1
                            /\ timer[t].state # "fired" => shots[t] = 0

TimersInv ==
  /\ timer \in [Timers -> TimerState]
  /\ shots \in [Timers -> 0..2]
  /\ \A t \in Timers : ShotOnce(t)

\* What a commit leaves of a name: its timer, consumed or not, or a new one.
LEMMA TimersCommitOnce ==
  ASSUME TimersInv, NEW told \in SUBSET Timers, install_timers(told),
         \A t \in told : timer[t].state = "due"
  PROVE  TimersInv'
<1>1. PICK kind \in [Timers -> Kinds \cup {NoTimer}], reload \in BOOLEAN :
        LET kept == {t \in Timers : Keeps(t, kind[t], reload)}
        IN /\ timer' = [t \in Timers |-> CASE t \in kept \cap told -> Consumed(t)
                                          [] t \in kept \ told -> timer[t]
                                          [] OTHER -> NewTimer(kind[t])]
           /\ shots' = [t \in Timers |->
                          CASE reload \/ kind[t] # timer[t].kind -> 0
                            [] ~reload /\ kind[t] = timer[t].kind /\ t \in told -> Counted(t)
                            [] OTHER -> shots[t]]
  BY DEF install_timers
<1>2. ASSUME NEW t \in Timers
      PROVE  /\ timer'[t] \in TimerState /\ shots'[t] \in 0..2
             /\ ShotOnce(t)'
  <2>1. CASE Keeps(t, kind[t], reload) /\ t \in told
    <3>1. timer'[t] = Consumed(t) /\ shots'[t] = Counted(t)
      BY <1>1, <2>1 DEF Keeps
    <3> QED BY <2>1, <3>1 DEF TimersInv, ShotOnce, TimerState, Consumed, Counted, Kinds
  <2>2. CASE Keeps(t, kind[t], reload) /\ t \notin told
    <3>1. timer'[t] = timer[t] /\ shots'[t] = shots[t]
      BY <1>1, <2>2 DEF Keeps
    <3> QED BY <3>1 DEF TimersInv, ShotOnce
  <2>3. CASE ~Keeps(t, kind[t], reload)
    <3>1. timer'[t] = NewTimer(kind[t]) /\ shots'[t] = 0
      BY <1>1, <2>3 DEF Keeps
    <3> QED BY <3>1 DEF ShotOnce, NewTimer, TimerState, Kinds
  <2> QED BY <2>1, <2>2, <2>3
<1>3. /\ timer' = [t \in Timers |-> timer'[t]] /\ shots' = [t \in Timers |-> shots'[t]]
  BY <1>1
<1> QED BY <1>2, <1>3 DEF TimersInv

LEMMA TimersInitially == TimersInit => TimersInv
BY TimersAssumption DEF TimersInit, TimersInv, ShotOnce, NewTimer, TimerState, Kinds

LEMMA TimersInductive == TimersInv /\ [TimersNext]_timerVars => TimersInv'
<1> SUFFICES ASSUME TimersInv, [TimersNext]_timerVars PROVE TimersInv'
  OBVIOUS
<1>1. CASE TimersCommit
  BY <1>1, TimersCommitOnce DEF TimersCommit
<1>2. CASE TimersStart
  BY <1>2 DEF TimersStart, TimersInv, ShotOnce
<1>3. CASE Fire
  <2>1. PICK t \in Timers :
          /\ timer[t].state = "due"
          /\ \/ install_timers({t})
             \/ /\ timer' = [timer EXCEPT ![t] = Consumed(t)]
                /\ shots' = [shots EXCEPT ![t] = Counted(t)]
    BY <1>3 DEF Fire
  <2>2. CASE install_timers({t})
    BY <2>1, <2>2, TimersCommitOnce
  <2>3. CASE /\ timer' = [timer EXCEPT ![t] = Consumed(t)]
             /\ shots' = [shots EXCEPT ![t] = Counted(t)]
    BY <2>1, <2>3 DEF TimersInv, ShotOnce, TimerState, Consumed, Counted, Kinds
  <2> QED BY <2>1, <2>2, <2>3
<1>4. CASE TimersYield
  BY <1>4 DEF TimersYield, TimersInv, ShotOnce
<1>5. CASE \E t \in Timers : DeadlineComes(t)
  <2>1. PICK t \in Timers : DeadlineComes(t)
    BY <1>5
  <2> QED BY <2>1 DEF DeadlineComes, TimersInv, ShotOnce, TimerState
<1>6. CASE UNCHANGED timerVars
  BY <1>6 DEF timerVars, TimersInv, ShotOnce
<1> QED BY <1>1, <1>2, <1>3, <1>4, <1>5, <1>6 DEF TimersNext, TimersService

\* No order of commits, passes, failed events and deadlines delivers the event
\* of a one-shot declaration twice.
THEOREM OneShotsFire == TimersSpec => []OneShotFiresOnce
<1>1. TimersInv => OneShotFiresOnce
  BY DEF TimersInv, ShotOnce, OneShotFiresOnce
<1> QED BY TimersInitially, TimersInductive, <1>1, PTL DEF TimersSpec

-----------------------------------------------------------------------------
(* Managed processes: the inductive invariant. *)

Types ==
  /\ where \in [Jobs -> {"none", "active", "retired", "reserved"}]
  /\ proc \in [Jobs -> ProcessState]
  /\ onces \in SUBSET Jobs
  /\ source \in 1..MaxSource
  /\ history \in [Identities -> 0..MaxSource]

\* The list a job is in says what it may be, and who owns its process.
Owned(j) ==
  /\ GroupAlive(proc[j]) => proc[j].held
  /\ proc[j].held => \/ where[j] = "retired"
                     \/ j \in onces
                     \/ where[j] = "active" /\ Is(j, "service")
  /\ j \in onces => proc[j].held /\ ~Is(j, "service") /\ where[j] \notin {"retired", "reserved"}
  /\ where[j] = "retired" => proc[j].held /\ Is(j, "service") /\ j \in Managed
  /\ where[j] = "reserved" => Is(j, "session") /\ ~proc[j].held
  /\ where[j] = "active" =>
       /\ j \in Managed
       /\ Is(j, "service") \/ Is(j, "once")
       /\ proc[j].status = "running" => Is(j, "service")
       /\ proc[j].status \in {"pending", "waiting"} => ~proc[j].held

\* One job of an identity is declared.
OneDeclared ==
  \A j, k \in Managed :
    j[1] = k[1] /\ where[j] = "active" /\ where[k] = "active" => j = k

\* A service is not started before its predecessor is gone, so one job of an
\* identity is retired at a time.
Fences ==
  \A j, k \in Managed :
    j[1] = k[1] /\ where[j] = "retired" =>
      /\ where[k] = "retired" => j = k
      /\ where[k] = "active" /\ Is(k, "service") => ~proc[k].held

ProcessInv == Types /\ (\A j \in Jobs : Owned(j)) /\ OneDeclared /\ Fences

\* A declared one-shot that is yet to be launched.
Awaits(j) == where[j] = "active" /\ Is(j, "once") /\ proc[j].status \in {"pending", "waiting"}

\* What a one-shot that awaits its launch remembers: it was not launched by the
\* version of the source it is of, and one for the session by no version.
AwaitsRightly(j) ==
  /\ proc[j].source \in 1..source
  /\ history[j[1]] < proc[j].source
  /\ proc[j].args.run # "version" => history[j[1]] = 0

\* What was launched is in the history, until the shutdown forgets it.
OnceInv ==
  /\ history \in [Identities -> 0..source]
  /\ stage = "run" =>
       /\ \A i \in Identities, n \in Nat : <<i, n>> \in ran => n <= history[i]
       /\ \A j \in Managed : Awaits(j) => AwaitsRightly(j)

\* A step that launches nothing and adds no one-shot to those that wait.
LaunchesNone ==
  \A j \in Jobs :
    /\ proc'[j].held => proc[j].held
    /\ Awaits(j)' => /\ Awaits(j)
                     /\ proc'[j].args = proc[j].args /\ proc'[j].source = proc[j].source

\* A step that declares nothing, and leaves in the other lists some of what was there.
ListsStay ==
  /\ onces' \subseteq onces
  /\ \A j \in Jobs :
       /\ where'[j] = "active" <=> where[j] = "active"
       /\ where'[j] \in {"retired", "reserved"} => where'[j] = where[j]
       /\ where[j] = "active" =>
            /\ proc'[j].args = proc[j].args /\ proc'[j].status = proc[j].status

\* The jobs that have a process, or may have one before the next commit.
Reserves(j) ==
  \/ j \in onces \/ where[j] \in {"retired", "reserved"}
  \/ where[j] = "active" /\ (Is(j, "service") \/ proc[j].status = "pending")

\* The shutdown declares nothing any more and reserves nothing new.
EndsLists == \A j \in Jobs : where'[j] # "active" /\ (Reserves(j)' => Reserves(j))

-----------------------------------------------------------------------------
(* What the operations on a process do. *)

\* q is what the process r may have become while its lease stayed.
Same(q, r) ==
  /\ q \in ProcessState
  /\ q.args = r.args /\ q.status = r.status /\ q.source = r.source
  /\ q.held = r.held
  /\ GroupAlive(q) => GroupAlive(r)

\* The same, or its lease was released, which ends its group.
Reaped(q, r) ==
  /\ q \in ProcessState
  /\ q.args = r.args /\ q.status = r.status /\ q.source = r.source
  /\ q.held => r.held
  /\ GroupAlive(q) => GroupAlive(r)
  /\ r.held /\ ~q.held => ~GroupAlive(q)

LEMMA PollSame ==
  ASSUME NEW r \in ProcessState
  PROVE  Same(exec_poll(r), r)
BY DEF Same, exec_poll, ProcessState, GroupAlive

LEMMA KillSame ==
  ASSUME NEW r \in ProcessState, NEW ok \in BOOLEAN
  PROVE  Same(kill_execution(r, ok), r)
<1>1. CASE ~r.held \/ r.stopped
  BY <1>1 DEF kill_execution, Same
<1>2. CASE ~(~r.held \/ r.stopped)
  <2> DEFINE p == exec_poll(r)
  <2>1. Same(p, r)
    BY PollSame
  <2>0. p.stopped = FALSE
    BY <1>2 DEF exec_poll, ProcessState
  <2>2. CASE ~KillIsDue(r) /\ r.kill_at # "nil"
    BY <1>2, <2>1, <2>2 DEF kill_execution
  <2>3. CASE KillIsDue(r)
    <3>1. kill_execution(r, ok) = [p EXCEPT !.eof = TRUE, !.refused = ~ok, !.stopped = ok]
      BY <1>2, <2>3 DEF kill_execution
    <3> HIDE DEF p
    <3> DEFINE q == [p EXCEPT !.eof = TRUE, !.refused = ~ok, !.stopped = ok]
    <3>2. /\ q \in ProcessState
          /\ q.args = p.args /\ q.status = p.status /\ q.source = p.source /\ q.held = p.held
          /\ q.child = p.child /\ q.kin = p.kin
      BY <2>1 DEF Same, ProcessState
    <3> HIDE DEF q
    <3>3. kill_execution(r, ok) = q
      BY <3>1 DEF q
    <3> QED BY <2>0, <2>1, <3>2, <3>3 DEF Same, GroupAlive
  <2>4. CASE ~KillIsDue(r) /\ r.kill_at = "nil"
    <3>1. kill_execution(r, ok) = [p EXCEPT !.eof = TRUE, !.refused = ~ok,
                                            !.kill_at = IF ok THEN "future" ELSE "nil"]
      BY <1>2, <2>4 DEF kill_execution
    <3> HIDE DEF p
    <3>2. PICK at \in {"future", "nil"} :
            kill_execution(r, ok) = [p EXCEPT !.eof = TRUE, !.refused = ~ok, !.kill_at = at]
      BY <3>1
    <3> DEFINE q == [p EXCEPT !.eof = TRUE, !.refused = ~ok, !.kill_at = at]
    <3>3. /\ q \in ProcessState
          /\ q.args = p.args /\ q.status = p.status /\ q.source = p.source /\ q.held = p.held
          /\ q.child = p.child /\ q.kin = p.kin /\ q.stopped = p.stopped
      BY <2>1 DEF Same, ProcessState
    <3> HIDE DEF q
    <3>4. kill_execution(r, ok) = q
      BY <3>2 DEF q
    <3> QED BY <2>1, <3>3, <3>4 DEF Same, GroupAlive
  <2> QED BY <2>2, <2>3, <2>4
<1> QED BY <1>1, <1>2

LEMMA CancelKeeps ==
  ASSUME NEW r \in ProcessState, NEW ok \in BOOLEAN
  PROVE  /\ Cancelled(r, ok) \in ProcessState
         /\ Cancelled(r, ok).args = r.args /\ Cancelled(r, ok).held = r.held
<1> DEFINE p == [r EXCEPT !.status = "cancelled"]
<1>1. p \in ProcessState /\ p.args = r.args /\ p.held = r.held
  BY DEF ProcessState, Statuses
<1>2. Cancelled(r, ok) = kill_execution(p, ok)
  BY DEF Cancelled
<1> HIDE DEF p
<1>3. Same(kill_execution(p, ok), p)
  BY <1>1, KillSame
<1> QED BY <1>1, <1>2, <1>3 DEF Same

\* A group that goes without its lease.
LEMMA ReleaseIs ==
  ASSUME NEW r \in ProcessState
  PROVE  LET q == release_execution(r)
         IN /\ q \in ProcessState
            /\ q.args = r.args /\ q.status = r.status /\ q.source = r.source /\ ~q.held
            /\ q.child = r.child /\ q.kin = r.kin /\ q.stopped = r.stopped
BY DEF release_execution, ProcessState

LEMMA ReapLease ==
  ASSUME NEW r \in ProcessState, NEW cancel \in BOOLEAN, NEW ok \in BOOLEAN
  PROVE  Reaped(reap_process_lease(r, cancel, ok), r)
<1> DEFINE first  == IF cancel THEN kill_execution(r, ok) ELSE r
           seen == exec_poll(first)
           killed == IF seen.child = "reaped" THEN kill_execution(seen, ok) ELSE seen
<1>1. Same(first, r)
  BY KillSame DEF Same
<1>2. Same(seen, first)
  BY <1>1, PollSame DEF Same
<1>3. Same(killed, seen)
  BY <1>2, KillSame DEF Same
<1>4. Same(killed, r)
  BY <1>1, <1>2, <1>3 DEF Same
<1>5. reap_process_lease(r, cancel, ok) =
        IF killed.child = "reaped" /\ killed.stopped THEN release_execution(killed) ELSE killed
  BY DEF reap_process_lease
<1> HIDE DEF killed
<1>6. CASE killed.child = "reaped" /\ killed.stopped
  BY <1>4, <1>5, <1>6, ReleaseIs DEF Reaped, Same, GroupAlive
<1>7. CASE ~(killed.child = "reaped" /\ killed.stopped)
  BY <1>4, <1>5, <1>7 DEF Reaped, Same
<1> QED BY <1>6, <1>7

LEMMA ReapOnce ==
  ASSUME NEW r \in ProcessState, NEW ok \in BOOLEAN
  PROVE  Reaped(reap_once(r, ok), r)
<1>1. CASE r.stopped
  BY <1>1, ReapLease DEF reap_once
<1>2. CASE ~r.stopped
  <2>1. Same(exec_poll(r), r)
    BY PollSame
  <2> DEFINE p == exec_poll(r)
  <2>2. reap_once(r, ok) = IF p.child = "reaped" /\ ~p.kin THEN release_execution(p) ELSE p
    BY <1>2 DEF reap_once
  <2> HIDE DEF p
  <2>3. /\ p \in ProcessState /\ p.args = r.args /\ p.status = r.status /\ p.source = r.source
        /\ p.held = r.held /\ (GroupAlive(p) => GroupAlive(r))
    BY <2>1 DEF Same, p
  <2>4. CASE p.child = "reaped" /\ ~p.kin
    BY <2>2, <2>3, <2>4, ReleaseIs DEF Reaped, GroupAlive
  <2>5. CASE ~(p.child = "reaped" /\ ~p.kin)
    BY <2>2, <2>3, <2>5 DEF Reaped
  <2> QED BY <2>4, <2>5
<1> QED BY <1>1, <1>2

\* The arguments tell the kinds apart.
LEMMA JobKinds ==
  ASSUME NEW j \in Jobs, proc[j].args \in Arguments
  PROVE  /\ ~(Is(j, "service") /\ Is(j, "once"))
         /\ ~(Is(j, "service") /\ Is(j, "session"))
         /\ ~(Is(j, "once") /\ Is(j, "session"))
BY DEF Is

-----------------------------------------------------------------------------
(* The steps that change no list. *)

LEMMA Results == StopResults \subseteq BOOLEAN
BY DEF StopResults

\* A step that leaves the lists and the leases alone.
LEMMA Quiet ==
  ASSUME ProcessInv, UNCHANGED <<where, onces, source, history>>,
         proc' \in [Jobs -> ProcessState],
         \A j \in Jobs : /\ proc'[j].args = proc[j].args /\ proc'[j].status = proc[j].status
                         /\ proc'[j].held = proc[j].held /\ proc'[j].source = proc[j].source
                         /\ GroupAlive(proc'[j]) => proc[j].held
  PROVE  ProcessInv' /\ LaunchesNone /\ ListsStay
<1>1. Types'
  BY DEF ProcessInv, Types
<1>2. \A j \in Jobs : Owned(j)'
  BY DEF ProcessInv, Owned, Is
<1>3. OneDeclared' /\ Fences'
  <2>1. Managed \subseteq Jobs
    BY DEF Jobs
  <2> QED BY <2>1 DEF ProcessInv, OneDeclared, Fences, Is
<1>4. LaunchesNone
  BY DEF LaunchesNone, Awaits, Is
<1>5. ListsStay
  BY DEF ListsStay
<1> QED BY <1>1, <1>2, <1>3, <1>4, <1>5 DEF ProcessInv

LEMMA KernelStep ==
  ASSUME ProcessInv, NEW j \in Jobs,
         ProcessExits(j) \/ ProcessForks(j) \/ RelativeExits(j) \/ SecondComes(j)
  PROVE  ProcessInv' /\ LaunchesNone /\ ListsStay
<1>1. PICK r \in ProcessState :
        /\ Becomes(j, r)
        /\ r.args = proc[j].args /\ r.status = proc[j].status /\ r.held = proc[j].held
        /\ r.source = proc[j].source
        /\ GroupAlive(r) => GroupAlive(proc[j])
  <2>1. proc[j] \in ProcessState
    BY DEF ProcessInv, Types
  <2>2. CASE ProcessExits(j)
    BY <2>1, <2>2 DEF ProcessExits, Exited, ProcessState, GroupAlive
  <2>3. CASE ProcessForks(j)
    BY <2>1, <2>3 DEF ProcessForks, MayFork, Forked, ProcessState, GroupAlive
  <2>4. CASE RelativeExits(j)
    <3>1. Becomes(j, Orphaned(proc[j]))
      BY <2>4 DEF RelativeExits
    <3>2. /\ Orphaned(proc[j]) \in ProcessState
          /\ Orphaned(proc[j]).args = proc[j].args /\ Orphaned(proc[j]).status = proc[j].status
          /\ Orphaned(proc[j]).held = proc[j].held /\ Orphaned(proc[j]).source = proc[j].source
          /\ Orphaned(proc[j]).child = proc[j].child /\ Orphaned(proc[j]).kin = FALSE
      BY <2>1 DEF Orphaned, ProcessState
    <3>3. GroupAlive(Orphaned(proc[j])) => GroupAlive(proc[j])
      BY <3>2 DEF GroupAlive
    <3> QED BY <3>1, <3>2, <3>3
  <2>5. CASE SecondComes(j)
    BY <2>1, <2>5 DEF SecondComes, ProcessState, GroupAlive
  <2> QED BY <2>2, <2>3, <2>4, <2>5
<1>2. /\ UNCHANGED <<where, onces, source, history>>
      /\ proc' = [proc EXCEPT ![j] = r]
  BY <1>1 DEF Becomes
<1>3. proc' \in [Jobs -> ProcessState]
  BY <1>2 DEF ProcessInv, Types
<1>4. \A k \in Jobs : /\ proc'[k].args = proc[k].args /\ proc'[k].status = proc[k].status
                      /\ proc'[k].held = proc[k].held /\ proc'[k].source = proc[k].source
                      /\ GroupAlive(proc'[k]) => proc[k].held
  BY <1>1, <1>2 DEF ProcessInv, Types, Owned
<1> QED BY <1>2, <1>3, <1>4, Quiet

-----------------------------------------------------------------------------
(* Reaping and starting. *)

LEMMA ForgottenIsOver ==
  ASSUME NEW r \in ProcessState, ~r.held, ~GroupAlive(r)
  PROVE  Forgotten(r) = Unmade
BY DEF Forgotten

LEMMA UnmadeIsNothing ==
  /\ Unmade \in ProcessState
  /\ ~Unmade.held /\ ~GroupAlive(Unmade) /\ Unmade.args = NoProcess
BY ProcessesAssumption DEF Unmade, NewProcess, ProcessState, GroupAlive, Arguments, Statuses

LEMMA ReapStep ==
  ASSUME ProcessInv, NEW r \in [Jobs -> ProcessState], NEW ok \in BOOLEAN,
         \A j \in Jobs : Same(r[j], proc[j]),
         reap_managed_processes(r, ok), UNCHANGED <<source, history>>
  PROVE  ProcessInv' /\ LaunchesNone /\ ListsStay
<1> DEFINE reaped == [j \in Jobs |-> CASE where[j] = "retired" -> reap_process_lease(r[j], TRUE, ok)
                                      [] j \in onces -> reap_once(r[j], ok)
                                      [] OTHER -> r[j]]
           over == {j \in At("retired") \cup onces : ~reaped[j].held}
<1>1. /\ where' = [j \in Jobs |-> IF j \in over \cap At("retired") THEN "none" ELSE where[j]]
      /\ onces' = onces \ over
      /\ proc' = [j \in Jobs |-> IF j \in over \ At("active") THEN Forgotten(reaped[j]) ELSE reaped[j]]
  BY DEF reap_managed_processes
<1>2. ASSUME NEW j \in Jobs
      PROVE  /\ Reaped(reaped[j], proc[j])
             /\ j \notin At("retired") \cup onces => reaped[j].held = proc[j].held
  <2>1. where[j] = "retired" => j \notin onces
    BY DEF ProcessInv, Owned
  <2>2. CASE where[j] = "retired"
    <3>1. reaped[j] = reap_process_lease(r[j], TRUE, ok)
      BY <2>1, <2>2
    <3>2. Same(r[j], proc[j]) /\ r[j] \in ProcessState
      OBVIOUS
    <3>3. Reaped(reap_process_lease(r[j], TRUE, ok), r[j])
      BY <3>2, ReapLease
    <3>4. Reaped(reaped[j], r[j])
      BY <3>1, <3>3
    <3>5. j \in At("retired")
      BY <2>2 DEF At
    <3> HIDE DEF reaped
    <3> QED BY <3>2, <3>4, <3>5 DEF Reaped, Same
  <2>3. CASE where[j] # "retired" /\ j \in onces
    <3>1. reaped[j] = reap_once(r[j], ok)
      BY <2>3
    <3> QED BY <2>3, <3>1, ReapOnce DEF Reaped, Same, At
  <2>4. CASE where[j] # "retired" /\ j \notin onces
    <3>1. reaped[j] = r[j]
      BY <2>4
    <3> QED BY <2>4, <3>1 DEF Reaped, Same, At
  <2> QED BY <2>2, <2>3, <2>4
<1> HIDE DEF reaped
<1>3. ASSUME NEW j \in over
      PROVE  /\ j \in Jobs /\ ~reaped[j].held /\ ~GroupAlive(reaped[j])
             /\ Forgotten(reaped[j]) = Unmade
  <2>1. j \in Jobs /\ ~reaped[j].held /\ proc[j].held
    BY DEF ProcessInv, Types, Owned, At
  <2> QED BY <2>1, <1>2, ForgottenIsOver DEF Reaped
<1>4. ASSUME NEW j \in Jobs
      PROVE  proc'[j] = IF j \in over \ At("active") THEN Unmade ELSE reaped[j]
  BY <1>1, <1>3
<1>5. Types'
  <2>1. \A j \in Jobs : proc'[j] \in ProcessState
    BY <1>2, <1>4, UnmadeIsNothing DEF Reaped
  <2>2. proc' = [j \in Jobs |-> proc'[j]]
    BY <1>1
  <2> QED BY <1>1, <2>1, <2>2 DEF ProcessInv, Types
<1>6. ASSUME NEW j \in Jobs PROVE Owned(j)'
  <2>1. CASE j \in over \ At("active")
    <3>1. proc'[j] = Unmade /\ j \notin onces' /\ where'[j] \notin {"retired", "active"}
      BY <1>1, <1>4, <2>1 DEF At
    <3>2. where'[j] # "reserved"
      BY <1>1, <2>1 DEF At, ProcessInv, Owned
    <3> QED BY <3>1, <3>2, UnmadeIsNothing DEF Owned
  <2>2. CASE j \in over \cap At("active")
    <3>1. /\ proc'[j] = reaped[j] /\ j \notin onces' /\ where'[j] = "active" /\ where[j] = "active"
          /\ ~reaped[j].held /\ ~GroupAlive(reaped[j])
          /\ reaped[j].args = proc[j].args /\ reaped[j].status = proc[j].status
      BY <1>1, <1>2, <1>3, <1>4, <2>2 DEF At, Reaped
    <3> QED BY <3>1 DEF Owned, ProcessInv, Is
  <2>3. CASE j \notin over
    <3>1. /\ proc'[j] = reaped[j] /\ where'[j] = where[j] /\ (j \in onces' <=> j \in onces)
          /\ reaped[j].args = proc[j].args /\ reaped[j].status = proc[j].status
          /\ GroupAlive(reaped[j]) => GroupAlive(proc[j])
      BY <1>1, <1>2, <1>4, <2>3 DEF Reaped
    <3>2. reaped[j].held = proc[j].held
      <4>1. CASE j \in At("retired") \cup onces
        <5>1. reaped[j].held /\ proc[j].held
          BY <4>1, <2>3 DEF At, ProcessInv, Owned
        <5>2. reaped[j] \in ProcessState /\ proc[j] \in ProcessState
          BY <1>2 DEF Reaped, ProcessInv, Types
        <5> QED BY <5>1, <5>2 DEF ProcessState
      <4> QED BY <4>1, <1>2
    <3> QED BY <3>1, <3>2 DEF Owned, ProcessInv, Is
  <2> QED BY <2>1, <2>2, <2>3
<1>7. \A j \in Jobs : where'[j] \in {"active", "retired"} =>
        /\ where[j] = where'[j] /\ proc'[j].args = proc[j].args
        /\ proc'[j].held => proc[j].held
  BY <1>1, <1>2, <1>4 DEF At, Reaped, ProcessInv, Owned
<1>8. OneDeclared' /\ Fences'
  <2>1. Managed \subseteq Jobs
    BY DEF Jobs
  <2> QED BY <1>7, <2>1 DEF ProcessInv, OneDeclared, Fences, Is
<1>9. ASSUME NEW j \in Jobs
      PROVE  /\ proc'[j].held => proc[j].held
             /\ where'[j] = "active" => /\ where[j] = "active" /\ proc'[j].args = proc[j].args
                                        /\ proc'[j].status = proc[j].status
                                        /\ proc'[j].source = proc[j].source
  <2>1. proc'[j].held => proc[j].held
    BY <1>2, <1>4, UnmadeIsNothing DEF Reaped
  <2>2. where'[j] = "active" => where[j] = "active" /\ proc'[j] = reaped[j]
    BY <1>1, <1>4 DEF At
  <2> QED BY <1>2, <2>1, <2>2 DEF Reaped
<1>10. LaunchesNone
  BY <1>9 DEF LaunchesNone, Awaits, Is
<1>11. ListsStay
  <2>1. onces' \subseteq onces
    BY <1>1
  <2>2. ASSUME NEW j \in Jobs
        PROVE  /\ where'[j] = "active" <=> where[j] = "active"
               /\ where'[j] \in {"retired", "reserved"} => where'[j] = where[j]
    BY <1>1 DEF At
  <2> QED BY <1>9, <2>1, <2>2 DEF ListsStay
<1> QED BY <1>5, <1>6, <1>8, <1>10, <1>11 DEF ProcessInv

\* The turn of the declared job j, which becomes r and may be launched.
LEMMA TurnStep ==
  ASSUME ProcessInv, NEW j \in Managed, where[j] = "active", NEW r \in ProcessState,
         proc' = [proc EXCEPT ![j] = r], UNCHANGED <<where, source>>,
         history' \in [Identities -> 0..MaxSource],
         onces' = onces \/ (onces' = onces \cup {j} /\ ~Is(j, "service") /\ r.held),
         r.args = proc[j].args, GroupAlive(r) => r.held,
         r.held => proc[j].held \/ j \in onces' \/ (Is(j, "service") /\ ~FencedProcess(j)),
         j \in onces => r.held,
         r.status = "running" => Is(j, "service"),
         r.status \in {"pending", "waiting"} => ~r.held
  PROVE  ProcessInv'
<1>0. Managed \subseteq Jobs /\ j \in Jobs
  BY DEF Jobs
<1>1. /\ proc'[j] = r
      /\ \A k \in Jobs \ {j} : proc'[k] = proc[k]
      /\ proc' \in [Jobs -> ProcessState]
  BY <1>0 DEF ProcessInv, Types
<1>2. \A k \in Jobs : proc'[k].args = proc[k].args
  BY <1>1
<1>3. Types'
  BY <1>0, <1>1 DEF ProcessInv, Types
<1>4. ASSUME NEW k \in Jobs PROVE Owned(k)'
  <2>1. CASE k = j
    BY <1>0, <1>1, <2>1 DEF ProcessInv, Owned, Is
  <2>2. CASE k # j
    BY <1>1, <2>2 DEF ProcessInv, Owned, Is
  <2> QED BY <2>1, <2>2
<1>5. OneDeclared'
  BY DEF ProcessInv, OneDeclared
<1>6. ASSUME NEW k \in Managed, NEW m \in Managed, k[1] = m[1], where[k] = "retired"
      PROVE  /\ where[m] = "retired" => k = m
             /\ where[m] = "active" /\ Is(m, "service")' => ~proc'[m].held
  <2>1. /\ where[m] = "retired" => k = m
        /\ where[m] = "active" /\ Is(m, "service") => ~proc[m].held
    BY <1>6 DEF ProcessInv, Fences
  <2>2. Is(m, "service")' <=> Is(m, "service")
    BY <1>0, <1>2 DEF Is
  <2>3. CASE m = j
    <3>1. FencedProcess(j)
      BY <1>0, <1>6, <2>3 DEF FencedProcess, At
    <3>2. Is(j, "service") => j \notin onces'
      BY <1>0 DEF ProcessInv, Owned
    <3> QED BY <1>1, <2>1, <2>2, <2>3, <3>1, <3>2
  <2>4. CASE m # j
    BY <1>0, <1>1, <2>1, <2>2, <2>4
  <2> QED BY <2>3, <2>4
<1>7. Fences'
  BY <1>6 DEF Fences
<1> QED BY <1>3, <1>4, <1>5, <1>7 DEF ProcessInv

\* A process that is started, or not, for a job that has none.
LEMMA StartedIs ==
  ASSUME NEW r \in ProcessState
  PROVE  /\ Started(r) \in ProcessState /\ Started(r).args = r.args /\ Started(r).held
         /\ Started(r).status = IF r.args.kind = "service" THEN "running" ELSE "launched"
BY DEF Started, ProcessState, Statuses

LEMMA StartStep ==
  ASSUME ProcessInv, NEW j \in Managed, where[j] = "active", NEW r \in ProcessState,
         UNCHANGED <<where, source>>, start_managed_process(j, r),
         r.args = proc[j].args, ~r.held, ~GroupAlive(r), j \notin onces,
         ~FencedProcess(j)
  PROVE  ProcessInv'
<1>0. j \in Jobs /\ r.source \in 0..MaxSource /\ history \in [Identities -> 0..MaxSource]
  BY DEF Jobs, ProcessState, ProcessInv, Types
<1>1. (Is(j, "service") \/ Is(j, "once")) /\ (Is(j, "service") <=> r.args.kind = "service")
  BY <1>0 DEF ProcessInv, Owned, Is
<1>2. CASE /\ proc' = [proc EXCEPT ![j] = Started(r)]
           /\ onces' = IF r.args.kind = "service" THEN onces ELSE onces \cup {j}
           /\ IF r.args.kind = "once"
              THEN /\ history' = [history EXCEPT ![j[1]] = r.source]
                   /\ ran' = ran \cup {<<j[1], r.source>>}
              ELSE UNCHANGED <<history, ran>>
  <2>1. history' \in [Identities -> 0..MaxSource]
    BY <1>0, <1>2
  <2>2. Started(r).status = "running" => Is(j, "service")
    BY <1>1, StartedIs
  <2>3. Started(r).status \notin {"pending", "waiting"}
    BY StartedIs
  <2>4. onces' = onces \/ (onces' = onces \cup {j} /\ ~Is(j, "service"))
    BY <1>1, <1>2
  <2>5. j \in onces' \/ (Is(j, "service") /\ ~FencedProcess(j))
    BY <1>1, <1>2
  <2> QED BY <1>2, <2>1, <2>2, <2>3, <2>4, <2>5, StartedIs, TurnStep
<1>3. CASE /\ proc' = [proc EXCEPT ![j] = IF r.args.kind = "session" THEN Forgotten(r)
                                          ELSE [r EXCEPT !.status = "spawn-error"]]
           /\ UNCHANGED <<onces, history, ran>>
  <2> DEFINE q == [r EXCEPT !.status = "spawn-error"]
  <2>1. r.args.kind # "session"
    BY <1>1 DEF Is
  <2>2. proc' = [proc EXCEPT ![j] = q]
    BY <1>3, <2>1
  <2>3. /\ q \in ProcessState /\ q.args = r.args /\ ~q.held /\ q.status = "spawn-error"
        /\ GroupAlive(q) <=> GroupAlive(r)
    BY DEF ProcessState, Statuses, GroupAlive
  <2> HIDE DEF q
  <2> QED BY <1>0, <1>3, <2>2, <2>3, TurnStep
<1> QED BY <1>2, <1>3 DEF start_managed_process

LEMMA ServeStep == ASSUME ProcessInv, Serve PROVE ProcessInv'
<1>1. PICK j \in Managed :
         IF ~Ready(j) THEN UNCHANGED <<proc, onces, history, line, ran>>
         ELSE \E failed \in BOOLEAN, ok \in StopResults :
                LET r == IF proc[j].status = "running" THEN Looked(proc[j], failed, ok)
                         ELSE proc[j]
                IN IF r.status \in {"pending", "waiting"} /\ ~FencedProcess(j)
                   THEN start_managed_process(j, r)
                   ELSE /\ proc' = [proc EXCEPT ![j] = r]
                        /\ UNCHANGED <<onces, history, ran>>
  BY DEF Serve
<1>2. UNCHANGED <<where, source>> /\ j \in Jobs /\ proc[j] \in ProcessState
  BY DEF Serve, Jobs, ProcessInv, Types
<1>3. CASE ~Ready(j)
  BY <1>1, <1>2, <1>3, Quiet DEF Serve, ProcessInv, Types, Owned
<1>4. CASE Ready(j)
  <2>1. where[j] = "active"
    BY <1>4 DEF Ready
  <2>2. PICK failed \in BOOLEAN, ok \in StopResults :
           LET r == IF proc[j].status = "running" THEN Looked(proc[j], failed, ok)
                    ELSE proc[j]
           IN IF r.status \in {"pending", "waiting"} /\ ~FencedProcess(j)
              THEN start_managed_process(j, r)
              ELSE /\ proc' = [proc EXCEPT ![j] = r]
                   /\ UNCHANGED <<onces, history, ran>>
    BY <1>1, <1>4
  <2> DEFINE r == IF proc[j].status = "running" THEN Looked(proc[j], failed, ok) ELSE proc[j]
  <2>3. /\ r \in ProcessState /\ r.args = proc[j].args
        /\ r.held => proc[j].held
        /\ GroupAlive(r) => r.held
        /\ r.status = "running" => Is(j, "service")
        /\ r.status \in {"pending", "waiting"} => ~r.held
        /\ j \in onces => r.held /\ r.status \notin {"pending", "waiting"}
    <3>1. CASE proc[j].status # "running"
      BY <1>2, <2>1, <3>1 DEF ProcessInv, Owned
    <3>2. CASE proc[j].status = "running"
      <4>1. Is(j, "service") /\ j \notin onces
        BY <1>2, <2>1, <3>2 DEF ProcessInv, Owned
      <4> DEFINE q == reap_process_lease(proc[j], FALSE, ok)
      <4>2. Reaped(q, proc[j])
        BY <1>2, ReapLease, Results
      <4>3. r = IF q.held THEN [q EXCEPT !.deadline = "future"]
                ELSE [q EXCEPT !.status = IF Again(proc[j], failed) THEN "waiting" ELSE "stopped"]
        BY <3>2 DEF Looked
      <4>4. GroupAlive(q) => q.held
        BY <1>2, <4>2 DEF Reaped, ProcessInv, Owned
      <4> HIDE DEF q, r
      <4>5. CASE q.held
        <5>1. r = [q EXCEPT !.deadline = "future"]
          BY <4>3, <4>5
        <5>2. r \in ProcessState /\ r.args = q.args /\ r.held = q.held /\ r.status = q.status
          BY <4>2, <5>1 DEF Reaped, ProcessState
        <5> QED BY <3>2, <4>1, <4>2, <4>5, <5>2 DEF Reaped
      <4>6. CASE ~q.held
        <5>1. PICK s \in {"waiting", "stopped"} : r = [q EXCEPT !.status = s]
          BY <4>3, <4>6
        <5>2. /\ r \in ProcessState /\ r.args = q.args /\ r.held = q.held /\ r.status = s
              /\ GroupAlive(r) <=> GroupAlive(q)
          BY <4>2, <5>1 DEF Reaped, ProcessState, Statuses, GroupAlive
        <5> QED BY <4>1, <4>2, <4>4, <4>6, <5>1, <5>2 DEF Reaped
      <4> QED BY <4>5, <4>6
    <3> QED BY <3>1, <3>2
  <2>4. CASE r.status \in {"pending", "waiting"} /\ ~FencedProcess(j)
    <3>1. start_managed_process(j, r)
      BY <2>2, <2>4
    <3> HIDE DEF r
    <3> QED BY <1>2, <2>1, <2>3, <2>4, <3>1, StartStep
  <2>5. CASE ~(r.status \in {"pending", "waiting"} /\ ~FencedProcess(j))
    <3>1. proc' = [proc EXCEPT ![j] = r] /\ UNCHANGED <<onces, history, ran>>
      BY <2>2, <2>5
    <3>2. history' \in [Identities -> 0..MaxSource]
      BY <3>1 DEF ProcessInv, Types
    <3> HIDE DEF r
    <3> QED BY <1>2, <2>1, <2>3, <3>1, <3>2, TurnStep
  <2> QED BY <2>4, <2>5
<1> QED BY <1>3, <1>4

LEMMA LaunchStep == ASSUME ProcessInv, LaunchSpawn PROVE ProcessInv'
<1>1. PICK j \in At("reserved") :
        /\ start_managed_process(j, proc[j])
        /\ where' = [where EXCEPT ![j] = "none"]
  BY DEF LaunchSpawn
<1>2. /\ j \in Jobs /\ where[j] = "reserved" /\ proc[j] \in ProcessState /\ source' = source
      /\ Is(j, "session") /\ ~proc[j].held /\ ~GroupAlive(proc[j]) /\ j \notin onces
  BY DEF At, LaunchSpawn, ProcessInv, Types, Owned
<1>3. proc[j].args.kind = "session"
  BY <1>2 DEF Is
<1>4. /\ where'[j] = "none" /\ \A k \in Jobs \ {j} : where'[k] = where[k]
      /\ where' \in [Jobs -> {"none", "active", "retired", "reserved"}]
  BY <1>1, <1>2 DEF ProcessInv, Types
<1>5. PICK r \in ProcessState :
        /\ proc' = [proc EXCEPT ![j] = r] /\ history' = history
        /\ \/ onces' = onces \cup {j} /\ r.held /\ r.args.kind = "session" /\ r.args # NoProcess
           \/ onces' = onces /\ ~r.held /\ ~GroupAlive(r)
  <2>1. CASE /\ proc' = [proc EXCEPT ![j] = Started(proc[j])]
             /\ onces' = IF proc[j].args.kind = "service" THEN onces ELSE onces \cup {j}
             /\ IF proc[j].args.kind = "once"
                THEN /\ history' = [history EXCEPT ![j[1]] = proc[j].source]
                     /\ ran' = ran \cup {<<j[1], proc[j].source>>}
                ELSE UNCHANGED <<history, ran>>
    <3>1. proc' = [proc EXCEPT ![j] = Started(proc[j])] /\ history' = history
      BY <1>3, <2>1
    <3>2. onces' = onces \cup {j}
      BY <1>3, <2>1
    <3>3. /\ Started(proc[j]) \in ProcessState /\ Started(proc[j]).held
          /\ Started(proc[j]).args.kind = "session" /\ Started(proc[j]).args # NoProcess
      BY <1>2, <1>3, StartedIs DEF Is
    <3> HIDE DEF Started
    <3> QED BY <3>1, <3>2, <3>3
  <2>2. CASE /\ proc' = [proc EXCEPT ![j] = Forgotten(proc[j])]
             /\ UNCHANGED <<onces, history, ran>>
    BY <1>2, <2>2, ForgottenIsOver, UnmadeIsNothing
  <2> QED BY <1>1, <1>3, <2>1, <2>2 DEF start_managed_process
<1>6. /\ proc'[j] = r /\ \A k \in Jobs \ {j} : proc'[k] = proc[k]
      /\ proc' \in [Jobs -> ProcessState]
  BY <1>2, <1>5 DEF ProcessInv, Types
<1>7. Types'
  BY <1>2, <1>4, <1>5, <1>6 DEF ProcessInv, Types
<1>8. ASSUME NEW k \in Jobs PROVE Owned(k)'
  <2>1. CASE k = j
    BY <1>2, <1>4, <1>5, <1>6, <2>1 DEF Owned, Is
  <2>2. CASE k # j
    BY <1>4, <1>5, <1>6, <2>2 DEF ProcessInv, Owned, Is
  <2> QED BY <2>1, <2>2
<1>9. \A k \in Jobs : where'[k] \in {"active", "retired"} =>
                        where[k] = where'[k] /\ proc'[k] = proc[k]
  BY <1>4, <1>6
<1>10. OneDeclared' /\ Fences'
  <2>1. Managed \subseteq Jobs
    BY DEF Jobs
  <2> QED BY <1>9, <2>1 DEF ProcessInv, OneDeclared, Fences, Is
<1> QED BY <1>7, <1>8, <1>10 DEF ProcessInv

-----------------------------------------------------------------------------
(* The pass and the shutdown. *)

LEMMA PassStep ==
  ASSUME ProcessInv, ProcessesStart PROVE ProcessInv' /\ LaunchesNone /\ ListsStay
<1>1. PICK ok \in StopResults : reap_managed_processes(proc, ok)
  BY DEF ProcessesStart
<1>2. proc \in [Jobs -> ProcessState] /\ \A j \in Jobs : Same(proc[j], proc[j])
  BY DEF ProcessInv, Types, Same
<1> QED BY <1>1, <1>2, Results, ReapStep DEF ProcessesStart

LEMMA RoundStep ==
  ASSUME ProcessInv, ProcessesStopRound PROVE ProcessInv' /\ LaunchesNone /\ ListsStay
<1> DEFINE overdue == [j \in Jobs |-> IF round >= LateRound /\ proc[j].kill_at = "future"
                                        THEN [proc[j] EXCEPT !.kill_at = "past"] ELSE proc[j]]
           Killed(ok) == [j \in Jobs |-> IF j \in onces THEN kill_execution(overdue[j], ok) ELSE overdue[j]]
<1>1. PICK ok \in StopResults : reap_managed_processes(Killed(ok), ok)
  BY DEF ProcessesStopRound
<1>2. ASSUME NEW j \in Jobs PROVE Same(overdue[j], proc[j])
  <2>1. proc[j] \in ProcessState
    BY DEF ProcessInv, Types
  <2>2. Same([proc[j] EXCEPT !.kill_at = "past"], proc[j])
    BY <2>1 DEF Same, ProcessState, GroupAlive
  <2> QED BY <2>1, <2>2 DEF Same
<1> HIDE DEF overdue
<1>3. ASSUME NEW j \in Jobs PROVE Same(Killed(ok)[j], proc[j])
  <2>1. overdue[j] \in ProcessState
    BY <1>2 DEF Same
  <2>2. Same(kill_execution(overdue[j], ok), overdue[j])
    BY <2>1, Results, KillSame
  <2> QED BY <1>2, <2>2 DEF Same
<1>4. Killed(ok) \in [Jobs -> ProcessState]
  BY <1>3 DEF Same
<1> QED BY <1>1, <1>3, <1>4, Results, ReapStep DEF ProcessesStopRound

\* Another list for some jobs: what leaves its list has no process, unless it
\* is a one-shot that was launched, and what has one is retired.
LEMMA StopStep ==
  ASSUME ProcessInv, ProcessesStop PROVE ProcessInv' /\ LaunchesNone /\ EndsLists
<1> DEFINE retired == {j \in At("active") : ~Is(j, "once") /\ proc[j].held}
           ended == (At("active") \ retired) \cup At("reserved")
           idle  == (At("active") \cup At("reserved")) \ (retired \cup onces)
           W(j)  == CASE j \in retired -> "retired"
                      [] j \in ended -> "none"
                      [] OTHER -> where[j]
           P(j, ok) == CASE j \in retired -> Cancelled(proc[j], ok)
                         [] j \in onces -> kill_execution(proc[j], ok)
                         [] j \in idle -> Forgotten(proc[j])
                         [] OTHER -> proc[j]
<1>1. PICK ok \in StopResults :
        where' = [j \in Jobs |-> W(j)] /\ proc' = [j \in Jobs |-> P(j, ok)]
  BY DEF ProcessesStop
<1>0. ASSUME NEW j \in Jobs
      PROVE  /\ j \in retired <=> where[j] = "active" /\ ~Is(j, "once") /\ proc[j].held
             /\ j \notin retired => (j \in ended <=> where[j] \in {"active", "reserved"})
             /\ j \in retired => j \notin ended /\ j \notin idle /\ j \notin onces
             /\ j \in idle <=> /\ where[j] \in {"active", "reserved"}
                               /\ j \notin retired /\ j \notin onces
  <2>1. j \in At("active") <=> where[j] = "active"
    BY DEF At
  <2>2. j \in At("reserved") <=> where[j] = "reserved"
    BY DEF At
  <2>3. where[j] = "active" /\ ~Is(j, "once") => j \notin onces
    BY DEF ProcessInv, Owned
  <2> QED BY <2>1, <2>2, <2>3
<1> HIDE DEF retired, ended, idle
<1>2. onces' = onces /\ source' = source /\ history' = [i \in Identities |-> 0]
  BY DEF ProcessesStop
<1>3. ASSUME NEW j \in Jobs
      PROVE  \/ /\ where[j] = "active" /\ where'[j] = "retired" /\ j \in Managed
                /\ Is(j, "service") /\ proc[j].held /\ j \notin onces
                /\ proc'[j] \in ProcessState
                /\ proc'[j].args = proc[j].args /\ proc'[j].held
             \/ /\ where'[j] = "none" /\ j \notin onces
                /\ proc'[j] = Unmade
             \/ /\ where'[j] = IF j \in onces THEN "none" ELSE where[j]
                /\ where[j] \notin {"active", "reserved"} \/ j \in onces
                /\ Same(proc'[j], proc[j])
  <2>0. proc[j] \in ProcessState
    BY DEF ProcessInv, Types
  <2>1. CASE j \in retired
    <3>1. proc'[j] = Cancelled(proc[j], ok) /\ where'[j] = "retired"
      BY <1>0, <1>1, <2>1
    <3>2. Cancelled(proc[j], ok) \in ProcessState
          /\ Cancelled(proc[j], ok).args = proc[j].args /\ Cancelled(proc[j], ok).held = proc[j].held
      BY <2>0, Results, CancelKeeps
    <3>4. where[j] = "active" /\ ~Is(j, "once") /\ proc[j].held
      BY <1>0, <2>1
    <3>5. j \in Managed /\ Is(j, "service") /\ j \notin onces
      BY <3>4 DEF ProcessInv, Owned
    <3> QED BY <3>1, <3>2, <3>4, <3>5
  <2>2. CASE j \notin retired /\ j \in onces
    <3>1. proc'[j] = kill_execution(proc[j], ok)
      BY <1>0, <1>1, <2>2
    <3>2. Same(proc'[j], proc[j])
      BY <2>0, <3>1, Results, KillSame
    <3>3. where[j] \notin {"retired", "reserved"} /\ where[j] \in {"none", "active", "retired", "reserved"}
      BY <2>2 DEF ProcessInv, Owned, Types
    <3>4. where'[j] = "none"
      BY <1>0, <1>1, <2>2, <3>3
    <3> QED BY <2>2, <3>2, <3>4
  <2>3. CASE j \notin retired /\ j \notin onces /\ where[j] \in {"active", "reserved"}
    <3>1. where'[j] = "none" /\ proc'[j] = Forgotten(proc[j])
      BY <1>0, <1>1, <2>3
    <3>2. ~proc[j].held /\ ~GroupAlive(proc[j])
      <4>1. ~(Is(j, "once") /\ Is(j, "service"))
        BY DEF Is
      <4>2. where[j] = "active" /\ proc[j].held => Is(j, "once")
        BY <1>0, <2>3
      <4>3. Owned(j)
        BY DEF ProcessInv
      <4> HIDE DEF W, P
      <4> QED BY <2>3, <4>1, <4>2, <4>3 DEF Owned
    <3> QED BY <2>0, <2>3, <3>1, <3>2, ForgottenIsOver
  <2>4. CASE j \notin retired /\ j \notin onces /\ where[j] \notin {"active", "reserved"}
    <3>1. where'[j] = where[j] /\ proc'[j] = proc[j]
      BY <1>0, <1>1, <2>4
    <3> QED BY <2>0, <2>4, <3>1 DEF Same
  <2> QED BY <2>1, <2>2, <2>3, <2>4
<1>4. Types'
  <2>1. \A j \in Jobs : proc'[j] \in ProcessState /\ where'[j] \in {"none", "active", "retired", "reserved"}
    BY <1>3, UnmadeIsNothing DEF Same, ProcessInv, Types
  <2>2. proc' = [j \in Jobs |-> proc'[j]] /\ where' = [j \in Jobs |-> where'[j]]
    <3> HIDE DEF W, P
    <3> QED BY <1>1
  <2>3. history' \in [Identities -> 0..MaxSource]
    BY <1>2, ProcessesAssumption
  <2> HIDE DEF W, P
  <2> QED BY <1>2, <2>1, <2>2, <2>3 DEF ProcessInv, Types
<1>5. ASSUME NEW j \in Jobs PROVE Owned(j)'
  <2>1. Owned(j)
    BY DEF ProcessInv
  <2> QED BY <1>2, <1>3, <2>1, UnmadeIsNothing DEF Owned, Is, Same
<1>6. \A j \in Jobs : where'[j] # "active"
  BY <1>3
<1>7. \A j \in Jobs : where'[j] = "retired" =>
         where[j] = "retired" \/ (where[j] = "active" /\ Is(j, "service") /\ proc[j].held)
  BY <1>3
<1>8. OneDeclared' /\ Fences'
  <2>1. Managed \subseteq Jobs
    BY DEF Jobs
  <2>2. OneDeclared'
    BY <1>6, <2>1 DEF OneDeclared
  <2>3. ASSUME NEW j \in Managed, NEW k \in Managed, j[1] = k[1],
               where'[j] = "retired", where'[k] = "retired"
        PROVE  j = k
    BY <1>7, <2>1, <2>3 DEF ProcessInv, OneDeclared, Fences
  <2> QED BY <1>6, <2>1, <2>2, <2>3 DEF Fences
<1>9. LaunchesNone
  <2>1. \A j \in Jobs : proc'[j].held => proc[j].held
    BY <1>3, UnmadeIsNothing DEF Same
  <2> QED BY <1>6, <2>1 DEF LaunchesNone, Awaits
<1>10. EndsLists
  <2>1. ASSUME NEW j \in Jobs, Reserves(j)' PROVE Reserves(j)
    <3>1. j \in onces \/ where'[j] \in {"retired", "reserved"}
      BY <1>2, <1>6, <2>1 DEF Reserves
    <3> QED BY <1>3, <3>1 DEF Reserves
  <2> QED BY <1>6, <2>1 DEF EndsLists
<1> QED BY <1>4, <1>5, <1>8, <1>9, <1>10 DEF ProcessInv

-----------------------------------------------------------------------------
(* A commit. *)

LEMMA NewIs ==
  ASSUME NEW args \in Arguments, NEW version \in 1..MaxSource, NEW status \in Statuses
  PROVE  LET r == NewProcess(args, version, status)
         IN /\ r \in ProcessState /\ r.args = args /\ r.status = status /\ r.source = version
            /\ ~r.held /\ ~GroupAlive(r)
BY ProcessesAssumption DEF NewProcess, ProcessState, GroupAlive

LEMMA FreshIs ==
  ASSUME NEW i \in Identities, HasRoom(i)
  PROVE  Fresh(i) \in Managed /\ Fresh(i)[1] = i /\ proc[Fresh(i)] = Unmade
BY DEF Fresh, HasRoom

\* A one-shot that waits after a commit is due, or waited before it.
CommitsOnces ==
  \A j \in Managed :
    Awaits(j)' => LET args == proc'[j].args
                  IN /\ proc'[j].source = source'
                     /\ \/ Due(j[1], args, source')
                        \/ /\ Awaits(j) /\ proc[j].args = args
                           /\ ~Due(j[1], args, source') \/ proc[j].source = source'

\* What a commit leaves and adds, and the bound it keeps.
CommitsLists(kept, made, retired, spawned) ==
  LET shown == {[job |-> j, args |-> proc'[j].args, status |-> proc'[j].status] : j \in kept \cup made}
  IN /\ kept \subseteq At("active") /\ made \subseteq Managed /\ made \cap At("active") = {}
     /\ retired \subseteq Jobs /\ spawned \subseteq Jobs
     /\ line' = SetToSeq(made) \o Only(line, kept)
     /\ \E S \in SUBSET kept : left' = Only(left, S)
     /\ \A j \in Jobs :
          /\ where'[j] = "active" <=> j \in kept \cup made
          /\ where'[j] = "retired" => j \in retired \cup At("retired")
          /\ where'[j] = "reserved" => j \in spawned \cup At("reserved")
          /\ j \in kept => proc'[j].args = proc[j].args /\ proc'[j].status = proc[j].status
          /\ j \in made => proc'[j].status # "waiting"
     /\ reservations(shown, retired \cup At("retired"), spawned \cup At("reserved")) <= MaxReserved

LEMMA CommitStep ==
  ASSUME ProcessInv, ProcessesCommit
  PROVE  /\ ProcessInv' /\ CommitsOnces
         /\ \E kept, made, retired, spawned : CommitsLists(kept, made, retired, spawned)
         /\ \A j \in Jobs : proc'[j].held => proc[j].held
         /\ history' = history /\ source' \in {source, source + 1}
<1> USE DEF Jobs
<1>1. PICK declared \in [Identities -> Services \cup OneShots \cup {NoProcess}],
           version \in {source, source + 1} \cap 1..MaxSource, ok \in StopResults,
           spawned \in SUBSET {j \in Spawns : proc[j] = Unmade} :
             install_managed_processes(declared, version, spawned, ok)
  BY DEF ProcessesCommit
<1> DEFINE kept  == {j \in At("active") : declared[j[1]] # NoProcess /\ KeepsJob(j, declared[j[1]], version)}
           added == {i \in Identities : declared[i] # NoProcess /\ Old(i) \cap kept = {}}
           made == {Fresh(i) : i \in added}
           retired == {j \in At("active") \ kept : ~Is(j, "once") /\ proc[j].held}
           gone  == At("active") \ (kept \cup retired)
           New(j) == LET args == declared[j[1]]
                     IN NewProcess(args, version,
                                   IF args.kind = "once" /\ ~Due(j[1], args, version)
                                   THEN "recorded" ELSE "pending")
           W(j) == CASE j \in kept \cup made -> "active"
                     [] j \in retired -> "retired"
                     [] j \in spawned -> "reserved"
                     [] j \in gone -> "none"
                     [] OTHER -> where[j]
           P(j) == CASE j \in made -> New(j)
                     [] j \in kept -> [proc[j] EXCEPT !.source = version]
                     [] j \in retired -> Cancelled(proc[j], ok)
                     [] j \in spawned -> NewProcess(Session, version, "pending")
                     [] j \in gone -> IF j \in onces THEN proc[j] ELSE Forgotten(proc[j])
                     [] OTHER -> proc[j]
<1>2. /\ \A i \in added : HasRoom(i)
      /\ where' = [j \in Jobs |-> W(j)]
      /\ proc' = [j \in Jobs |-> P(j)]
      /\ history' = history /\ source' = version /\ onces' = onces
  <2>1. onces' = onces
    BY DEF ProcessesCommit
  <2> QED BY <1>1, <2>1 DEF install_managed_processes, Remembered
<1>3. ASSUME NEW j \in made
      PROVE  /\ j \in Managed /\ j[1] \in added /\ j = Fresh(j[1]) /\ proc[j] = Unmade
  <2>1. PICK i \in added : j = Fresh(i)
    OBVIOUS
  <2> QED BY <1>2, <2>1, FreshIs
<1>4. ASSUME NEW j \in Jobs, proc[j] = Unmade
      PROVE  where[j] = "none" /\ j \notin onces
  <2>1. ~proc[j].held /\ ~Is(j, "service") /\ ~Is(j, "once") /\ ~Is(j, "session")
    BY <1>4, UnmadeIsNothing DEF Is
  <2> QED BY <2>1 DEF ProcessInv, Owned, Types
<1>5. ASSUME NEW j \in Jobs
      PROVE  /\ j \in kept \/ j \in retired \/ j \in gone <=> where[j] = "active"
             /\ j \in kept => j \notin retired /\ j \notin gone
             /\ j \in retired => /\ j \notin gone /\ Is(j, "service")
                                 /\ proc[j].held /\ j \notin onces
             /\ j \in made \/ j \in spawned => where[j] = "none" /\ j \notin onces
             /\ ~(j \in made /\ j \in spawned)
  <2>1. j \in At("active") <=> where[j] = "active"
    BY DEF At
  <2>2. Owned(j)
    BY DEF ProcessInv
  <2>3. j \in made \/ j \in spawned => proc[j] = Unmade
    BY <1>3
  <2>4. ~(j \in made /\ j \in spawned)
    BY <1>3, ProcessesAssumption DEF Managed
  <2>5. j \in retired => Is(j, "service") /\ proc[j].held /\ j \notin onces
    BY <2>1, <2>2 DEF Owned
  <2> QED BY <1>4, <2>1, <2>3, <2>4, <2>5
<1>6. ASSUME NEW j \in made
      PROVE  /\ New(j) \in ProcessState /\ New(j).args = declared[j[1]]
             /\ ~New(j).held /\ ~GroupAlive(New(j)) /\ New(j).status # "running"
             /\ New(j).args # NoProcess /\ New(j).args.kind \in {"service", "once"}
             /\ New(j).source = version
             /\ New(j).status = "pending" /\ New(j).args.kind = "once" => Due(j[1], New(j).args, version)
             /\ New(j).status # "waiting"
  <2>1. j[1] \in Identities /\ declared[j[1]] # NoProcess
    BY <1>3
  <2>2. declared[j[1]] \in Arguments /\ declared[j[1]].kind \in {"service", "once"}
    BY <2>1 DEF Arguments, Services, OneShots
  <2>3. PICK status \in {"recorded", "pending"} :
          /\ New(j) = NewProcess(declared[j[1]], version, status)
          /\ status = "pending" /\ declared[j[1]].kind = "once" => Due(j[1], declared[j[1]], version)
    OBVIOUS
  <2> HIDE DEF New
  <2> QED BY <2>1, <2>2, <2>3, NewIs DEF Statuses
<1>7. ASSUME NEW j \in spawned
      PROVE  LET r == NewProcess(Session, version, "pending")
             IN /\ r \in ProcessState /\ r.args = Session /\ ~r.held /\ ~GroupAlive(r)
                /\ Session # NoProcess /\ Session.kind = "session"
  <2>1. Session \in Arguments /\ "pending" \in Statuses
    BY DEF Arguments, Statuses
  <2>2. Session # NoProcess
    BY ProcessesAssumption DEF Session
  <2>3. Session.kind = "session"
    BY DEF Session
  <2> QED BY <2>1, <2>2, <2>3, NewIs
<1>8. ASSUME NEW j \in Jobs
      PROVE  \/ /\ j \in kept /\ where[j] = "active" /\ where'[j] = "active"
                /\ proc'[j] = [proc[j] EXCEPT !.source = version]
             \/ /\ j \in made /\ where[j] = "none" /\ where'[j] = "active"
                /\ j \notin onces /\ proc'[j] = New(j)
             \/ /\ j \in retired /\ where[j] = "active" /\ where'[j] = "retired"
                /\ proc'[j] = Cancelled(proc[j], ok)
             \/ /\ j \in spawned /\ where[j] = "none" /\ where'[j] = "reserved"
                /\ j \notin onces /\ proc'[j] = NewProcess(Session, version, "pending")
             \/ /\ j \in gone /\ where[j] = "active" /\ where'[j] = "none"
                /\ proc'[j] = IF j \in onces THEN proc[j] ELSE Forgotten(proc[j])
             \/ /\ j \notin made /\ j \notin spawned /\ where[j] # "active"
                /\ where'[j] = where[j] /\ proc'[j] = proc[j]
  <2> HIDE DEF kept, made, retired, gone, New
  <2>0. where'[j] = W(j) /\ proc'[j] = P(j)
    BY <1>2
  <2>1. CASE j \in kept
    BY <1>5, <2>0, <2>1
  <2>2. CASE j \in made
    BY <1>5, <2>0, <2>2
  <2>3. CASE j \in retired
    BY <1>5, <2>0, <2>3
  <2>4. CASE j \in spawned
    BY <1>5, <2>0, <2>4
  <2>5. CASE j \in gone
    BY <1>5, <2>0, <2>5
  <2>6. CASE j \notin kept \cup made \cup retired \cup spawned \cup gone
    BY <1>5, <2>0, <2>6
  <2> QED BY <2>1, <2>2, <2>3, <2>4, <2>5, <2>6
<1>9. /\ proc' = [j \in Jobs |-> proc'[j]] /\ where' = [j \in Jobs |-> where'[j]]
  <2> HIDE DEF W, P
  <2> QED BY <1>2
<1> DEFINE active  == {[job |-> j, args |-> proc[j].args, status |-> proc[j].status] : j \in kept}
                      \cup {[job |-> j, args |-> New(j).args, status |-> New(j).status] : j \in made}
           current == {j \in kept : proc[j].source = version}
<1>22. /\ kept \subseteq At("active") /\ retired \subseteq Jobs /\ spawned \subseteq Jobs
       /\ line' = SetToSeq(made) \o Only(line, kept)
       /\ left' = Only(left, current) /\ current \in SUBSET kept
       /\ reservations(active, retired \cup At("retired"), spawned \cup At("reserved")) <= MaxReserved
  <2>1. /\ line' = SetToSeq(made) \o Only(line, kept)
        /\ left' = Only(left, current)
        /\ reservations(active, retired \cup At("retired"), spawned \cup At("reserved")) <= MaxReserved
    BY <1>1 DEF install_managed_processes
  <2>2. kept \subseteq At("active") /\ current \in SUBSET kept /\ retired \subseteq At("active")
    OBVIOUS
  <2>3. At("active") \subseteq Jobs /\ spawned \subseteq Jobs
    BY DEF At
  <2> HIDE DEF kept, made, retired, active, current
  <2> QED BY <2>1, <2>2, <2>3
<1> HIDE DEF current
<1>10. \A j \in made : j \in Managed /\ Old(j[1]) \cap kept = {} /\ j = Fresh(j[1])
  BY <1>3
<1>11. \A j \in kept : j \in Managed => j \in Old(j[1])
  BY DEF Old
<1>12. \A j \in retired : Is(j, "service") /\ proc[j].held /\ j \notin onces
  BY <1>5 DEF At
<1>13. \A j \in kept : /\ proc[j].args = declared[j[1]]
                       /\ Is(j, "once") => \/ ~Due(j[1], declared[j[1]], version)
                                            \/ proc[j].source = version
  BY DEF KeepsJob, Is
<1> HIDE DEF kept, added, made, retired, gone, New, W, P
\* What every job has become, in the words of the invariant.
<1>14. ASSUME NEW j \in Jobs
       PROVE  /\ proc'[j] \in ProcessState
              /\ j \in kept => /\ proc'[j].args = proc[j].args /\ proc'[j].status = proc[j].status
                               /\ proc'[j].held = proc[j].held
                               /\ GroupAlive(proc'[j]) <=> GroupAlive(proc[j])
              /\ j \in kept => proc'[j].source = version
              /\ j \in retired => proc'[j].args = proc[j].args /\ proc'[j].held
              /\ proc'[j].held => proc[j].held
              /\ j \in gone /\ j \notin onces => proc'[j] = Unmade
  <2>0. proc[j] \in ProcessState /\ version \in 0..MaxSource
    BY DEF ProcessInv, Types
  <2>1. CASE j \in kept
    <3>1. proc'[j] = [proc[j] EXCEPT !.source = version]
      BY <1>5, <1>8, <2>1
    <3>2. /\ proc'[j] \in ProcessState
          /\ proc'[j].args = proc[j].args /\ proc'[j].status = proc[j].status
          /\ proc'[j].held = proc[j].held
          /\ proc'[j].source = version
          /\ GroupAlive(proc'[j]) <=> GroupAlive(proc[j])
      BY <2>0, <3>1 DEF ProcessState, GroupAlive
    <3> QED BY <1>5, <2>1, <3>2
  <2>2. CASE j \in made
    <3>1. proc'[j] = New(j) /\ j \notin kept /\ j \notin retired /\ j \notin gone
      BY <1>5, <1>8, <2>2
    <3> QED BY <1>6, <2>2, <3>1
  <2>3. CASE j \in retired
    <3>1. proc'[j] = Cancelled(proc[j], ok) /\ j \notin kept /\ j \notin gone
      BY <1>5, <1>8, <2>3
    <3> QED BY <1>12, <2>0, <2>3, <3>1, CancelKeeps, Results
  <2>4. CASE j \in spawned
    <3>1. /\ proc'[j] = NewProcess(Session, version, "pending")
          /\ j \notin kept /\ j \notin retired /\ j \notin gone
      BY <1>5, <1>8, <2>4
    <3> QED BY <1>7, <2>4, <3>1
  <2>5. CASE j \in gone
    <3>1. proc'[j] = IF j \in onces THEN proc[j] ELSE Forgotten(proc[j])
      BY <1>5, <1>8, <2>5
    <3>2. j \notin onces => ~proc[j].held /\ ~GroupAlive(proc[j])
      <4>1. j \notin kept /\ j \notin retired /\ where[j] = "active"
        BY <1>5, <2>5
      <4>2. Is(j, "service") => ~proc[j].held
        <5>1. j \in At("active") \ kept
          BY <4>1 DEF At
        <5>2. Is(j, "service") => ~Is(j, "once")
          BY DEF Is
        <5> QED BY <4>1, <5>1, <5>2 DEF retired
      <4>3. Owned(j)
        BY DEF ProcessInv
      <4> QED BY <4>1, <4>2, <4>3 DEF Owned
    <3> QED BY <1>5, <2>0, <2>5, <3>1, <3>2, ForgottenIsOver, UnmadeIsNothing
  <2>6. CASE j \notin kept \cup made \cup retired \cup spawned \cup gone
    BY <1>5, <1>8, <2>0, <2>6
  <2> QED BY <2>1, <2>2, <2>3, <2>4, <2>5, <2>6
<1>15. Types'
  <2>1. \A j \in Jobs : where'[j] \in {"none", "active", "retired", "reserved"}
    BY <1>8 DEF ProcessInv, Types
  <2>2. \A j \in Jobs : proc'[j] \in ProcessState
    BY <1>14
  <2>3. history' \in [Identities -> 0..MaxSource] /\ source' \in 1..MaxSource /\ onces' \in SUBSET Jobs
    BY <1>2 DEF ProcessInv, Types
  <2>4. where' \in [Jobs -> {"none", "active", "retired", "reserved"}]
    BY <1>9, <2>1
  <2>5. proc' \in [Jobs -> ProcessState]
    BY <1>9, <2>2
  <2> QED BY <2>3, <2>4, <2>5 DEF Types
<1>16. ASSUME NEW j \in Jobs PROVE Owned(j)'
  <2>0. Owned(j) /\ onces' = onces
    BY <1>2 DEF ProcessInv
  <2>1. CASE j \in kept
    <3>1. where[j] = "active" /\ where'[j] = "active"
      BY <1>5, <1>8, <2>1
    <3> QED BY <1>14, <2>0, <2>1, <3>1 DEF Owned, Is
  <2>2. CASE j \in made
    <3>1. proc'[j] = New(j) /\ where'[j] = "active" /\ j \notin onces /\ j \in Managed
      BY <1>5, <1>8, <1>10, <2>2
    <3> QED BY <1>6, <2>0, <2>2, <3>1 DEF Owned, Is
  <2>3. CASE j \in retired
    <3>1. where[j] = "active" /\ where'[j] = "retired"
      BY <1>5, <1>8, <2>3
    <3> QED BY <1>12, <1>14, <2>0, <2>3, <3>1 DEF Owned, Is
  <2>4. CASE j \in spawned
    <3>1. /\ proc'[j] = NewProcess(Session, version, "pending")
          /\ j \notin onces /\ where'[j] = "reserved"
      BY <1>5, <1>8, <2>4
    <3> QED BY <1>7, <2>0, <2>4, <3>1 DEF Owned, Is
  <2>5. CASE j \in gone
    <3>1. where[j] = "active" /\ where'[j] = "none"
          /\ (j \in onces => proc'[j] = proc[j])
      BY <1>5, <1>8, <2>5
    <3> QED BY <1>14, <2>0, <2>5, <3>1, UnmadeIsNothing DEF Owned, Is
  <2>6. CASE j \notin kept \cup made \cup retired \cup spawned \cup gone
    <3>1. where'[j] = where[j] /\ proc'[j] = proc[j]
      BY <1>5, <1>8, <2>6
    <3> QED BY <2>0, <3>1 DEF Owned, Is
  <2> QED BY <2>1, <2>2, <2>3, <2>4, <2>5, <2>6
\* Where the declared and the retired jobs come from.
<1>17. ASSUME NEW j \in Managed
       PROVE  /\ where'[j] = "active" => \/ j \in kept /\ where[j] = "active" /\ j \in Old(j[1])
                                         \/ j \in made
              /\ where'[j] = "retired" => \/ j \in retired /\ where[j] = "active"
                                          \/ where[j] = "retired"
  BY <1>5, <1>8, <1>11
<1>18. OneDeclared'
  <2>1. ASSUME NEW j \in Managed, NEW k \in Managed, j[1] = k[1],
               where'[j] = "active", where'[k] = "active"
        PROVE  j = k
    <3>1. CASE j \in made /\ k \in made
      BY <1>10, <2>1, <3>1
    <3>2. CASE j \in made /\ k \notin made
      BY <1>10, <1>17, <2>1, <3>2
    <3>3. CASE j \notin made /\ k \in made
      BY <1>10, <1>17, <2>1, <3>3
    <3>4. CASE j \notin made /\ k \notin made
      BY <1>17, <2>1, <3>4 DEF ProcessInv, OneDeclared
    <3> QED BY <3>1, <3>2, <3>3, <3>4
  <2> QED BY <2>1 DEF OneDeclared
<1>19. Fences'
  <2>1. ASSUME NEW j \in Managed, NEW k \in Managed, j[1] = k[1],
               where'[j] = "retired", where'[k] = "retired"
        PROVE  j = k
    <3>1. where[j] = "active" /\ where[k] = "active" => j = k
      BY <2>1 DEF ProcessInv, OneDeclared
    <3>2. /\ where[j] = "retired" /\ where[k] = "retired" => j = k
          /\ where[j] = "retired" => ~(where[k] = "active" /\ Is(k, "service") /\ proc[k].held)
          /\ where[k] = "retired" => ~(where[j] = "active" /\ Is(j, "service") /\ proc[j].held)
      BY <2>1 DEF ProcessInv, Fences
    <3> QED BY <1>12, <1>17, <2>1, <3>1, <3>2
  <2>2. ASSUME NEW j \in Managed, NEW k \in Managed, j[1] = k[1],
               where'[j] = "retired", where'[k] = "active", Is(k, "service")'
        PROVE  ~proc'[k].held
    <3>1. CASE k \in made
      <4>1. proc'[k] = New(k)
        BY <1>5, <1>8, <3>1
      <4> QED BY <1>6, <3>1, <4>1
    <3>2. CASE k \notin made
      <4>1. k \in kept /\ where[k] = "active" /\ k \in Jobs
        BY <1>17, <2>2, <3>2
      <4>2. Is(k, "service") /\ proc'[k].held = proc[k].held
        BY <1>14, <2>2, <4>1 DEF Is
      <4>3. CASE j \in retired /\ where[j] = "active"
        <5>1. j = k
          BY <2>2, <4>1, <4>3 DEF ProcessInv, OneDeclared
        <5> QED BY <1>5, <4>1, <4>3, <5>1
      <4>4. CASE where[j] = "retired"
        BY <2>2, <4>1, <4>2, <4>4 DEF ProcessInv, Fences
      <4> QED BY <1>17, <2>2, <4>3, <4>4
    <3> QED BY <3>1, <3>2
  <2> QED BY <2>1, <2>2 DEF Fences
<1>20. CommitsOnces
  <2> SUFFICES ASSUME NEW j \in Managed, Awaits(j)'
               PROVE  /\ proc'[j].source = source'
                      /\ \/ Due(j[1], proc'[j].args, source')
                         \/ /\ Awaits(j) /\ proc[j].args = proc'[j].args
                            /\ ~Due(j[1], proc'[j].args, source') \/ proc[j].source = source'
    BY DEF CommitsOnces
  <2>0. where'[j] = "active" /\ j \in Jobs /\ source' = version
    BY <1>2 DEF Awaits
  <2>1. CASE j \in made
    <3>1. proc'[j] = New(j)
      BY <1>5, <1>8, <2>0, <2>1
    <3>2. New(j).status = "pending" /\ New(j).args.kind = "once"
      BY <1>6, <2>1, <3>1 DEF Awaits, Is
    <3> QED BY <1>6, <2>0, <2>1, <3>1, <3>2
  <2>2. CASE j \notin made
    <3>1. j \in kept /\ where[j] = "active"
      BY <1>17, <2>0, <2>2
    <3>2. Awaits(j)
      BY <1>14, <2>0, <3>1 DEF Awaits, Is
    <3> QED BY <1>14, <1>13, <2>0, <3>1, <3>2 DEF Awaits
  <2> QED BY <2>1, <2>2
<1>21. /\ \A j \in Jobs : proc'[j].held => proc[j].held
       /\ history' = history /\ source' \in {source, source + 1}
  BY <1>2, <1>14
<1>23. CommitsLists(kept, made, retired, spawned)
  <2> DEFINE shown == {[job |-> j, args |-> proc'[j].args, status |-> proc'[j].status] : j \in kept \cup made}
  <2>1. kept \subseteq Jobs /\ made \subseteq Jobs
    BY <1>10, <1>22 DEF At
  <2>2. shown = active
    <3>1. \A j \in kept : proc'[j].args = proc[j].args /\ proc'[j].status = proc[j].status
      BY <1>14, <2>1
    <3>2. \A j \in made : proc'[j].args = New(j).args /\ proc'[j].status = New(j).status
      BY <1>5, <1>8, <2>1
    <3> QED BY <3>1, <3>2
  <2>3. ASSUME NEW j \in Jobs
        PROVE  /\ where'[j] = "active" <=> j \in kept \cup made
               /\ where'[j] = "retired" => j \in retired \cup At("retired")
               /\ where'[j] = "reserved" => j \in spawned \cup At("reserved")
               /\ j \in kept => proc'[j].args = proc[j].args /\ proc'[j].status = proc[j].status
    BY <1>5, <1>8, <1>14 DEF At
  <2>4. \A j \in made : proc'[j].status # "waiting"
    BY <1>5, <1>6, <1>8, <2>1
  <2>5. made \subseteq Managed /\ made \cap At("active") = {}
    BY <1>5, <1>10, <2>1 DEF At
  <2>6. reservations(shown, retired \cup At("retired"), spawned \cup At("reserved")) <= MaxReserved
    BY <1>22, <2>2
  <2> HIDE DEF shown, active
  <2>7. \E S \in SUBSET kept : left' = Only(left, S)
    BY <1>22
  <2> QED BY <1>22, <2>3, <2>4, <2>5, <2>6, <2>7 DEF CommitsLists, shown
<1> QED BY <1>15, <1>16, <1>18, <1>19, <1>20, <1>21, <1>23 DEF ProcessInv

-----------------------------------------------------------------------------
(* The theorems. *)

LEMMA Initially == ProcessesInit => ProcessInv
<1> SUFFICES ASSUME ProcessesInit PROVE ProcessInv
  OBVIOUS
<1>1. \A j \in Jobs : proc[j] = Unmade /\ where[j] = "none"
  BY DEF ProcessesInit
<1>2. Managed \subseteq Jobs
  BY DEF Jobs
<1>3. Types
  BY UnmadeIsNothing, ProcessesAssumption DEF ProcessesInit, Types
<1>4. \A j \in Jobs : Owned(j)
  BY <1>1, UnmadeIsNothing DEF ProcessesInit, Owned
<1>5. OneDeclared /\ Fences
  BY <1>1, <1>2 DEF OneDeclared, Fences
<1> QED BY <1>3, <1>4, <1>5 DEF ProcessInv

LEMMA Inductive == ProcessInv /\ [ProcessesNext]_procVars => ProcessInv'
<1> SUFFICES ASSUME ProcessInv, [ProcessesNext]_procVars PROVE ProcessInv'
  OBVIOUS
<1>1. CASE ProcessesCommit
  BY <1>1, CommitStep
<1>2. CASE LaunchSpawn
  BY <1>2, LaunchStep
<1>3. CASE ProcessesStart
  BY <1>3, PassStep
<1>4. CASE Serve
  BY <1>4, ServeStep
<1>5. CASE ProcessesYield \/ ProcessesStopDone \/ UNCHANGED procVars
  <2>1. UNCHANGED <<where, proc, onces, source, history>>
    BY <1>5 DEF ProcessesYield, ProcessesStopDone, procVars
  <2> QED BY <2>1, Quiet DEF ProcessInv, Types, Owned
<1>6. CASE ProcessesStop
  BY <1>6, StopStep
<1>7. CASE ProcessesStopRound
  BY <1>7, RoundStep
<1>8. CASE \E j \in Jobs : ProcessExits(j) \/ ProcessForks(j) \/ RelativeExits(j) \/ SecondComes(j)
  BY <1>8, KernelStep
<1> QED BY <1>1, <1>2, <1>3, <1>4, <1>5, <1>6, <1>7, <1>8
        DEF ProcessesNext, ProcessesService, ProcessesShutdown

-----------------------------------------------------------------------------
(* One-shots. *)

\* A step that launches none and keeps the history keeps what it says.
LEMMA NoneLaunched ==
  ASSUME ProcessInv, OnceInv, LaunchesNone, UNCHANGED <<history, source, ran, stage>>
  PROVE  OnceInv'
<1>1. Managed \subseteq Jobs
  BY DEF Jobs
<1>2. ASSUME NEW j \in Managed, stage = "run", Awaits(j)' PROVE AwaitsRightly(j)'
  <2>1. Awaits(j) /\ proc'[j].args = proc[j].args /\ proc'[j].source = proc[j].source
    BY <1>1, <1>2 DEF LaunchesNone
  <2> QED BY <1>2, <2>1 DEF OnceInv, AwaitsRightly
<1> QED BY <1>2 DEF OnceInv

LEMMA CommitOnce ==
  ASSUME ProcessInv, OnceInv, CommitsOnces, history' = history, source' \in {source, source + 1},
         UNCHANGED <<ran, stage>>
  PROVE  OnceInv'
<1>1. source \in Nat /\ source >= 1 /\ source' \in Nat /\ source <= source'
  BY ProcessesAssumption DEF ProcessInv, Types
<1>2. history' \in [Identities -> 0..source']
  BY <1>1 DEF OnceInv
<1>3. ASSUME NEW j \in Managed, stage = "run", Awaits(j)' PROVE AwaitsRightly(j)'
  <2>1. j[1] \in Identities /\ history[j[1]] \in 0..source
    BY DEF Managed, OnceInv
  <2>2. proc'[j].source = source'
    BY <1>3 DEF CommitsOnces
  <2>3. CASE Due(j[1], proc'[j].args, source')
    BY <1>1, <2>1, <2>2, <2>3 DEF Due, AwaitsRightly
  <2>4. CASE ~Due(j[1], proc'[j].args, source')
    <3>1. Awaits(j) /\ proc[j].args = proc'[j].args
      BY <1>3, <2>4 DEF CommitsOnces
    <3>2. AwaitsRightly(j)
      BY <1>3, <3>1 DEF OnceInv
    <3> QED BY <1>1, <2>1, <2>2, <2>4, <3>1, <3>2 DEF Due, AwaitsRightly
  <2> QED BY <2>3, <2>4
<1> QED BY <1>2, <1>3 DEF OnceInv

LEMMA LookedIs ==
  ASSUME NEW r \in ProcessState, NEW failed, NEW ok \in BOOLEAN
  PROVE  Looked(r, failed, ok) \in ProcessState /\ Looked(r, failed, ok).args = r.args
<1> DEFINE q == reap_process_lease(r, FALSE, ok)
<1>1. q \in ProcessState /\ q.args = r.args
  BY ReapLease DEF Reaped
<1>2. \/ Looked(r, failed, ok) = [q EXCEPT !.deadline = "future"]
      \/ \E s \in {"waiting", "stopped"} : Looked(r, failed, ok) = [q EXCEPT !.status = s]
  BY DEF Looked
<1> HIDE DEF q
<1> QED BY <1>1, <1>2 DEF ProcessState, Statuses

\* What a turn launches is one job, and a one-shot only when it awaits it.
LEMMA ServeOnce ==
  ASSUME ProcessInv, OnceInv, Serve
  PROVE  /\ OnceInv'
         /\ \A j \in Jobs : ~proc[j].held /\ proc'[j].held =>
              stage = "run" /\ (Is(j, "once") => Awaits(j))
<1>0. Managed \subseteq Jobs
  BY DEF Jobs
<1>1. PICK j \in Managed :
         IF ~Ready(j) THEN UNCHANGED <<proc, onces, history, line, ran>>
         ELSE \E failed \in BOOLEAN, ok \in StopResults :
                LET r == IF proc[j].status = "running" THEN Looked(proc[j], failed, ok)
                         ELSE proc[j]
                IN IF r.status \in {"pending", "waiting"} /\ ~FencedProcess(j)
                   THEN start_managed_process(j, r)
                   ELSE /\ proc' = [proc EXCEPT ![j] = r]
                        /\ UNCHANGED <<onces, history, ran>>
  BY DEF Serve
<1>2. /\ UNCHANGED <<where, source, stage>> /\ stage = "run"
      /\ j \in Jobs /\ proc[j] \in ProcessState /\ proc \in [Jobs -> ProcessState]
  BY <1>0 DEF Serve, ProcessInv, Types
<1>3. CASE ~Ready(j)
  <2>1. UNCHANGED <<proc, history, ran>>
    BY <1>1, <1>3
  <2> QED BY <1>2, <2>1, NoneLaunched DEF LaunchesNone, Awaits, Is
<1>4. CASE Ready(j) /\ Is(j, "service")
  <2>0. PICK failed \in BOOLEAN, ok \in StopResults :
          LET r == IF proc[j].status = "running" THEN Looked(proc[j], failed, ok)
                   ELSE proc[j]
          IN IF r.status \in {"pending", "waiting"} /\ ~FencedProcess(j)
             THEN start_managed_process(j, r)
             ELSE /\ proc' = [proc EXCEPT ![j] = r]
                  /\ UNCHANGED <<onces, history, ran>>
    BY <1>1, <1>4
  <2>1. PICK r :
          /\ r = IF proc[j].status = "running" THEN Looked(proc[j], failed, ok) ELSE proc[j]
          /\ IF r.status \in {"pending", "waiting"} /\ ~FencedProcess(j)
             THEN start_managed_process(j, r)
             ELSE /\ proc' = [proc EXCEPT ![j] = r]
                  /\ UNCHANGED <<onces, history, ran>>
    BY <2>0
  <2>2. r \in ProcessState /\ r.args = proc[j].args
    BY <1>2, <2>1, LookedIs, Results
  <2>3. proc[j].args.kind = "service" /\ proc[j].args # NoProcess
    BY <1>4 DEF Is
  <2>4. PICK q : /\ proc' = [proc EXCEPT ![j] = q] /\ UNCHANGED <<history, ran>>
                 /\ q.args = proc[j].args
    <3>1. Started(r).args = r.args /\ [r EXCEPT !.status = "spawn-error"].args = r.args
      BY <2>2, StartedIs DEF ProcessState
    <3>2. start_managed_process(j, r) =>
            \/ proc' = [proc EXCEPT ![j] = Started(r)] /\ UNCHANGED <<history, ran>>
            \/ proc' = [proc EXCEPT ![j] = [r EXCEPT !.status = "spawn-error"]] /\ UNCHANGED <<history, ran>>
      BY <2>2, <2>3 DEF start_managed_process
    <3> QED BY <2>1, <2>2, <3>1, <3>2
  <2>5. \A k \in Jobs : k # j => proc'[k] = proc[k]
    BY <1>2, <2>4
  <2>6. proc'[j].args = proc[j].args
    BY <1>2, <2>4
  <2>7. ASSUME NEW k \in Managed, Awaits(k)'
        PROVE  Awaits(k) /\ proc'[k] = proc[k]
    BY <1>0, <1>2, <2>3, <2>5, <2>6, <2>7 DEF Awaits, Is
  <2>8. OnceInv'
    BY <1>2, <2>4, <2>7 DEF OnceInv, AwaitsRightly
  <2>9. \A k \in Jobs : ~proc[k].held /\ proc'[k].held => k = j /\ ~Is(k, "once")
    BY <2>3, <2>5 DEF Is
  <2> QED BY <1>2, <2>8, <2>9
<1>5. CASE Ready(j) /\ ~Is(j, "service")
  <2>1. where[j] = "active" /\ Is(j, "once") /\ proc[j].status # "running"
    BY <1>2, <1>5 DEF Ready, ProcessInv, Owned
  <2>2. \/ Awaits(j) /\ start_managed_process(j, proc[j])
        \/ proc' = proc /\ UNCHANGED <<history, ran>>
    <3>1. \/ proc[j].status \in {"pending", "waiting"} /\ start_managed_process(j, proc[j])
          \/ proc' = [proc EXCEPT ![j] = proc[j]] /\ UNCHANGED <<history, ran>>
      BY <1>1, <1>5, <2>1
    <3>2. [proc EXCEPT ![j] = proc[j]] = proc
      BY <1>2
    <3> QED BY <2>1, <3>1, <3>2 DEF Awaits
  <2>3. CASE proc' = proc /\ UNCHANGED <<history, ran>>
    BY <1>2, <2>3, NoneLaunched DEF LaunchesNone, Awaits, Is
  <2>4. CASE Awaits(j) /\ start_managed_process(j, proc[j])
    <3>1. AwaitsRightly(j) /\ proc[j].args.kind = "once" /\ j[1] \in Identities
      BY <1>2, <2>1, <2>4 DEF OnceInv, Is, Managed
    <3>2. \/ /\ proc' = [proc EXCEPT ![j] = Started(proc[j])]
             /\ history' = [history EXCEPT ![j[1]] = proc[j].source]
             /\ ran' = ran \cup {<<j[1], proc[j].source>>}
          \/ /\ proc' = [proc EXCEPT ![j] = [proc[j] EXCEPT !.status = "spawn-error"]]
             /\ UNCHANGED <<history, ran>>
      BY <2>4, <3>1 DEF start_managed_process
    <3>3. \A k \in Jobs : k # j => proc'[k] = proc[k]
      BY <1>2, <3>2
    <3>4. proc'[j].status \in {"launched", "spawn-error"}
      BY <1>2, <3>1, <3>2, StartedIs DEF ProcessState
    <3>5. source \in Nat /\ history \in [Identities -> 0..source]
      BY ProcessesAssumption DEF ProcessInv, Types, OnceInv
    <3>6. /\ history' \in [Identities -> 0..source]
          /\ \A i \in Identities : history[i] <= history'[i]
          /\ \A i \in Identities : i # j[1] => history'[i] = history[i]
      BY <3>1, <3>2, <3>5 DEF AwaitsRightly
    <3>7. \A i \in Identities, n \in Nat : <<i, n>> \in ran' => n <= history'[i]
      <4> SUFFICES ASSUME NEW i \in Identities, NEW n \in Nat, <<i, n>> \in ran'
                   PROVE  n <= history'[i]
        OBVIOUS
      <4>1. CASE <<i, n>> \in ran
        BY <1>2, <3>5, <3>6, <4>1 DEF OnceInv
      <4>2. CASE <<i, n>> \notin ran
        <5>1. /\ history' = [history EXCEPT ![j[1]] = proc[j].source]
              /\ <<i, n>> = <<j[1], proc[j].source>>
          BY <3>2, <4>2
        <5>2. i = j[1] /\ n = proc[j].source
          BY <5>1
        <5> QED BY <3>1, <3>5, <5>1, <5>2
      <4> QED BY <4>1, <4>2
    <3>8. ASSUME NEW k \in Managed, Awaits(k)'
          PROVE  AwaitsRightly(k)'
      <4>1. k # j
        BY <3>4, <3>8 DEF Awaits
      <4>2. Awaits(k) /\ proc'[k] = proc[k]
        BY <1>0, <1>2, <3>3, <3>8, <4>1 DEF Awaits, Is
      <4>3. k[1] # j[1] /\ k[1] \in Identities
        BY <2>1, <4>1, <4>2 DEF Awaits, ProcessInv, OneDeclared, Managed
      <4> QED BY <1>2, <3>6, <4>2, <4>3 DEF OnceInv, AwaitsRightly
    <3> QED BY <1>2, <2>4, <3>3, <3>6, <3>7, <3>8 DEF OnceInv
  <2> QED BY <2>2, <2>3, <2>4
<1> QED BY <1>3, <1>4, <1>5

LEMMA LaunchOnce ==
  ASSUME ProcessInv, OnceInv, LaunchSpawn
  PROVE  /\ OnceInv'
         /\ \A j \in Jobs : ~proc[j].held /\ proc'[j].held => ~Is(j, "once")
<1>1. PICK j \in At("reserved") :
        /\ start_managed_process(j, proc[j])
        /\ where' = [where EXCEPT ![j] = "none"]
  BY DEF LaunchSpawn
<1>2. /\ j \in Jobs /\ Is(j, "session") /\ proc[j].args.kind = "session"
      /\ UNCHANGED <<source, stage>>
  BY DEF At, LaunchSpawn, ProcessInv, Owned, Is
<1>3. UNCHANGED <<history, ran>> /\ \A k \in Jobs : k # j => proc'[k] = proc[k]
  BY <1>1, <1>2 DEF start_managed_process, ProcessInv, Types
<1>4. where'[j] = "none" /\ \A k \in Jobs : k # j => where'[k] = where[k]
  BY <1>1, <1>2 DEF ProcessInv, Types
<1>5. ASSUME NEW k \in Managed, Awaits(k)' PROVE Awaits(k) /\ proc'[k] = proc[k]
  <2>1. k \in Jobs
    BY DEF Jobs
  <2> QED BY <1>3, <1>4, <1>5, <2>1 DEF Awaits, Is
<1>6. OnceInv'
  BY <1>2, <1>3, <1>5 DEF OnceInv, AwaitsRightly
<1> QED BY <1>2, <1>3, <1>6 DEF Is

\* No step of the invariant launches a one-shot that does not await it.
LEMMA OnceStep ==
  ASSUME ProcessInv, OnceInv, [ProcessesNext]_procVars
  PROVE  /\ OnceInv'
         /\ \A j \in Jobs : Is(j, "once") /\ ~proc[j].held /\ proc'[j].held =>
              stage = "run" /\ Awaits(j)
<1>1. CASE ProcessesCommit
  <2>1. UNCHANGED <<ran, stage>>
    BY <1>1 DEF ProcessesCommit
  <2> QED BY <1>1, <2>1, CommitStep, CommitOnce
<1>2. CASE LaunchSpawn
  BY <1>2, LaunchOnce
<1>3. CASE ProcessesStart
  BY <1>3, PassStep, NoneLaunched DEF ProcessesStart, LaunchesNone
<1>4. CASE Serve
  BY <1>4, ServeOnce
<1>5. CASE ProcessesYield \/ UNCHANGED procVars
  <2>1. UNCHANGED <<where, proc, history, source, ran, stage>>
    BY <1>5 DEF ProcessesYield, procVars
  <2> QED BY <2>1, NoneLaunched DEF LaunchesNone, Awaits, Is
<1>6. CASE ProcessesStop
  <2>1. OnceInv'
    <3>1. source \in Nat /\ source' = source /\ stage' = "stopping" /\ history' = [i \in Identities |-> 0]
      BY <1>6, ProcessesAssumption DEF ProcessesStop, ProcessInv, Types
    <3> QED BY <3>1 DEF OnceInv
  <2> QED BY <1>6, <2>1, StopStep DEF LaunchesNone
<1>7. CASE ProcessesStopRound
  BY <1>7, RoundStep, NoneLaunched DEF ProcessesStopRound, LaunchesNone
<1>8. CASE ProcessesStopDone
  <2>1. UNCHANGED <<where, proc, history, source, ran>> /\ stage' # "run"
    BY <1>8 DEF ProcessesStopDone
  <2> QED BY <2>1 DEF OnceInv
<1>9. CASE \E j \in Jobs : ProcessExits(j) \/ ProcessForks(j) \/ RelativeExits(j) \/ SecondComes(j)
  <2>1. UNCHANGED <<history, source, ran, stage>>
    BY <1>9 DEF ProcessExits, ProcessForks, RelativeExits, SecondComes, Becomes
  <2> QED BY <1>9, <2>1, KernelStep, NoneLaunched DEF LaunchesNone
<1> QED BY <1>1, <1>2, <1>3, <1>4, <1>5, <1>6, <1>7, <1>8, <1>9
        DEF ProcessesNext, ProcessesService, ProcessesShutdown

\* The processes of one declared service are never alive together: at most one
\* of its jobs is declared, at most one is retired, and a job of one is not
\* started beside the other (the fence of service-managed-processes).
THEOREM OneProcess == ProcessesSpec => []OneProcessPerService
<1>1. ProcessesInit => ProcessInv
  BY Initially
<1>2. ProcessInv /\ [ProcessesNext]_procVars => ProcessInv'
  BY Inductive
<1>3. ProcessInv => OneProcessPerService
  <2> SUFFICES ASSUME ProcessInv, NEW j \in Managed, NEW k \in Managed, j[1] = k[1],
                      Is(j, "service"), Is(k, "service"),
                      GroupAlive(proc[j]), GroupAlive(proc[k])
               PROVE  j = k
    BY DEF OneProcessPerService
  <2>1. Managed \subseteq Jobs
    BY DEF Jobs
  <2>2. /\ proc[j].held /\ proc[k].held
        /\ where[j] \in {"active", "retired"} /\ where[k] \in {"active", "retired"}
    BY <2>1 DEF ProcessInv, Owned
  <2> QED BY <2>2 DEF ProcessInv, OneDeclared, Fences
<1> QED BY <1>1, <1>2, <1>3, PTL DEF ProcessesSpec

\* Every process group that is alive is held by a lease of the runtime, in one
\* of the lists that shutdown stops.
THEOREM GroupsAreOwned == ProcessesSpec => []LeasesCoverGroups
<1>1. ProcessesInit => ProcessInv
  BY Initially
<1>2. ProcessInv /\ [ProcessesNext]_procVars => ProcessInv'
  BY Inductive
<1>3. ProcessInv => LeasesCoverGroups
  BY DEF ProcessInv, Owned, LeasesCoverGroups
<1> QED BY <1>1, <1>2, <1>3, PTL DEF ProcessesSpec

\* A one-shot is launched once in a session, or once by a version of its source:
\* one that awaits its launch is due by the history (process-due-p), a reload
\* keeps none that is no longer due, and one job of an identity is declared.
THEOREM OneShotsOnce == ProcessesSpec => OneShotsRunOnce
<1> DEFINE Launch == \A j \in Managed :
                       Is(j, "once") /\ ~proc[j].held /\ proc'[j].held =>
                         /\ <<j[1], proc[j].source>> \notin ran
                         /\ proc[j].args.run = "session" => \A n \in 1..MaxSource : <<j[1], n>> \notin ran
<1>1. ProcessesInit => ProcessInv /\ OnceInv
  <2> SUFFICES ASSUME ProcessesInit PROVE ProcessInv /\ OnceInv
    OBVIOUS
  <2>1. \A j \in Managed : where[j] = "none"
    BY DEF ProcessesInit, Jobs
  <2>2. history \in [Identities -> 0..source] /\ ran = {}
    BY DEF ProcessesInit
  <2> QED BY <2>1, <2>2, Initially DEF OnceInv, Awaits
<1>2. ProcessInv /\ OnceInv /\ [ProcessesNext]_procVars => ProcessInv' /\ OnceInv'
  BY Inductive, OnceStep
<1>3. ProcessInv /\ OnceInv /\ [ProcessesNext]_procVars => [Launch]_procVars
  <2> SUFFICES ASSUME ProcessInv, OnceInv, [ProcessesNext]_procVars,
                      NEW j \in Managed, Is(j, "once"), ~proc[j].held, proc'[j].held
               PROVE  /\ <<j[1], proc[j].source>> \notin ran
                      /\ proc[j].args.run = "session" => \A n \in 1..MaxSource : <<j[1], n>> \notin ran
    OBVIOUS
  <2>1. j \in Jobs /\ j[1] \in Identities
    BY DEF Jobs, Managed
  <2>2. stage = "run" /\ Awaits(j)
    BY <2>1, OnceStep
  <2>3. AwaitsRightly(j) /\ \A n \in Nat : <<j[1], n>> \in ran => n <= history[j[1]]
    BY <2>1, <2>2 DEF OnceInv
  <2>4. proc[j].source \in Nat /\ history[j[1]] \in Nat /\ history[j[1]] < proc[j].source
    BY <2>1, <2>3 DEF AwaitsRightly, OnceInv, ProcessInv, Types
  <2>5. proc[j].args.run = "session" => history[j[1]] = 0
    BY <2>3 DEF AwaitsRightly
  <2> QED BY <2>3, <2>4, <2>5
<1> HIDE DEF Launch
<1>4. ProcessesSpec => [][Launch]_procVars
  BY <1>1, <1>2, <1>3, PTL DEF ProcessesSpec
<1> QED BY <1>4 DEF OneShotsRunOnce, Launch

-----------------------------------------------------------------------------
(* What is left of a list (Lists). *)

\* A set of numbers that is not empty has a least one.
LEMMA Smallest ==
  ASSUME NEW T \in SUBSET Nat, T # {}
  PROVE  \E x \in T : \A y \in T : ~(y < x)
<1> DEFINE R == {ss \in Nat \X Nat : ss[1] < ss[2]}
<1>1. IsWellFoundedOn(R, Nat)
  BY NatLessThanWellFounded DEF OpToRel
<1>2. \A x, y \in Nat : y < x => <<y, x>> \in R
  OBVIOUS
<1> HIDE DEF R
<1>3. T \subseteq Nat
  OBVIOUS
<1>4. \E x \in T : \A y \in T : ~(<<y, x>> \in R)
  BY <1>1, <1>3, WFMin
<1> QED BY <1>2, <1>3, <1>4

\* The part of the sequence read so far, as the loop of Only makes it.
OnlyLoop(seq, S, Of, n) ==
  Of = [i \in 0..n |-> IF i = 0 THEN <<>>
                       ELSE IF seq[i] \in S THEN Append(Of[i - 1], seq[i]) ELSE Of[i - 1]]

\* The loop of Only comes to its end, for every length.
LEMMA OnlyLoopEnds ==
  ASSUME NEW seq, NEW S, NEW n \in Nat
  PROVE  \E Of : OnlyLoop(seq, S, Of, n)
<1> DEFINE Ends(i) == \E Of : OnlyLoop(seq, S, Of, i)
           T == {i \in Nat : ~Ends(i)}
           Next(f, x) == IF seq[x] \in S THEN Append(f[x - 1], seq[x]) ELSE f[x - 1]
<1>1. Ends(0)
  <2> DEFINE f == [i \in 0..0 |-> <<>>]
  <2>1. f = [i \in 0..0 |-> IF i = 0 THEN <<>> ELSE Next(f, i)]
    OBVIOUS
  <2> QED BY <2>1 DEF OnlyLoop
<1>2. ASSUME NEW i \in Nat, Ends(i) PROVE Ends(i + 1)
  <2>1. PICK f : OnlyLoop(seq, S, f, i)
    BY <1>2
  <2> DEFINE h == [x \in 0..(i + 1) |-> IF x = 0 THEN <<>> ELSE Next(f, x)]
  <2>2. \A x \in 0..i : h[x] = f[x]
    <3>1. f = [x \in 0..i |-> IF x = 0 THEN <<>> ELSE Next(f, x)]
      BY <2>1, Zenon DEF OnlyLoop
    <3>2. \A x \in 0..i : x \in 0..(i + 1)
      OBVIOUS
    <3> HIDE DEF Next
    <3> QED BY <3>1, <3>2, Zenon
  <2>3. \A x \in 0..(i + 1) : x # 0 => h[x - 1] = f[x - 1]
    <3>1. \A x \in 0..(i + 1) : x # 0 => x - 1 \in 0..i
      OBVIOUS
    <3> HIDE DEF h
    <3> QED BY <2>2, <3>1
  <2>4. h = [x \in 0..(i + 1) |-> IF x = 0 THEN <<>> ELSE Next(h, x)]
    BY <2>3
  <2> QED BY <2>4 DEF OnlyLoop
<1> HIDE DEF Ends
<1>3. T = {}
  <2> SUFFICES ASSUME T # {} PROVE FALSE
    OBVIOUS
  <2>1. PICK i \in T : \A y \in T : ~(y < i)
    BY Smallest
  <2>2. i # 0 /\ i \in Nat
    BY <1>1
  <2>3. i - 1 \in Nat /\ i - 1 < i /\ (i - 1) + 1 = i
    BY <2>2
  <2>4. Ends(i - 1)
    BY <2>1, <2>3
  <2>5. Ends((i - 1) + 1)
    BY <1>2, <2>3, <2>4
  <2> QED BY <2>3, <2>5
<1> QED BY <1>3 DEF Ends

\* t is what is left of the first n members of s when all but those in S are left out:
\* h says where each member of t is in s.
Places(t, s, S, n, h) ==
  /\ h \in [1..Len(t) -> 1..n]
  /\ \A i \in 1..Len(t) : t[i] = s[h[i]] /\ t[i] \in S
  /\ \A i, j \in 1..Len(t) : i < j => h[i] < h[j]
  /\ \A j \in 1..n : s[j] \in S => \E i \in 1..Len(t) : h[i] = j

\* One more message is read: it is left out, or has the next place.
LEMMA PlacesGrow ==
  ASSUME NEW M, NEW s \in Seq(M), NEW S, NEW n \in Nat, n + 1 <= Len(s), NEW t \in Seq(M),
         NEW h, Places(t, s, S, n, h)
  PROVE  /\ s[n + 1] \notin S => Places(t, s, S, n + 1, h)
         /\ s[n + 1] \in S => \E g : Places(Append(t, s[n + 1]), s, S, n + 1, g)
<1>1. ASSUME s[n + 1] \notin S PROVE Places(t, s, S, n + 1, h)
  BY <1>1 DEF Places
<1>2. ASSUME s[n + 1] \in S PROVE \E g : Places(Append(t, s[n + 1]), s, S, n + 1, g)
  <2> DEFINE r == Append(t, s[n + 1])
             g == [i \in 1..Len(r) |-> IF i <= Len(t) THEN h[i] ELSE n + 1]
  <2>1. s[n + 1] \in M
    OBVIOUS
  <2>2. /\ r \in Seq(M) /\ Len(r) = Len(t) + 1 /\ Len(t) \in Nat
        /\ \A i \in 1..Len(t) : r[i] = t[i]
        /\ r[Len(t) + 1] = s[n + 1]
    BY <2>1
  <2> HIDE DEF r
  <2>3. /\ \A i \in 1..Len(t) : g[i] = h[i] /\ h[i] \in 1..n
        /\ g[Len(t) + 1] = n + 1
    BY <2>2 DEF Places
  <2>4. g \in [1..Len(r) -> 1..(n + 1)]
    BY <2>2 DEF Places
  <2> HIDE DEF g
  <2>5. \A i \in 1..Len(r) : i \in 1..Len(t) \/ i = Len(t) + 1
    BY <2>2
  <2>6. \A i \in 1..Len(r) : r[i] = s[g[i]] /\ r[i] \in S
    BY <1>2, <2>2, <2>3, <2>5 DEF Places
  <2>7. ASSUME NEW i \in 1..Len(r), NEW j \in 1..Len(r), i < j PROVE g[i] < g[j]
    <3>1. i \in 1..Len(t)
      BY <2>2, <2>7
    <3>2. CASE j \in 1..Len(t)
      BY <2>3, <2>7, <3>1, <3>2 DEF Places
    <3>3. CASE j = Len(t) + 1
      BY <2>3, <3>1, <3>3
    <3> QED BY <2>5, <3>2, <3>3
  <2>8. ASSUME NEW j \in 1..(n + 1), s[j] \in S PROVE \E i \in 1..Len(r) : g[i] = j
    <3>1. CASE j = n + 1
      BY <2>2, <2>3, <3>1
    <3>2. CASE j \in 1..n
      <4>1. PICK i \in 1..Len(t) : h[i] = j
        BY <2>8, <3>2 DEF Places
      <4>2. i \in 1..Len(r) /\ g[i] = j
        BY <2>2, <2>3, <4>1
      <4> QED BY <4>2
    <3> QED BY <3>1, <3>2
  <2>9. Places(r, s, S, n + 1, g)
    BY <2>4, <2>6, <2>7, <2>8 DEF Places
  <2> QED BY <2>9 DEF r
<1> QED BY <1>1, <1>2

\* What Only makes of a sequence: its members in S, each at a place that is later the
\* later it was, and none of them lost (Lists).
LEMMA OnlyIs ==
  ASSUME NEW M, NEW s \in Seq(M), NEW S
  PROVE  /\ Only(s, S) \in Seq(M)
         /\ \E h : Places(Only(s, S), s, S, Len(s), h)
<1> DEFINE n  == Len(s)
           Of == CHOOSE f : OnlyLoop(s, S, f, n)
           Good(i) == Of[i] \in Seq(M) /\ \E h : Places(Of[i], s, S, i, h)
           T == {i \in 0..n : ~Good(i)}
<1>1. n \in Nat
  OBVIOUS
<1>2. Only(s, S) = Of[n]
  BY DEF Only, OnlyLoop
<1>3. OnlyLoop(s, S, Of, n)
  BY <1>1, OnlyLoopEnds
<1> HIDE DEF n, Of
<1>4. /\ Of[0] = <<>>
      /\ \A i \in 1..n : Of[i] = IF s[i] \in S THEN Append(Of[i - 1], s[i]) ELSE Of[i - 1]
  <2>1. \A i \in 0..n : Of[i] = IF i = 0 THEN <<>>
           ELSE IF s[i] \in S THEN Append(Of[i - 1], s[i]) ELSE Of[i - 1]
    BY <1>3, Zenon DEF OnlyLoop
  <2>2. 0 \in 0..n /\ \A i \in 1..n : i \in 0..n /\ i # 0
    BY <1>1
  <2> QED BY <2>1, <2>2
<1>5. Good(0)
  <2>1. Of[0] \in Seq(M) /\ Len(Of[0]) = 0
    BY <1>4
  <2>2. Places(Of[0], s, S, 0, [i \in 1..Len(Of[0]) |-> 1])
    BY <2>1 DEF Places
  <2> QED BY <2>1, <2>2
<1>6. ASSUME NEW i \in 1..n, Good(i - 1) PROVE Good(i)
  <2>1. i - 1 \in Nat /\ (i - 1) + 1 = i /\ i <= Len(s) /\ s[i] \in M
    BY <1>1 DEF n
  <2>2. PICK h : Places(Of[i - 1], s, S, i - 1, h)
    BY <1>6
  <2> DEFINE t == Of[i - 1]
             m == i - 1
  <2>3. t \in Seq(M) /\ Places(t, s, S, m, h) /\ m \in Nat /\ m + 1 = i /\ m + 1 <= Len(s)
    BY <1>6, <2>1, <2>2
  <2>4. Of[i] = IF s[m + 1] \in S THEN Append(t, s[m + 1]) ELSE t
    BY <1>4, <2>1
  <2> HIDE DEF t, m
  <2>5. Of[i] \in Seq(M)
    BY <2>1, <2>3, <2>4
  <2>6. \E g : Places(Of[i], s, S, m + 1, g)
    <3>1. /\ s[m + 1] \notin S => Places(t, s, S, m + 1, h)
          /\ s[m + 1] \in S => \E g : Places(Append(t, s[m + 1]), s, S, m + 1, g)
      BY <2>3, PlacesGrow
    <3> QED BY <2>4, <3>1
  <2> QED BY <2>3, <2>5, <2>6
<1> HIDE DEF Good
<1>7. T = {}
  <2> SUFFICES ASSUME T # {} PROVE FALSE
    OBVIOUS
  <2>1. T \in SUBSET Nat
    BY <1>1
  <2>2. PICK i \in T : \A y \in T : ~(y < i)
    <3> HIDE DEF T
    <3> QED BY <2>1, Smallest
  <2>3. i # 0 /\ i \in 0..n /\ ~Good(i)
    BY <1>5
  <2>4. i \in 1..n /\ i - 1 \in 0..n /\ i - 1 < i
    BY <1>1, <2>3
  <2>5. Good(i - 1)
    BY <2>2, <2>4
  <2> QED BY <1>6, <2>3, <2>4, <2>5
<1>8. Good(n)
  BY <1>1, <1>7
<1> QED BY <1>2, <1>8 DEF Good, n

-----------------------------------------------------------------------------
(* Sequences as the sets of their members. *)

LEMMA Members ==
  ASSUME NEW M, NEW s \in Seq(M)
  PROVE  /\ \A x : x \in ToSet(s) <=> \E i \in 1..Len(s) : s[i] = x
         /\ \A i \in 1..Len(s) : s[i] \in M
         /\ ToSet(s) \subseteq M
         /\ Len(s) \in Nat
         /\ IsInjective(s) <=> \A i, j \in 1..Len(s) : s[i] = s[j] => i = j
BY DEF ToSet, IsInjective

\* What Only leaves: the members in S, each as often as before.
LEMMA OnlyMembers ==
  ASSUME NEW M, NEW s \in Seq(M), NEW S
  PROVE  /\ Only(s, S) \in Seq(M)
         /\ ToSet(Only(s, S)) = ToSet(s) \cap S
         /\ IsInjective(s) => IsInjective(Only(s, S))
<1> DEFINE t == Only(s, S)
<1>1. t \in Seq(M) /\ \E h : Places(t, s, S, Len(s), h)
  BY OnlyIs
<1>2. PICK h : Places(t, s, S, Len(s), h)
  BY <1>1
<1> HIDE DEF t
<1>3. Len(s) \in Nat /\ Len(t) \in Nat /\ \A i \in 1..Len(t) : h[i] \in 1..Len(s)
  <2>1. h \in [1..Len(t) -> 1..Len(s)]
    BY <1>2 DEF Places
  <2>2. \A i \in 1..Len(t) : h[i] \in 1..Len(s)
    BY <2>1
  <2>3. Len(s) \in Nat /\ Len(t) \in Nat
    BY <1>1
  <2> QED BY <2>2, <2>3
<1>4. ToSet(t) = ToSet(s) \cap S
  <2>1. ASSUME NEW x \in ToSet(t) PROVE x \in ToSet(s) \cap S
    <3>1. PICK i \in 1..Len(t) : t[i] = x
      BY <1>1, <2>1, Members
    <3>2. h[i] \in 1..Len(s) /\ s[h[i]] = x /\ x \in S
      BY <1>2, <1>3, <3>1 DEF Places
    <3> QED BY <3>2, Members
  <2>2. ASSUME NEW x \in ToSet(s) \cap S PROVE x \in ToSet(t)
    <3>1. PICK j \in 1..Len(s) : s[j] = x
      BY <2>2, Members
    <3>2. PICK i \in 1..Len(t) : h[i] = j
      BY <1>2, <3>1 DEF Places
    <3>3. t[i] = x
      BY <1>2, <3>1, <3>2 DEF Places
    <3> QED BY <1>1, <3>3, Members
  <2> QED BY <2>1, <2>2
<1>5. ASSUME IsInjective(s) PROVE IsInjective(t)
  <2>1. ASSUME NEW i \in 1..Len(t), NEW j \in 1..Len(t), t[i] = t[j] PROVE i = j
    <3>1. s[h[i]] = s[h[j]]
      BY <1>2, <2>1 DEF Places
    <3>2. h[i] = h[j]
      BY <1>3, <1>5, <3>1, Members
    <3>3. ~(i < j) /\ ~(j < i)
      BY <1>2, <1>3, <3>2 DEF Places
    <3> QED BY <3>3
  <2> QED BY <1>1, <2>1, Members
<1>6. Only(s, S) = t
  BY DEF t
<1> QED BY <1>1, <1>4, <1>5, <1>6

LEMMA TailMembers ==
  ASSUME NEW M, NEW s \in Seq(M), s # <<>>
  PROVE  /\ Tail(s) \in Seq(M) /\ ToSet(Tail(s)) \subseteq ToSet(s)
         /\ Head(s) \in ToSet(s)
         /\ IsInjective(s) => IsInjective(Tail(s)) /\ Head(s) \notin ToSet(Tail(s))
<1> DEFINE t == Tail(s)
<1>1. /\ t \in Seq(M) /\ Len(s) \in Nat /\ Len(t) = Len(s) - 1 /\ 1 \in 1..Len(s)
      /\ \A i \in 1..Len(t) : t[i] = s[i + 1]
      /\ Head(s) = s[1]
  OBVIOUS
<1> HIDE DEF t
<1>2. \A i \in 1..Len(t) : i + 1 \in 1..Len(s)
  BY <1>1
<1>3. ASSUME NEW x \in ToSet(t) PROVE x \in ToSet(s)
  <2>1. PICK i \in 1..Len(t) : t[i] = x
    BY <1>1, <1>3, Members
  <2>2. s[i + 1] = x /\ i + 1 \in 1..Len(s)
    BY <1>1, <1>2, <2>1
  <2> QED BY <2>2, Members
<1>4. Head(s) \in ToSet(s)
  BY <1>1, Members
<1>5. ASSUME IsInjective(s) PROVE IsInjective(t) /\ Head(s) \notin ToSet(t)
  <2>1. ASSUME NEW i \in 1..Len(t), NEW j \in 1..Len(t), t[i] = t[j] PROVE i = j
    <3>1. i + 1 = j + 1
      BY <1>1, <1>2, <1>5, <2>1, Members
    <3> QED BY <1>1, <3>1
  <2>2. IsInjective(t)
    BY <1>1, <2>1, Members
  <2>3. ASSUME NEW i \in 1..Len(t), t[i] = s[1] PROVE FALSE
    <3>1. i + 1 = 1
      BY <1>1, <1>2, <1>5, <2>3, Members
    <3> QED BY <1>1, <3>1
  <2> QED BY <1>1, <2>2, <2>3, Members
<1> QED BY <1>1, <1>3, <1>4, <1>5 DEF t

LEMMA AppendMembers ==
  ASSUME NEW M, NEW s \in Seq(M), NEW x \in M
  PROVE  /\ Append(s, x) \in Seq(M) /\ ToSet(Append(s, x)) = ToSet(s) \cup {x}
         /\ IsInjective(s) /\ x \notin ToSet(s) => IsInjective(Append(s, x))
<1> DEFINE t == Append(s, x)
<1>1. /\ t \in Seq(M) /\ Len(s) \in Nat /\ Len(t) = Len(s) + 1 /\ t[Len(s) + 1] = x
      /\ \A i \in 1..Len(s) : t[i] = s[i]
  OBVIOUS
<1> HIDE DEF t
<1>2. \A i \in 1..Len(t) : i \in 1..Len(s) \/ i = Len(s) + 1
  BY <1>1
<1>3. 1..Len(s) \subseteq 1..Len(t) /\ Len(s) + 1 \in 1..Len(t)
  BY <1>1
<1>4. ToSet(t) = ToSet(s) \cup {x}
  <2>1. ASSUME NEW y \in ToSet(t) PROVE y \in ToSet(s) \cup {x}
    BY <1>1, <1>2, <2>1, Members
  <2>2. ASSUME NEW y \in ToSet(s) PROVE y \in ToSet(t)
    BY <1>1, <1>3, <2>2, Members
  <2>3. x \in ToSet(t)
    BY <1>1, <1>3, Members
  <2> QED BY <2>1, <2>2, <2>3
<1>5. ASSUME IsInjective(s), x \notin ToSet(s) PROVE IsInjective(t)
  <2>1. \A i \in 1..Len(s) : t[i] # x
    BY <1>1, <1>5, Members
  <2>2. ASSUME NEW i \in 1..Len(t), NEW j \in 1..Len(t), t[i] = t[j] PROVE i = j
    <3>1. CASE i \in 1..Len(s) /\ j \in 1..Len(s)
      <4>1. s[i] = s[j]
        BY <1>1, <2>2, <3>1
      <4> QED BY <1>5, <3>1, <4>1, Members
    <3>2. CASE i \in 1..Len(s) /\ j = Len(s) + 1
      BY <1>1, <2>1, <2>2, <3>2
    <3>3. CASE i = Len(s) + 1 /\ j \in 1..Len(s)
      BY <1>1, <2>1, <2>2, <3>3
    <3> QED BY <1>2, <3>1, <3>2, <3>3
  <2> QED BY <1>1, <2>2, Members
<1> QED BY <1>1, <1>4, <1>5 DEF t

LEMMA JoinMembers ==
  ASSUME NEW M, NEW s \in Seq(M), NEW t \in Seq(M)
  PROVE  /\ s \o t \in Seq(M) /\ ToSet(s \o t) = ToSet(s) \cup ToSet(t)
         /\ IsInjective(s) /\ IsInjective(t) /\ ToSet(s) \cap ToSet(t) = {} => IsInjective(s \o t)
<1> DEFINE u == s \o t
<1>1. /\ u \in Seq(M) /\ Len(s) \in Nat /\ Len(t) \in Nat /\ Len(u) = Len(s) + Len(t)
      /\ \A i \in 1..Len(s) : u[i] = s[i]
      /\ \A i \in 1..Len(t) : u[Len(s) + i] = t[i]
  OBVIOUS
<1> HIDE DEF u
<1>2. \A i \in 1..Len(u) : i \in 1..Len(s) \/ (i - Len(s) \in 1..Len(t) /\ i = Len(s) + (i - Len(s)))
  BY <1>1
<1>3. 1..Len(s) \subseteq 1..Len(u) /\ \A i \in 1..Len(t) : Len(s) + i \in 1..Len(u)
  BY <1>1
<1>4. ToSet(u) = ToSet(s) \cup ToSet(t)
  <2>1. ASSUME NEW x \in ToSet(u) PROVE x \in ToSet(s) \cup ToSet(t)
    <3>1. PICK i \in 1..Len(u) : u[i] = x
      BY <1>1, <2>1, Members
    <3>2. CASE i \in 1..Len(s)
      BY <1>1, <3>1, <3>2, Members
    <3>3. CASE i - Len(s) \in 1..Len(t) /\ i = Len(s) + (i - Len(s))
      <4>1. t[i - Len(s)] = x
        BY <1>1, <3>1, <3>3
      <4> QED BY <3>3, <4>1, Members
    <3> QED BY <1>2, <3>2, <3>3
  <2>2. ASSUME NEW x \in ToSet(s) PROVE x \in ToSet(u)
    BY <1>1, <1>3, <2>2, Members
  <2>3. ASSUME NEW x \in ToSet(t) PROVE x \in ToSet(u)
    <3>1. PICK i \in 1..Len(t) : t[i] = x
      BY <2>3, Members
    <3>2. Len(s) + i \in 1..Len(u) /\ u[Len(s) + i] = x
      BY <1>1, <1>3, <3>1
    <3> QED BY <1>1, <3>2, Members
  <2> QED BY <2>1, <2>2, <2>3
<1>5. ASSUME IsInjective(s), IsInjective(t), ToSet(s) \cap ToSet(t) = {} PROVE IsInjective(u)
  <2>1. \A i \in 1..Len(s), j \in 1..Len(t) : s[i] # t[j]
    BY <1>5, Members
  <2>2. ASSUME NEW i \in 1..Len(u), NEW j \in 1..Len(u), u[i] = u[j] PROVE i = j
    <3>1. CASE i \in 1..Len(s) /\ j \in 1..Len(s)
      <4>1. s[i] = s[j]
        BY <1>1, <2>2, <3>1
      <4> QED BY <1>5, <3>1, <4>1, Members
    <3>2. ASSUME i \in 1..Len(s), j \notin 1..Len(s) PROVE FALSE
      <4>1. u[i] = s[i] /\ u[j] = t[j - Len(s)] /\ j - Len(s) \in 1..Len(t)
        BY <1>1, <1>2, <3>2
      <4> QED BY <2>1, <2>2, <3>2, <4>1
    <3>3. ASSUME j \in 1..Len(s), i \notin 1..Len(s) PROVE FALSE
      <4>1. u[j] = s[j] /\ u[i] = t[i - Len(s)] /\ i - Len(s) \in 1..Len(t)
        BY <1>1, <1>2, <3>3
      <4> QED BY <2>1, <2>2, <3>3, <4>1
    <3>4. CASE i \notin 1..Len(s) /\ j \notin 1..Len(s)
      <4>1. t[i - Len(s)] = t[j - Len(s)] /\ i - Len(s) \in 1..Len(t) /\ j - Len(s) \in 1..Len(t)
        BY <1>1, <1>2, <2>2, <3>4
      <4>2. i - Len(s) = j - Len(s)
        BY <1>5, <4>1, Members
      <4> QED BY <1>1, <4>2
    <3> QED BY <3>1, <3>2, <3>3, <3>4
  <2> QED BY <1>1, <2>2, Members
<1> QED BY <1>1, <1>4, <1>5 DEF u

\* A finite set as a sequence: its members, each once.
LEMMA SetToSeqIs ==
  ASSUME NEW S, IsFiniteSet(S)
  PROVE  /\ SetToSeq(S) \in Seq(S)
         /\ IsInjective(SetToSeq(S))
         /\ ToSet(SetToSeq(S)) = S
<1> DEFINE n == Cardinality(S)
<1>1. n \in Nat /\ ExistsBijection(1..n, S)
  BY FS_CardinalityType
<1> HIDE DEF n
<1>2. PICK g \in [1..n -> S] : IsInjective(g)
  BY <1>1, Zenon DEF ExistsBijection, Bijection, Injection
<1>3. SetToSeq(S) \in [1..n -> S] /\ IsInjective(SetToSeq(S))
  BY <1>2, Zenon DEF SetToSeq, n
<1> DEFINE t == SetToSeq(S)
<1>4. t \in [1..n -> S] /\ IsInjective(t)
  BY <1>3
<1>5. t \in Injection(1..n, S)
  BY <1>3, Zenon DEF Injection
<1>6. Cardinality(1..n) = n
  BY <1>1, FS_Interval
<1> HIDE DEF t
<1>7. t \in Surjection(1..n, S)
  BY <1>5, <1>6, FS_Injection DEF n
<1>8. \A x \in S : \E i \in 1..n : t[i] = x
  BY <1>7 DEF Surjection
<1>9. t \in Seq(S) /\ Len(t) = n
  BY <1>1, <1>4
<1>10. ToSet(t) = S
  <2>1. ToSet(t) \subseteq S
    BY <1>9, Members
  <2>2. ASSUME NEW x \in S PROVE x \in ToSet(t)
    <3>1. PICK i \in 1..n : t[i] = x
      BY <1>8
    <3>2. i \in 1..Len(t)
      BY <1>9
    <3> QED BY <1>9, <3>1, <3>2, Members
  <2> QED BY <2>1, <2>2
<1> QED BY <1>4, <1>9, <1>10 DEF t

-----------------------------------------------------------------------------
(* Messages in their order. *)

\* What is left of s from n on, but for some of the kinds D: h says where it was.
Left(t, s, n, D, h) ==
  /\ h \in [1..Len(t) -> Nat]
  /\ \A i \in 1..Len(t) : n < h[i] /\ h[i] <= Len(s) /\ t[i] = s[h[i]]
  /\ \A i, j \in 1..Len(t) : i < j => h[i] < h[j]
  /\ \A j \in 1..Len(s) : n < j /\ s[j].kind \notin D => \E i \in 1..Len(t) : h[i] = j

\* t is what is left.
Rest(t, s, n, D) == \E h : Left(t, s, n, D, h)

\* Only leaves what it is given to keep, if that is all but some of the kinds D.
LEMMA RestOnly ==
  ASSUME NEW M, NEW s \in Seq(M), NEW S, NEW D,
         \A i \in 1..Len(s) : s[i].kind \notin D => s[i] \in S
  PROVE  Rest(Only(s, S), s, 0, D)
<1> DEFINE t == Only(s, S)
<1>1. PICK h : Places(t, s, S, Len(s), h)
  BY OnlyIs
<1>2. t \in Seq(M)
  BY OnlyIs
<1> HIDE DEF t
<1>3. h \in [1..Len(t) -> Nat]
  BY <1>1 DEF Places
<1>4. Len(t) \in Nat /\ Len(s) \in Nat
  BY <1>2
<1>5. \A i \in 1..Len(t) : 0 < h[i] /\ h[i] <= Len(s) /\ t[i] = s[h[i]]
  BY <1>1, <1>4 DEF Places
<1>6. \A i, j \in 1..Len(t) : i < j => h[i] < h[j]
  BY <1>1 DEF Places
<1>7. \A j \in 1..Len(s) : 0 < j /\ s[j].kind \notin D => \E i \in 1..Len(t) : h[i] = j
  BY <1>1, <1>4 DEF Places
<1>8. Rest(t, s, 0, D)
  BY <1>3, <1>5, <1>6, <1>7 DEF Rest, Left
<1> QED BY <1>8 DEF t

\* What is left of the messages after the first is left of them all from 1 on.
LEMMA RestOfTail ==
  ASSUME NEW M, NEW s \in Seq(M), s # <<>>, NEW t, t \in Seq(M), NEW D, Rest(t, Tail(s), 0, D)
  PROVE  Rest(t, s, 1, D)
<1>1. /\ Tail(s) \in Seq(M) /\ Len(Tail(s)) = Len(s) - 1 /\ Len(s) \in Nat /\ Len(t) \in Nat
      /\ \A i \in 1..Len(Tail(s)) : Tail(s)[i] = s[i + 1]
  OBVIOUS
<1> DEFINE r == Tail(s)
<1>2. PICK h \in [1..Len(t) -> Nat] :
    /\ \A i \in 1..Len(t) : 0 < h[i] /\ h[i] <= Len(r) /\ t[i] = r[h[i]]
    /\ \A i, j \in 1..Len(t) : i < j => h[i] < h[j]
    /\ \A j \in 1..Len(r) : 0 < j /\ r[j].kind \notin D => \E i \in 1..Len(t) : h[i] = j
  BY DEF Rest, Left
<1> DEFINE g == [i \in 1..Len(t) |-> h[i] + 1]
<1>3. /\ r \in Seq(M) /\ Len(r) = Len(s) - 1 /\ \A i \in 1..Len(r) : r[i] = s[i + 1]
  BY <1>1
<1> HIDE DEF r
<1>4. g \in [1..Len(t) -> Nat] /\ \A i \in 1..Len(t) : g[i] = h[i] + 1 /\ h[i] \in Nat
  OBVIOUS
<1> HIDE DEF g
<1>5. \A i \in 1..Len(t) : 1 < g[i] /\ g[i] <= Len(s) /\ t[i] = s[g[i]]
  BY <1>1, <1>2, <1>3, <1>4
<1>6. \A i, j \in 1..Len(t) : i < j => g[i] < g[j]
  BY <1>2, <1>4
<1>7. ASSUME NEW j \in 1..Len(s), 1 < j, s[j].kind \notin D PROVE \E i \in 1..Len(t) : g[i] = j
  <2>1. j - 1 \in 1..Len(r) /\ r[j - 1] = s[j] /\ 0 < j - 1
    BY <1>1, <1>3, <1>7
  <2>2. PICK i \in 1..Len(t) : h[i] = j - 1
    BY <1>2, <1>7, <2>1
  <2>3. g[i] = j
    BY <1>4, <2>2
  <2> QED BY <2>3
<1>8. Left(t, s, 1, D, g)
  BY <1>4, <1>5, <1>6, <1>7 DEF Left
<1> QED BY <1>8 DEF Rest

-----------------------------------------------------------------------------
(* The battery. *)

\* Who has a name on the bus, and the types of the messages, of UPower and of the service.
Owner == Nat \cup {None}
BatteryFields == {"present", "level"}
BatteryValues == [present : BOOLEAN, level : Levels \cup {None}]
BatteryMail ==
  [kind : {"owner"}, old : Owner, new : Owner]
  \cup [kind : {"changed"}, sender : Nat, field : {"present"}, value : BOOLEAN, told : BOOLEAN]
  \cup [kind : {"changed"}, sender : Nat, field : {"level"}, value : Levels, told : BOOLEAN]
  \cup [kind : {"reply"}, id : Nat, ok : BOOLEAN, sender : Owner, values : BatteryValues]
BatteryCall == [id : Nat, kind : {"owner", "all"}, waits : BOOLEAN, stale : SUBSET BatteryFields]

UPowerStates ==
  [owner : Owner, values : BatteryValues, supply : Levels \cup {None}, mail : Seq(BatteryMail),
   born : Nat, events : Nat, failed : Nat]

BatteryStates ==
  [bus : BOOLEAN, owner : Owner, authoritative : BOOLEAN, raw : BatteryValues, sysfs : BOOLEAN,
   sysfsRaw : BatteryValues, needAll : BOOLEAN, calls : Seq(BatteryCall),
   shown : [available : BOOLEAN, level : Levels \cup {None, Full}], missed : BOOLEAN, lost : BOOLEAN]

\* o is who has the name after message i, as the later ones say; now is who has it.
Holds(mail, now, i, o) ==
  /\ (\A j \in 1..Len(mail) : i < j => mail[j].kind # "owner") => o = now
  /\ \A j \in 1..Len(mail) :
       i < j /\ mail[j].kind = "owner"
       /\ (\A k \in 1..Len(mail) : i < k /\ k < j => mail[k].kind # "owner") => mail[j].old = o

\* Who sent a message has the name then; a reply has a sender, or there is none.
Spoken(mail, now) ==
  \A i \in 1..Len(mail) :
    Holds(mail, now, i, IF mail[i].kind = "owner" THEN mail[i].new ELSE mail[i].sender)

\* No signal after message i is about the property.
Unchanged(mail, i, f) ==
  \A j \in 1..Len(mail) : i < j /\ mail[j].kind = "changed" => mail[j].field # f

\* The name passes to nobody.
NoNews(mail) == \A j \in 1..Len(mail) : mail[j].kind # "owner"

\* What a message says of a property is so, unless a later one says something else.
Truthful(mail, values) ==
  \A i \in 1..Len(mail) :
    /\ mail[i].kind = "changed" /\ Unchanged(mail, i, mail[i].field) => mail[i].value = values[mail[i].field]
    /\ mail[i].kind = "reply" =>
         /\ mail[i].ok <=> mail[i].sender # None
         /\ \A f \in BatteryFields : mail[i].ok /\ Unchanged(mail, i, f) => mail[i].values[f] = values[f]

\* Requests are numbered as they are made.
Numbered(calls) == \A i, j \in 1..Len(calls) : i < j => calls[i].id < calls[j].id

\* A reply that was not read is to a request that waits for it.
Awaited(mail, calls) ==
  \A i \in 1..Len(mail) : mail[i].kind = "reply" =>
    \E k \in 1..Len(calls) : calls[k].id = mail[i].id /\ ~calls[k].waits

\* A request will say what the property is.
Asks(b, f) == \E k \in 1..Len(b.calls) : b.calls[k].kind = "all" /\ f \notin b.calls[k].stale

Wants(b) == b.needAll \/ b.calls # <<>>

\* What the service has of UPower, or will have.
Followed(mail, now, values, b) ==
  b.bus /\ NoNews(mail) /\ now # None /\ ~b.missed =>
    IF b.owner = None THEN Wants(b)
    ELSE \A f \in BatteryFields : Unchanged(mail, 0, f) =>
           b.needAll \/ Asks(b, f) \/ (b.authoritative /\ b.raw[f] = values[f])

\* What is shown is of UPower, or of /sys; and nothing is asked without a bus.
Kept(b) ==
  /\ b.shown = Public(IF b.authoritative THEN b.raw ELSE b.sysfsRaw)
  /\ b.sysfs => b.sysfsRaw.present
  /\ b.authoritative => b.owner # None
  /\ ~b.bus => b.calls = <<>> /\ b.owner = None /\ ~b.needAll
  /\ b.owner = None => \A k \in 1..Len(b.calls) : b.calls[k].stale = {}

\* All but what the service waits for.
Service(mail, now, values, b) ==
  /\ b \in BatteryStates /\ Numbered(b.calls) /\ Kept(b)
  /\ b.owner # None => Holds(mail, now, 0, b.owner)
  /\ Followed(mail, now, values, b)
  /\ b.authoritative \/ b.sysfs \/ b.lost \/ Wants(b)

\* The inductive invariant, between the turns.
BatteryOK(u, b) ==
  /\ u \in UPowerStates /\ Spoken(u.mail, u.owner) /\ Truthful(u.mail, u.values)
  /\ Service(u.mail, u.owner, u.values, b) /\ ~b.needAll /\ Awaited(u.mail, b.calls)

-----------------------------------------------------------------------------
(* Messages. *)

\* There is a first message about the name after i, or none.
LEMMA NextNews ==
  ASSUME NEW mail, Len(mail) \in Nat, NEW i \in Nat
  PROVE  \/ \A j \in 1..Len(mail) : i < j => mail[j].kind # "owner"
         \/ \E j \in 1..Len(mail) :
              /\ i < j /\ mail[j].kind = "owner"
              /\ \A k \in 1..Len(mail) : i < k /\ k < j => mail[k].kind # "owner"
<1> DEFINE T == {j \in 1..Len(mail) : i < j /\ mail[j].kind = "owner"}
<1>1. CASE T = {}
  BY <1>1
<1>2. CASE T # {}
  <2>1. T \in SUBSET Nat
    OBVIOUS
  <2>2. PICK j \in T : \A y \in T : ~(y < j)
    <3> HIDE DEF T
    <3> QED BY <1>2, <2>1, Smallest
  <2> QED BY <2>2
<1> QED BY <1>1, <1>2

\* The next message about the name is from who has it.
LEMMA HoldsOne ==
  ASSUME NEW mail, Len(mail) \in Nat, NEW now, NEW i \in Nat, NEW x, NEW y,
         Holds(mail, now, i, x), Holds(mail, now, i, y)
  PROVE  x = y
<1>1. CASE \A j \in 1..Len(mail) : i < j => mail[j].kind # "owner"
  BY <1>1 DEF Holds
<1>2. CASE \E j \in 1..Len(mail) :
             /\ i < j /\ mail[j].kind = "owner"
             /\ \A k \in 1..Len(mail) : i < k /\ k < j => mail[k].kind # "owner"
  BY <1>2 DEF Holds
<1> QED BY <1>1, <1>2, NextNews

\* A message that is not about the name changes nothing of who has it.
LEMMA HoldsNext ==
  ASSUME NEW mail, Len(mail) \in Nat, NEW now, NEW i \in Nat, i + 1 <= Len(mail),
         mail[i + 1].kind # "owner", NEW x, Holds(mail, now, i, x)
  PROVE  Holds(mail, now, i + 1, x)
<1>1. \A j \in 1..Len(mail) : i < j <=> j = i + 1 \/ i + 1 < j
  OBVIOUS
<1>2. i + 1 \in 1..Len(mail)
  OBVIOUS
<1>3. ASSUME \A j \in 1..Len(mail) : i + 1 < j => mail[j].kind # "owner" PROVE x = now
  BY <1>1, <1>3 DEF Holds
<1>4. ASSUME NEW j \in 1..Len(mail), i + 1 < j, mail[j].kind = "owner",
             \A k \in 1..Len(mail) : i + 1 < k /\ k < j => mail[k].kind # "owner"
      PROVE  mail[j].old = x
  <2>1. \A k \in 1..Len(mail) : i < k /\ k < j => mail[k].kind # "owner"
    BY <1>1, <1>4
  <2> QED BY <1>4, <2>1 DEF Holds
<1> QED BY <1>3, <1>4 DEF Holds

\* Who holds the name holds it when replies are dropped.
LEMMA HoldsRest ==
  ASSUME NEW s, NEW t, Len(s) \in Nat, Len(t) \in Nat, NEW n \in Nat, NEW now,
         NEW D, "owner" \notin D, NEW h, Left(t, s, n, D, h),
         NEW o, NEW a \in Nat, NEW b \in Nat,
         \A i \in 1..Len(t) : a < i <=> b < h[i],
         n <= b,
         Holds(s, now, b, o)
  PROVE  Holds(t, now, a, o)
<1>1. \A i \in 1..Len(t) : h[i] \in 1..Len(s) /\ t[i] = s[h[i]] /\ h[i] \in Nat
  BY DEF Left
<1>5. \A i, j \in 1..Len(t) : i < j <=> h[i] < h[j]
  BY <1>1 DEF Left
<1>6. \A j \in 1..Len(s) : b < j /\ s[j].kind = "owner" => \E i \in 1..Len(t) : h[i] = j
  BY DEF Left
<1>2. ASSUME \A j \in 1..Len(t) : a < j => t[j].kind # "owner" PROVE o = now
  <2>1. ASSUME NEW j \in 1..Len(s), b < j, s[j].kind = "owner" PROVE FALSE
    <3>1. PICK i \in 1..Len(t) : h[i] = j
      BY <1>6, <2>1
    <3> QED BY <1>1, <1>2, <2>1, <3>1
  <2> QED BY <2>1 DEF Holds
<1>3. ASSUME NEW j \in 1..Len(t), a < j, t[j].kind = "owner",
             \A k \in 1..Len(t) : a < k /\ k < j => t[k].kind # "owner"
      PROVE  t[j].old = o
  <2>1. h[j] \in 1..Len(s) /\ b < h[j] /\ s[h[j]].kind = "owner" /\ t[j] = s[h[j]]
    BY <1>1, <1>3
  <2>2. ASSUME NEW k \in 1..Len(s), b < k, k < h[j], s[k].kind = "owner" PROVE FALSE
    <3>1. PICK i \in 1..Len(t) : h[i] = k
      BY <1>6, <2>2
    <3>2. a < i /\ i < j
      BY <1>5, <2>2, <3>1
    <3> QED BY <1>1, <1>3, <2>2, <3>1, <3>2
  <2> QED BY <2>1, <2>2 DEF Holds
<1> QED BY <1>2, <1>3 DEF Holds

\* So do senders, and so for what follows a message, ...
LEMMA SpokenRest ==
  ASSUME NEW s, NEW t, Len(s) \in Nat, Len(t) \in Nat, NEW n \in Nat, NEW now,
         Rest(t, s, n, {"reply"}), Spoken(s, now)
  PROVE  Spoken(t, now) /\ \A o : Holds(s, now, n, o) => Holds(t, now, 0, o)
<1>1. PICK h : Left(t, s, n, {"reply"}, h)
  BY DEF Rest
<1>5. /\ \A i \in 1..Len(t) : h[i] \in 1..Len(s) /\ h[i] \in Nat /\ n < h[i] /\ t[i] = s[h[i]]
      /\ \A i, j \in 1..Len(t) : i < j <=> h[i] < h[j]
      /\ \A j \in 1..Len(s) : n < j /\ s[j].kind # "reply" => \E i \in 1..Len(t) : h[i] = j
  BY <1>1 DEF Left
<1>2. ASSUME NEW o, Holds(s, now, n, o) PROVE Holds(t, now, 0, o)
  <2>1. \A i \in 1..Len(t) : 0 < i <=> n < h[i]
    BY <1>5
  <2> QED BY <1>1, <1>2, <2>1, HoldsRest
<1>3. ASSUME NEW i \in 1..Len(t)
      PROVE  Holds(t, now, i, IF t[i].kind = "owner" THEN t[i].new ELSE t[i].sender)
  <2>1. h[i] \in 1..Len(s) /\ h[i] \in Nat /\ n <= h[i] /\ t[i] = s[h[i]] /\ i \in Nat
    BY <1>5
  <2>2. Holds(s, now, h[i], IF t[i].kind = "owner" THEN t[i].new ELSE t[i].sender)
    BY <2>1 DEF Spoken
  <2>3. ASSUME NEW k \in 1..Len(t) PROVE i < k <=> h[i] < h[k]
    BY <1>5
  <2> QED BY <1>1, <2>1, <2>2, <2>3, HoldsRest
<1> QED BY <1>2, <1>3 DEF Spoken

\* ... for what does not change, ...
LEMMA UnchangedRest ==
  ASSUME NEW s, NEW t, Len(s) \in Nat, Len(t) \in Nat, NEW n \in Nat, Rest(t, s, n, {"reply"})
  PROVE  /\ \A f : Unchanged(t, 0, f) => Unchanged(s, n, f)
         /\ NoNews(t) => \A j \in 1..Len(s) : n < j => s[j].kind # "owner"
<1>1. PICK h : Left(t, s, n, {"reply"}, h)
  BY DEF Rest
<1>2. /\ \A i \in 1..Len(t) : t[i] = s[h[i]]
      /\ \A j \in 1..Len(s) : n < j /\ s[j].kind # "reply" => \E i \in 1..Len(t) : h[i] = j
  BY <1>1 DEF Left
<1>3. \A i \in 1..Len(t) : 0 < i
  OBVIOUS
<1>4. ASSUME NEW f, Unchanged(t, 0, f) PROVE Unchanged(s, n, f)
  BY <1>2, <1>3, <1>4 DEF Unchanged
<1>5. ASSUME NoNews(t) PROVE \A j \in 1..Len(s) : n < j => s[j].kind # "owner"
  BY <1>2, <1>5 DEF NoNews
<1> QED BY <1>4, <1>5

\* ... and for what is said.
LEMMA TruthfulRest ==
  ASSUME NEW s, NEW t, Len(s) \in Nat, Len(t) \in Nat, NEW n \in Nat, NEW values,
         Rest(t, s, n, {"reply"}), Truthful(s, values)
  PROVE  Truthful(t, values)
<1>1. PICK h : Left(t, s, n, {"reply"}, h)
  BY DEF Rest
<1>5. /\ \A i \in 1..Len(t) : h[i] \in 1..Len(s) /\ h[i] \in Nat /\ n < h[i] /\ t[i] = s[h[i]]
      /\ \A i, j \in 1..Len(t) : i < j <=> h[i] < h[j]
      /\ \A j \in 1..Len(s) : n < j /\ s[j].kind # "reply" => \E i \in 1..Len(t) : h[i] = j
  BY <1>1 DEF Left
<1>2. ASSUME NEW i \in 1..Len(t), NEW f, Unchanged(t, i, f) PROVE Unchanged(s, h[i], f)
  <2>1. ASSUME NEW j \in 1..Len(s), h[i] < j, s[j].kind = "changed", s[j].field = f PROVE FALSE
    <3>1. PICK k \in 1..Len(t) : h[k] = j
      BY <1>5, <2>1
    <3>2. i < k
      BY <1>5, <2>1, <3>1
    <3> QED BY <1>5, <1>2, <2>1, <3>1, <3>2 DEF Unchanged
  <2> QED BY <2>1 DEF Unchanged
<1>3. \A i \in 1..Len(t) : h[i] \in 1..Len(s) /\ t[i] = s[h[i]]
  BY <1>5
<1>4. ASSUME NEW i \in 1..Len(t), t[i].kind = "changed", Unchanged(t, i, t[i].field)
      PROVE  t[i].value = values[t[i].field]
  BY <1>2, <1>3, <1>4 DEF Truthful
<1>6. ASSUME NEW i \in 1..Len(t), t[i].kind = "reply"
      PROVE  /\ t[i].ok <=> t[i].sender # None
             /\ \A f \in BatteryFields : t[i].ok /\ Unchanged(t, i, f) => t[i].values[f] = values[f]
  <2>1. /\ s[h[i]].ok <=> s[h[i]].sender # None
        /\ \A f \in BatteryFields :
             s[h[i]].ok /\ Unchanged(s, h[i], f) => s[h[i]].values[f] = values[f]
    BY <1>3, <1>6 DEF Truthful
  <2>2. t[i] = s[h[i]]
    BY <1>3
  <2>3. \A f : Unchanged(t, i, f) => Unchanged(s, h[i], f)
    BY <1>2
  <2> QED BY <2>1, <2>2, <2>3
<1> QED BY <1>4, <1>6 DEF Truthful

\* A message is sent after the others.
LEMMA Appended ==
  ASSUME NEW M, NEW s \in Seq(M), NEW m \in M
  PROVE  /\ Append(s, m) \in Seq(M) /\ Len(s) \in Nat /\ Len(Append(s, m)) = Len(s) + 1
         /\ \A i \in 1..Len(s) : Append(s, m)[i] = s[i]
         /\ Append(s, m)[Len(s) + 1] = m
OBVIOUS

\* Who holds the name holds it until it passes to another.
LEMMA HoldsAppend ==
  ASSUME NEW s, NEW t, NEW m, Len(s) \in Nat, Len(t) = Len(s) + 1,
         \A i \in 1..Len(s) : t[i] = s[i], t[Len(s) + 1] = m,
         NEW now, NEW then,
         IF m.kind = "owner" THEN m.old = now ELSE then = now,
         NEW i \in 0..Len(s), NEW o, Holds(s, now, i, o)
  PROVE  Holds(t, then, i, o)
<1>1. \A j \in 1..Len(t) : j \in 1..Len(s) \/ j = Len(s) + 1
  OBVIOUS
<1>2. Len(s) + 1 \in 1..Len(t) /\ i < Len(s) + 1 /\ \A j \in 1..Len(s) : j \in 1..Len(t)
  OBVIOUS
<1>3. ASSUME \A j \in 1..Len(t) : i < j => t[j].kind # "owner" PROVE o = then
  <2>1. m.kind # "owner"
    BY <1>2, <1>3
  <2>2. \A j \in 1..Len(s) : i < j => s[j].kind # "owner"
    BY <1>2, <1>3
  <2> QED BY <2>1, <2>2 DEF Holds
<1>4. ASSUME NEW j \in 1..Len(t), i < j, t[j].kind = "owner",
             \A k \in 1..Len(t) : i < k /\ k < j => t[k].kind # "owner"
      PROVE  t[j].old = o
  <2>1. CASE j \in 1..Len(s)
    <3>1. \A k \in 1..Len(s) : i < k /\ k < j => s[k].kind # "owner"
      BY <1>2, <1>4
    <3> QED BY <1>4, <2>1, <3>1 DEF Holds
  <2>2. CASE j = Len(s) + 1
    <3>1. \A k \in 1..Len(s) : i < k => s[k].kind # "owner"
      BY <1>2, <1>4, <2>2
    <3>2. o = now
      BY <3>1 DEF Holds
    <3> QED BY <1>4, <2>2, <3>2
  <2> QED BY <1>1, <2>1, <2>2
<1> QED BY <1>3, <1>4 DEF Holds

\* The owner sends, or its name passes on.
LEMMA SpokenAppend ==
  ASSUME NEW M, NEW s \in Seq(M), NEW m \in M, NEW now, NEW then, Spoken(s, now),
         IF m.kind = "owner" THEN m.old = now /\ m.new = then ELSE m.sender = then /\ then = now
  PROVE  /\ Spoken(Append(s, m), then)
         /\ \A o : Holds(s, now, 0, o) => Holds(Append(s, m), then, 0, o)
<1> DEFINE t == Append(s, m)
<1>1. /\ Len(s) \in Nat /\ Len(t) = Len(s) + 1
      /\ \A i \in 1..Len(s) : t[i] = s[i]
      /\ t[Len(s) + 1] = m
  BY Appended
<1> HIDE DEF t
<1>2. ASSUME NEW i \in 0..Len(s), NEW o, Holds(s, now, i, o) PROVE Holds(t, then, i, o)
  BY <1>1, <1>2, HoldsAppend
<1>3. ASSUME NEW i \in 1..Len(t)
      PROVE  Holds(t, then, i, IF t[i].kind = "owner" THEN t[i].new ELSE t[i].sender)
  <2>1. CASE i \in 1..Len(s)
    <3>1. Holds(s, now, i, IF t[i].kind = "owner" THEN t[i].new ELSE t[i].sender)
      BY <1>1, <2>1 DEF Spoken
    <3> QED BY <1>1, <1>2, <2>1, <3>1
  <2>2. CASE i = Len(s) + 1
    <3>1. \A j \in 1..Len(t) : ~(i < j)
      BY <1>1, <2>2
    <3>2. then = IF t[i].kind = "owner" THEN t[i].new ELSE t[i].sender
      BY <1>1, <2>2
    <3> QED BY <3>1, <3>2 DEF Holds
  <2> QED BY <1>1, <2>1, <2>2
<1>4. \A o : Holds(s, now, 0, o) => Holds(t, then, 0, o)
  BY <1>1, <1>2
<1> QED BY <1>3, <1>4 DEF Spoken, t

\* values become new by the message m.
LEMMA TruthfulAppend ==
  ASSUME NEW M, NEW s \in Seq(M), NEW m \in M, NEW values, NEW new, Truthful(s, values),
         \A f \in BatteryFields : (m.kind = "changed" /\ m.field = f) \/ new[f] = values[f],
         m.kind = "changed" => m.value = new[m.field],
         m.kind = "reply" => (m.ok <=> m.sender # None) /\ m.values = new,
         \A i \in 1..Len(s) : s[i].kind = "changed" => s[i].field \in BatteryFields
  PROVE  /\ Truthful(Append(s, m), new)
         /\ \A f \in BatteryFields : Unchanged(Append(s, m), 0, f) => Unchanged(s, 0, f) /\ new[f] = values[f]
<1> DEFINE t == Append(s, m)
<1>1. /\ Len(s) \in Nat /\ Len(t) = Len(s) + 1
      /\ \A i \in 1..Len(s) : t[i] = s[i]
      /\ t[Len(s) + 1] = m
  BY Appended
<1> HIDE DEF t
<1>2. /\ \A i \in 1..Len(t) : i \in 1..Len(s) \/ i = Len(s) + 1
      /\ \A i \in 1..Len(s) : i \in 1..Len(t) /\ i < Len(s) + 1
      /\ Len(s) + 1 \in 1..Len(t) /\ 0 < Len(s) + 1
  BY <1>1
<1>3. ASSUME NEW i \in 0..Len(s), NEW f \in BatteryFields, Unchanged(t, i, f)
      PROVE  Unchanged(s, i, f) /\ new[f] = values[f]
  <2>1. i < Len(s) + 1
    BY <1>1
  <2>2. ~(m.kind = "changed" /\ m.field = f)
    BY <1>1, <1>2, <1>3, <2>1 DEF Unchanged
  <2>3. Unchanged(s, i, f)
    BY <1>1, <1>2, <1>3 DEF Unchanged
  <2> QED BY <2>2, <2>3
<1>4. ASSUME NEW i \in 1..Len(t), t[i].kind = "changed", Unchanged(t, i, t[i].field)
      PROVE  t[i].value = new[t[i].field]
  <2>1. CASE i = Len(s) + 1
    BY <1>1, <1>4, <2>1
  <2>2. CASE i \in 1..Len(s)
    <3>1. s[i].field \in BatteryFields /\ t[i] = s[i] /\ i \in 0..Len(s)
      BY <1>1, <1>4, <2>2
    <3>2. Unchanged(s, i, s[i].field) /\ new[s[i].field] = values[s[i].field]
      BY <1>3, <1>4, <3>1
    <3> QED BY <1>4, <2>2, <3>1, <3>2 DEF Truthful
  <2> QED BY <1>2, <2>1, <2>2
<1>5. ASSUME NEW i \in 1..Len(t), t[i].kind = "reply"
      PROVE  /\ t[i].ok <=> t[i].sender # None
             /\ \A f \in BatteryFields : t[i].ok /\ Unchanged(t, i, f) => t[i].values[f] = new[f]
  <2>1. CASE i = Len(s) + 1
    BY <1>1, <1>5, <2>1
  <2>2. CASE i \in 1..Len(s)
    <3>1. t[i] = s[i] /\ i \in 0..Len(s)
      BY <1>1, <2>2
    <3>2. \A f \in BatteryFields : Unchanged(t, i, f) => Unchanged(s, i, f) /\ new[f] = values[f]
      BY <1>3, <3>1
    <3>3. /\ s[i].ok <=> s[i].sender # None
          /\ \A f \in BatteryFields : s[i].ok /\ Unchanged(s, i, f) => s[i].values[f] = values[f]
      BY <1>5, <2>2, <3>1 DEF Truthful
    <3> QED BY <3>1, <3>2, <3>3
  <2> QED BY <1>2, <2>1, <2>2
<1>6. \A f \in BatteryFields : Unchanged(t, 0, f) => Unchanged(s, 0, f) /\ new[f] = values[f]
  BY <1>1, <1>3
<1> QED BY <1>4, <1>5, <1>6 DEF Truthful, t

\* The messages by their kinds.
LEMMA MailShape ==
  ASSUME NEW m \in BatteryMail
  PROVE  /\ m.kind \in {"owner", "changed", "reply"}
         /\ m.kind = "owner" => m.old \in Owner /\ m.new \in Owner
         /\ m.kind = "changed" => /\ m.sender \in Nat /\ m.field \in BatteryFields /\ m.told \in BOOLEAN
                                  /\ m.value \in (IF m.field = "present" THEN BOOLEAN ELSE Levels)
         /\ m.kind = "reply" => /\ m.id \in Nat /\ m.ok \in BOOLEAN /\ m.sender \in Owner
                                /\ m.values \in BatteryValues
BY DEF BatteryMail, BatteryFields

-----------------------------------------------------------------------------
(* UPower, the bus and /sys. *)

\* The service does nothing, and what it will learn is as it was.
LEMMA ServiceStays ==
  ASSUME NEW s, NEW now, NEW values, NEW t, NEW then, NEW new, NEW b, Service(s, now, values, b),
         \A o : Holds(s, now, 0, o) => Holds(t, then, 0, o),
         NoNews(t) => NoNews(s) /\ then = now,
         \A f \in BatteryFields : Unchanged(t, 0, f) => Unchanged(s, 0, f) /\ new[f] = values[f]
  PROVE  Service(t, then, new, b)
BY DEF Service, Followed

\* A message is sent.
LEMMA MessageSent ==
  ASSUME NEW u, NEW b, BatteryOK(u, b), NEW v \in UPowerStates, NEW m \in BatteryMail,
         v.mail = Append(u.mail, m), m.kind # "reply",
         IF m.kind = "owner" THEN m.old = u.owner /\ m.new = v.owner
         ELSE m.sender = v.owner /\ v.owner = u.owner,
         \A f \in BatteryFields : (m.kind = "changed" /\ m.field = f) \/ v.values[f] = u.values[f],
         m.kind = "changed" => m.value = v.values[m.field]
  PROVE  BatteryOK(v, b)
<1>1. u.mail \in Seq(BatteryMail)
  BY DEF BatteryOK, UPowerStates
<1> DEFINE s == u.mail
           t == v.mail
<1>2. /\ Len(s) \in Nat /\ Len(t) = Len(s) + 1
      /\ \A i \in 1..Len(s) : t[i] = s[i]
      /\ t[Len(s) + 1] = m
  BY <1>1, Appended
<1>3. \A i \in 1..Len(s) : s[i].kind = "changed" => s[i].field \in BatteryFields
  BY <1>1, MailShape
<1>4. Spoken(t, v.owner) /\ \A o : Holds(s, u.owner, 0, o) => Holds(t, v.owner, 0, o)
  BY <1>1, SpokenAppend DEF BatteryOK
<1>5. /\ Truthful(t, v.values)
      /\ \A f \in BatteryFields : Unchanged(t, 0, f) => Unchanged(s, 0, f) /\ v.values[f] = u.values[f]
  BY <1>1, <1>3, TruthfulAppend DEF BatteryOK
<1> HIDE DEF s, t
<1>6. NoNews(t) => NoNews(s) /\ v.owner = u.owner
  <2>1. Len(s) + 1 \in 1..Len(t) /\ \A i \in 1..Len(s) : i \in 1..Len(t)
    BY <1>2
  <2> QED BY <1>2, <2>1 DEF NoNews
<1>7. Service(t, v.owner, v.values, b)
  BY <1>4, <1>5, <1>6, ServiceStays DEF BatteryOK, s
<1>8. Awaited(t, b.calls)
  <2>1. \A i \in 1..Len(t) : i \in 1..Len(s) \/ i = Len(s) + 1
    BY <1>2
  <2>2. \A i \in 1..Len(t) : t[i].kind = "reply" => i \in 1..Len(s) /\ t[i] = s[i]
    BY <1>2, <2>1
  <2> QED BY <2>2 DEF BatteryOK, Awaited, s
<1> QED BY <1>4, <1>5, <1>7, <1>8 DEF BatteryOK, t

\* Types of the fields of UPower.
LEMMA UPowerOf ==
  ASSUME NEW u \in UPowerStates
  PROVE  /\ u.owner \in Owner /\ u.values \in BatteryValues /\ u.supply \in Levels \cup {None}
         /\ u.mail \in Seq(BatteryMail) /\ u.born \in Nat /\ u.events \in Nat /\ u.failed \in Nat
BY DEF UPowerStates

\* What UPower becomes when it sends the message m.
Sending(u, owner, values, born, m) ==
  [u EXCEPT !.owner = owner, !.values = values, !.born = born, !.mail = Append(@, m), !.events = @ + 1]

\* Only what is said of the owner and of the battery matters to what it sends.
LEMMA UPowerSends ==
  ASSUME NEW u \in UPowerStates, NEW owner \in Owner, NEW values \in BatteryValues, NEW born \in Nat,
         NEW m \in BatteryMail, NEW v, v = Sending(u, owner, values, born, m)
  PROVE  /\ v \in UPowerStates /\ v.owner = owner /\ v.values = values
         /\ v.mail = Append(u.mail, m)
<1> DEFINE e == u.events + 1
           q == Append(u.mail, m)
<1>1. e \in Nat /\ q \in Seq(BatteryMail)
  BY UPowerOf
<1>2. v = [u EXCEPT !.owner = owner, !.values = values, !.born = born, !.mail = q, !.events = e]
  BY DEF Sending
<1> HIDE DEF e, q
<1>3. v \in UPowerStates /\ v.owner = owner /\ v.values = values /\ v.mail = q
  BY <1>1, <1>2 DEF UPowerStates
<1> QED BY <1>3 DEF q

\* UPower starts, stops and changes.
LEMMA UPowerStep ==
  ASSUME BatteryOK(upower, battery),
         UPowerStarts \/ UPowerStops
         \/ \E told \in BOOLEAN : \/ \E present \in BOOLEAN : BatteryChanges("present", present, told)
                                  \/ \E level \in Levels : BatteryChanges("level", level, told)
  PROVE  BatteryOK(upower, battery)'
<1>1. upower \in UPowerStates
  BY DEF BatteryOK
<1>2. CASE UPowerStarts
  <2> DEFINE m == [kind |-> "owner", old |-> None, new |-> upower.born + 1]
  <2>1. m \in BatteryMail
    BY <1>1, UPowerOf DEF BatteryMail, Owner
  <2>2. upower' \in UPowerStates /\ upower'.owner = upower.born + 1 /\ upower'.values = upower.values
        /\ upower'.mail = Append(upower.mail, m)
    <3> DEFINE o == upower.born + 1
    <3>1. o \in Nat /\ o \in Owner /\ upower.values \in BatteryValues
      BY <1>1, UPowerOf DEF Owner
    <3>2. upower' = Sending(upower, o, upower.values, o, m)
      BY <1>1, <1>2 DEF Sending, UPowerStarts, Happens, Sent, UPowerStates
    <3> HIDE DEF m
    <3>3. /\ upower' \in UPowerStates /\ upower'.owner = o /\ upower'.values = upower.values
          /\ upower'.mail = Append(upower.mail, m)
      <4> HIDE DEF o
      <4> QED BY <1>1, <2>1, <3>1, <3>2, UPowerSends
    <3> QED BY <3>3
  <2>3. battery' = battery /\ upower.owner = None
    BY <1>2 DEF UPowerStarts, Happens
  <2> QED BY <2>1, <2>2, <2>3, MessageSent
<1>3. CASE UPowerStops
  <2> DEFINE m == [kind |-> "owner", old |-> upower.owner, new |-> None]
  <2>1. m \in BatteryMail
    BY <1>1, UPowerOf DEF BatteryMail, Owner
  <2>2. upower' \in UPowerStates /\ upower'.owner = None /\ upower'.values = upower.values
        /\ upower'.mail = Append(upower.mail, m)
    <3>1. None \in Owner /\ upower.values \in BatteryValues /\ upower.born \in Nat
      BY <1>1, UPowerOf DEF Owner
    <3>2. upower' = Sending(upower, None, upower.values, upower.born, m)
      BY <1>1, <1>3 DEF Sending, UPowerStops, Happens, Sent, UPowerStates
    <3> HIDE DEF m
    <3> QED BY <1>1, <2>1, <3>1, <3>2, UPowerSends
  <2>3. battery' = battery
    BY <1>3 DEF UPowerStops, Happens
  <2> QED BY <2>1, <2>2, <2>3, MessageSent
<1>4. ASSUME NEW told \in BOOLEAN, NEW field \in BatteryFields, NEW value,
             value \in (IF field = "present" THEN BOOLEAN ELSE Levels),
             BatteryChanges(field, value, told)
      PROVE  BatteryOK(upower, battery)'
  <2> DEFINE m == [kind |-> "changed", sender |-> upower.owner, field |-> field, value |-> value, told |-> told]
  <2>1. m \in BatteryMail
    BY <1>1, <1>4, UPowerOf DEF BatteryMail, Owner, BatteryFields, BatteryChanges
  <2>2. upower' \in UPowerStates /\ upower'.owner = upower.owner
        /\ upower'.values = [upower.values EXCEPT ![field] = value]
        /\ upower'.mail = Append(upower.mail, m)
    <3> DEFINE w == [upower.values EXCEPT ![field] = value]
    <3>1. w \in BatteryValues
      BY <1>1, <1>4, UPowerOf DEF BatteryValues, BatteryFields
    <3>2. upower.owner \in Owner /\ upower.born \in Nat
      BY <1>1, UPowerOf
    <3>3. upower' = Sending(upower, upower.owner, w, upower.born, m)
      BY <1>1, <1>4 DEF Sending, BatteryChanges, Happens, Sent, UPowerStates
    <3> HIDE DEF m, w
    <3>4. /\ upower' \in UPowerStates /\ upower'.owner = upower.owner /\ upower'.values = w
          /\ upower'.mail = Append(upower.mail, m)
      BY <1>1, <2>1, <3>1, <3>2, <3>3, UPowerSends
    <3> QED BY <3>4 DEF w
  <2>3. battery' = battery
    BY <1>4 DEF BatteryChanges, Happens
  <2>4. /\ \A f \in BatteryFields : f = field \/ upower'.values[f] = upower.values[f]
        /\ upower'.values[field] = value
    BY <1>1, <2>2, UPowerOf DEF BatteryFields, BatteryValues
  <2>5. m.kind = "changed" /\ m.sender = upower.owner /\ m.field = field /\ m.value = value
    OBVIOUS
  <2> HIDE DEF m
  <2> DEFINE v == upower'
  <2>6. /\ v \in UPowerStates /\ v.mail = Append(upower.mail, m) /\ v.owner = upower.owner
        /\ \A f \in BatteryFields : f = m.field \/ v.values[f] = upower.values[f]
        /\ v.values[m.field] = m.value
    BY <2>2, <2>4, <2>5
  <2> HIDE DEF v
  <2>7. BatteryOK(v, battery)
    BY <2>1, <2>5, <2>6, MessageSent
  <2> QED BY <2>3, <2>7 DEF v
<1> QED BY <1>2, <1>3, <1>4 DEF BatteryFields

\* /sys changes.
LEMMA SupplyStep ==
  ASSUME BatteryOK(upower, battery), NEW supply \in Levels \cup {None}, SupplyChanges(supply)
  PROVE  BatteryOK(upower, battery)'
<1>1. battery' = battery /\ upower' = [upower EXCEPT !.supply = supply, !.events = @ + 1]
  BY DEF SupplyChanges, Happens
<1>2. upower' \in UPowerStates /\ upower'.mail = upower.mail /\ upower'.owner = upower.owner
      /\ upower'.values = upower.values
  <2> DEFINE e == upower.events + 1
  <2>1. e \in Nat /\ upower \in UPowerStates
    BY UPowerOf DEF BatteryOK
  <2>2. upower' = [upower EXCEPT !.supply = supply, !.events = e]
    BY <1>1
  <2> HIDE DEF e
  <2> QED BY <2>1, <2>2 DEF UPowerStates
<1> QED BY <1>1, <1>2 DEF BatteryOK

-----------------------------------------------------------------------------
(* What becomes of the service. *)

\* Types of the fields of the service.
LEMMA BatteryOf ==
  ASSUME NEW b \in BatteryStates
  PROVE  /\ b.bus \in BOOLEAN /\ b.owner \in Owner /\ b.authoritative \in BOOLEAN /\ b.raw \in BatteryValues
         /\ b.sysfs \in BOOLEAN /\ b.sysfsRaw \in BatteryValues /\ b.needAll \in BOOLEAN
         /\ b.calls \in Seq(BatteryCall) /\ b.missed \in BOOLEAN /\ b.lost \in BOOLEAN
BY DEF BatteryStates

\* What is shown has its type, of a battery ...
LEMMA PublicTypes ==
  ASSUME NEW v \in BatteryValues
  PROVE  Public(v) \in [available : BOOLEAN, level : Levels \cup {None, Full}]
BY DEF Public, BatteryValues

\* ... or of none.
LEMMA NoBatteryTypes == NoBattery \in BatteryValues
BY DEF NoBattery, BatteryValues

\* What is shown is right, and what /sys has is there.
Facing(b) ==
  /\ b \in BatteryStates
  /\ b.shown = Public(IF b.authoritative THEN b.raw ELSE b.sysfsRaw)
  /\ b.sysfs => b.sysfsRaw.present

\* The rest of the state.
SameService(t, b) ==
  t.bus = b.bus /\ t.needAll = b.needAll /\ t.missed = b.missed

\* The functions of battery.c, each by what it changes and what it leaves.
LEMMA PublicIs ==
  ASSUME NEW b \in BatteryStates
  PROVE  LET t == public_from_raw(b)
         IN  /\ t \in BatteryStates
             /\ t.shown = Public(IF t.authoritative THEN t.raw ELSE t.sysfsRaw)
             /\ SameService(t, b) /\ t.owner = b.owner /\ t.authoritative = b.authoritative /\ t.raw = b.raw
             /\ t.sysfs = b.sysfs /\ t.sysfsRaw = b.sysfsRaw /\ t.calls = b.calls /\ t.lost = b.lost
<1> DEFINE shown == Public(IF b.authoritative THEN b.raw ELSE b.sysfsRaw)
           t == public_from_raw(b)
<1>1. shown \in [available : BOOLEAN, level : Levels \cup {None, Full}]
  BY BatteryOf, PublicTypes
<1>2. t = [b EXCEPT !.shown = shown]
  BY DEF public_from_raw
<1> HIDE DEF shown, t
<1>3. /\ t \in BatteryStates /\ t.shown = shown
      /\ SameService(t, b) /\ t.owner = b.owner /\ t.authoritative = b.authoritative /\ t.raw = b.raw
      /\ t.sysfs = b.sysfs /\ t.sysfsRaw = b.sysfsRaw /\ t.calls = b.calls /\ t.lost = b.lost
  BY <1>1, <1>2 DEF BatteryStates, SameService
<1> QED BY <1>3 DEF shown, t

LEMMA ReadIs ==
  ASSUME NEW b \in BatteryStates, upower \in UPowerStates
  PROVE  LET t == read_sysfs(b)
         IN  /\ Facing(t) /\ SameService(t, b) /\ t.owner = b.owner /\ t.authoritative = b.authoritative
             /\ t.raw = b.raw /\ t.calls = b.calls /\ (t.sysfs \/ t.lost)
<1> DEFINE found == upower.supply # None
           raw == IF found THEN [present |-> TRUE, level |-> upower.supply] ELSE NoBattery
           lost == b.lost \/ ~found
           c == [b EXCEPT !.sysfs = found, !.lost = lost, !.sysfsRaw = raw]
           t == read_sysfs(b)
<1>1. /\ raw \in BatteryValues /\ found \in BOOLEAN /\ lost \in BOOLEAN /\ (found => raw.present)
      /\ (found \/ lost)
  BY UPowerOf, NoBatteryTypes, BatteryOf DEF BatteryValues
<1>2. t = public_from_raw(c)
  BY DEF read_sysfs
<1> HIDE DEF raw, found, lost
<1>3. /\ c \in BatteryStates /\ c.sysfs = found /\ c.lost = lost /\ c.sysfsRaw = raw
      /\ SameService(c, b) /\ c.owner = b.owner /\ c.authoritative = b.authoritative /\ c.raw = b.raw
      /\ c.calls = b.calls
  BY <1>1 DEF BatteryStates, SameService
<1> HIDE DEF c, t
<1>4. /\ Facing(t) /\ SameService(t, b) /\ t.owner = b.owner /\ t.authoritative = b.authoritative
      /\ t.raw = b.raw /\ t.calls = b.calls /\ (t.sysfs \/ t.lost)
  BY <1>1, <1>2, <1>3, PublicIs DEF Facing, SameService
<1> QED BY <1>4 DEF t

LEMMA StartIs ==
  ASSUME NEW b \in BatteryStates, upower \in UPowerStates
  PROVE  LET t == start_sysfs(b)
         IN  /\ Facing(t) /\ SameService(t, b) /\ t.owner = b.owner /\ ~t.authoritative
             /\ t.calls = b.calls /\ (t.sysfs \/ t.lost)
<1> DEFINE c == [b EXCEPT !.authoritative = FALSE, !.lost = FALSE]
           t == start_sysfs(b)
<1>1. /\ c \in BatteryStates /\ SameService(c, b) /\ c.owner = b.owner /\ c.authoritative = FALSE
      /\ c.calls = b.calls
  BY DEF BatteryStates, SameService
<1>2. t = read_sysfs(c)
  BY DEF start_sysfs
<1> HIDE DEF c, t
<1>3. /\ Facing(t) /\ SameService(t, b) /\ t.owner = b.owner /\ ~t.authoritative
      /\ t.calls = b.calls /\ (t.sysfs \/ t.lost)
  BY <1>1, <1>2, ReadIs DEF SameService
<1> QED BY <1>3 DEF t

LEMMA NewOwnerIs ==
  ASSUME NEW b \in BatteryStates, NEW o \in Owner
  PROVE  LET t == NewOwner(b, o)
         IN  /\ t \in BatteryStates /\ t.owner = o /\ t.calls = <<>>
             /\ SameService(t, b) /\ t.authoritative = b.authoritative /\ t.raw = b.raw /\ t.shown = b.shown
             /\ t.sysfs = b.sysfs /\ t.sysfsRaw = b.sysfsRaw /\ t.lost = b.lost
<1>1. <<>> \in Seq(BatteryCall)
  OBVIOUS
<1> QED BY <1>1 DEF NewOwner, BatteryStates, SameService

LEMMA FallbackIs ==
  ASSUME NEW b \in BatteryStates, upower \in UPowerStates
  PROVE  LET t == fallback_to_sysfs(b)
         IN  /\ Facing(t) /\ t.bus = b.bus /\ ~t.needAll /\ t.missed = b.missed /\ t.owner = None
             /\ ~t.authoritative /\ t.calls = <<>> /\ (t.sysfs \/ t.lost)
<1> DEFINE n == NewOwner(b, None)
           c == [n EXCEPT !.raw = NoBattery, !.sysfsRaw = NoBattery, !.needAll = FALSE, !.authoritative = FALSE]
           d == public_from_raw(c)
           t == fallback_to_sysfs(b)
<1>1. n \in BatteryStates /\ n.owner = None /\ n.calls = <<>> /\ SameService(n, b)
  BY NewOwnerIs DEF Owner
<1>2. t = start_sysfs(d)
  BY DEF fallback_to_sysfs, clear_upower
<1> HIDE DEF n
<1>3. /\ c \in BatteryStates /\ c.owner = None /\ c.calls = <<>> /\ c.needAll = FALSE
      /\ c.bus = n.bus /\ c.missed = n.missed
  BY <1>1, NoBatteryTypes DEF BatteryStates
<1> HIDE DEF c
<1>4. /\ d \in BatteryStates /\ d.owner = None /\ d.calls = <<>> /\ d.needAll = FALSE
      /\ d.bus = n.bus /\ d.missed = n.missed
  BY <1>3, PublicIs DEF SameService
<1> HIDE DEF d, t
<1>5. /\ Facing(t) /\ t.bus = b.bus /\ ~t.needAll /\ t.missed = b.missed /\ t.owner = None
      /\ ~t.authoritative /\ t.calls = <<>> /\ (t.sysfs \/ t.lost)
  BY <1>1, <1>2, <1>4, StartIs DEF SameService
<1> QED BY <1>5 DEF t

LEMMA ResetIs ==
  ASSUME NEW b \in BatteryStates
  PROVE  LET t == reset_upower_values(b)
         IN  /\ Facing(t) /\ SameService(t, b) /\ t.owner = b.owner /\ ~t.authoritative /\ t.calls = b.calls
             /\ ~t.sysfs
<1> DEFINE c == [b EXCEPT !.raw = NoBattery, !.sysfsRaw = NoBattery, !.authoritative = FALSE, !.sysfs = FALSE]
           t == reset_upower_values(b)
<1>1. t = public_from_raw(c)
  BY DEF reset_upower_values
<1>2. /\ c \in BatteryStates /\ SameService(c, b) /\ c.owner = b.owner /\ c.authoritative = FALSE
      /\ c.calls = b.calls /\ c.sysfs = FALSE
  BY NoBatteryTypes DEF BatteryStates, SameService
<1> HIDE DEF c, t
<1>3. /\ Facing(t) /\ SameService(t, b) /\ t.owner = b.owner /\ ~t.authoritative /\ t.calls = b.calls
      /\ ~t.sysfs
  BY <1>1, <1>2, PublicIs DEF Facing, SameService
<1> QED BY <1>3 DEF t

\* Everything is asked for: its request is the last, and nothing has overtaken it.
LEMMA AskedIs ==
  ASSUME NEW b \in BatteryStates, Numbered(b.calls), b.needAll => b.bus
  PROVE  LET t == queue_get_all(b)
         IN  /\ t \in BatteryStates /\ t.bus = b.bus /\ t.missed = b.missed /\ ~t.needAll /\ t.owner = b.owner
             /\ t.authoritative = b.authoritative /\ t.raw = b.raw /\ t.shown = b.shown
             /\ t.sysfs = b.sysfs /\ t.sysfsRaw = b.sysfsRaw /\ t.lost = b.lost
             /\ Numbered(t.calls) /\ (b.needAll => t.calls # <<>> /\ \A f : Asks(t, f))
             /\ \A f : Asks(b, f) => Asks(t, f)
             /\ b.calls # <<>> => t.calls # <<>>
             /\ b.calls = <<>> /\ ~b.needAll => t.calls = <<>>
             /\ (\A k \in 1..Len(b.calls) : b.calls[k].stale = {}) => \A k \in 1..Len(t.calls) : t.calls[k].stale = {}
<1> DEFINE call == [id |-> NextId(b.calls), kind |-> "all", waits |-> TRUE, stale |-> {}]
           q == Append(b.calls, call)
           c == b.calls
           t == queue_get_all(b)
<1>1. c \in Seq(BatteryCall) /\ b.bus \in BOOLEAN /\ b.needAll \in BOOLEAN
  BY BatteryOf
<1>2. CASE ~b.needAll
  <2>1. t = b
    BY <1>2 DEF queue_get_all
  <2> QED BY <1>1, <1>2, <2>1 DEF Asks
<1>3. CASE b.needAll
  <2>1. t = [b EXCEPT !.needAll = FALSE, !.calls = q]
    BY <1>3 DEF queue_get_all
  <2>2. NextId(c) \in Nat /\ \A k \in 1..Len(c) : c[k].id < NextId(c)
    <3>1. CASE c = <<>>
      BY <3>1 DEF NextId
    <3>2. CASE c # <<>>
      <4>1. Len(c) \in 1..Len(c) /\ \A k \in 1..Len(c) : c[k].id \in Nat /\ (k < Len(c) \/ k = Len(c))
        <5>1. Len(c) \in 1..Len(c) /\ \A k \in 1..Len(c) : c[k] \in BatteryCall /\ (k < Len(c) \/ k = Len(c))
          <6> HIDE DEF c
          <6> QED BY <1>1, <3>2
        <5> QED BY <5>1 DEF BatteryCall
      <4>2. NextId(c) = c[Len(c)].id + 1
        BY <3>2 DEF NextId
      <4>3. \A k \in 1..Len(c) : k < Len(c) => c[k].id < c[Len(c)].id
        BY <4>1 DEF Numbered
      <4> QED BY <4>1, <4>2, <4>3
    <3> QED BY <3>1, <3>2
  <2>3. call \in BatteryCall
    BY <2>2 DEF BatteryCall
  <2>4. /\ q \in Seq(BatteryCall) /\ Len(q) = Len(c) + 1 /\ Len(c) \in Nat
        /\ \A k \in 1..Len(c) : q[k] = c[k]
        /\ q[Len(c) + 1] = call
    BY <1>1, <2>3, Appended
  <2>5. call.id = NextId(c) /\ call.kind = "all" /\ call.stale = {}
    OBVIOUS
  <2> HIDE DEF call, c, q
  <2>6. /\ t \in BatteryStates /\ t.calls = q /\ ~t.needAll /\ t.owner = b.owner /\ t.bus = b.bus
        /\ t.missed = b.missed
        /\ t.authoritative = b.authoritative /\ t.raw = b.raw /\ t.shown = b.shown
        /\ t.sysfs = b.sysfs /\ t.sysfsRaw = b.sysfsRaw /\ t.lost = b.lost
    BY <2>1, <2>4 DEF BatteryStates
  <2> HIDE DEF t
  <2>7. /\ \A k \in 1..Len(q) : k \in 1..Len(c) \/ k = Len(c) + 1
        /\ Len(c) + 1 \in 1..Len(q) /\ \A k \in 1..Len(c) : k \in 1..Len(q)
    BY <2>4
  <2>8. Numbered(q)
    <3>1. ASSUME NEW i \in 1..Len(q), NEW j \in 1..Len(q), i < j PROVE q[i].id < q[j].id
      <4>1. i \in 1..Len(c) /\ q[i] = c[i]
        BY <2>4, <3>1
      <4>2. CASE j \in 1..Len(c)
        BY <2>4, <3>1, <4>1, <4>2 DEF Numbered, c
      <4>3. CASE j = Len(c) + 1
        BY <2>2, <2>4, <2>5, <4>1, <4>3
      <4> QED BY <2>7, <4>2, <4>3
    <3> QED BY <3>1 DEF Numbered
  <2>9. \A f : Asks(t, f)
    BY <2>4, <2>5, <2>6, <2>7 DEF Asks
  <2>10. q # <<>>
    BY <2>4
  <2>11. (\A k \in 1..Len(c) : c[k].stale = {}) => \A k \in 1..Len(q) : q[k].stale = {}
    BY <2>4, <2>5, <2>7
  <2> QED BY <1>3, <2>6, <2>8, <2>9, <2>10, <2>11 DEF c, t
<1> QED BY <1>1, <1>2, <1>3

\* Types of the fields of a request.
LEMMA CallOf ==
  ASSUME NEW c \in BatteryCall
  PROVE  c.id \in Nat /\ c.kind \in {"owner", "all"} /\ c.waits \in BOOLEAN /\ c.stale \in SUBSET BatteryFields
BY DEF BatteryCall

\* The calls of t are those of b but for those with some number.
LessCalls(t, b, id) ==
  /\ \A i \in 1..Len(t) : \E k \in 1..Len(b) : t[i] = b[k] /\ b[k].id # id
  /\ \A k \in 1..Len(b) : b[k].id # id => \E i \in 1..Len(t) : t[i] = b[k]

LEMMA WithoutIs ==
  ASSUME NEW b \in BatteryStates, NEW call, Numbered(b.calls)
  PROVE  LET t == Without(b, call)
         IN  /\ t \in BatteryStates /\ t.bus = b.bus /\ t.needAll = b.needAll /\ t.missed = b.missed
             /\ t.owner = b.owner /\ t.authoritative = b.authoritative /\ t.raw = b.raw /\ t.shown = b.shown
             /\ t.sysfs = b.sysfs /\ t.sysfsRaw = b.sysfsRaw /\ t.lost = b.lost
             /\ Numbered(t.calls) /\ LessCalls(t.calls, b.calls, call.id)
<1> DEFINE s == b.calls
           S == {c \in ToSet(s) : c.id # call.id}
           q == Only(s, S)
           t == Without(b, call)
<1>1. s \in Seq(BatteryCall) /\ \A k \in 1..Len(s) : s[k] \in ToSet(s)
  BY BatteryOf DEF ToSet
<1>2. q \in Seq(BatteryCall)
  BY <1>1, OnlyIs
<1>3. PICK h : Places(q, s, S, Len(s), h)
  BY <1>1, OnlyIs
<1>4. \A x \in S : x.id # call.id
  OBVIOUS
<1>5. \A k \in 1..Len(s) : s[k].id # call.id => s[k] \in S
  BY <1>1
<1>6. t = [b EXCEPT !.calls = q]
  BY DEF Without
<1>13. Numbered(s)
  OBVIOUS
<1>7. s = b.calls
  OBVIOUS
<1> HIDE DEF s, S, q, t
<1>8. h \in [1..Len(q) -> 1..Len(s)] /\ Len(s) \in Nat
  BY <1>1, <1>3 DEF Places
<1>9. \A i \in 1..Len(q) : h[i] \in 1..Len(s) /\ q[i] = s[h[i]] /\ q[i] \in S
  BY <1>3, <1>8 DEF Places
<1>10. Numbered(q)
  BY <1>3, <1>9, <1>13 DEF Numbered, Places
<1>11. LessCalls(q, s, call.id)
  <2>1. ASSUME NEW i \in 1..Len(q) PROVE \E k \in 1..Len(s) : q[i] = s[k] /\ s[k].id # call.id
    BY <1>4, <1>9
  <2>2. ASSUME NEW k \in 1..Len(s), s[k].id # call.id PROVE \E i \in 1..Len(q) : q[i] = s[k]
    BY <1>3, <1>5, <1>9, <2>2 DEF Places
  <2> QED BY <2>1, <2>2 DEF LessCalls
<1>12. /\ t \in BatteryStates /\ t.bus = b.bus /\ t.needAll = b.needAll /\ t.missed = b.missed
       /\ t.owner = b.owner /\ t.authoritative = b.authoritative /\ t.raw = b.raw /\ t.shown = b.shown
       /\ t.sysfs = b.sysfs /\ t.sysfsRaw = b.sysfsRaw /\ t.lost = b.lost /\ t.calls = q
  BY <1>2, <1>6 DEF BatteryStates
<1> QED BY <1>7, <1>10, <1>11, <1>12 DEF t

\* The mail after its first n messages, which is of no interest to anybody but for t.
After(t, s, n, now) ==
  /\ \A o : Holds(s, now, n, o) => Holds(t, now, 0, o)
  /\ NoNews(t) => \A j \in 1..Len(s) : n < j => s[j].kind # "owner"
  /\ \A f \in BatteryFields : Unchanged(t, 0, f) => Unchanged(s, n, f)

\* Whoever will ask for everything will have it.
LEMMA WantsAll ==
  ASSUME NEW t, NEW now, NEW values, NEW b \in BatteryStates, Numbered(b.calls), Kept(b), b.needAll,
         b.owner # None => Holds(t, now, 0, b.owner)
  PROVE  Service(t, now, values, b)
BY DEF Service, Followed, Wants

\* Once what is needed has been asked for, ...
LEMMA Served ==
  ASSUME NEW t, NEW now, NEW values, NEW b, Service(t, now, values, b)
  PROVE  Service(t, now, values, queue_get_all(b)) /\ ~queue_get_all(b).needAll
<1> DEFINE c == queue_get_all(b)
<1>1. b \in BatteryStates /\ Numbered(b.calls) /\ Kept(b) /\ b.bus \in BOOLEAN /\ b.needAll \in BOOLEAN
  BY BatteryOf DEF Service
<1>2. b.needAll => b.bus
  BY <1>1 DEF Kept
<1>3. /\ c \in BatteryStates /\ c.bus = b.bus /\ c.missed = b.missed /\ ~c.needAll /\ c.owner = b.owner
      /\ c.authoritative = b.authoritative /\ c.raw = b.raw /\ c.shown = b.shown
      /\ c.sysfs = b.sysfs /\ c.sysfsRaw = b.sysfsRaw /\ c.lost = b.lost
      /\ Numbered(c.calls) /\ (b.needAll => c.calls # <<>> /\ \A f : Asks(c, f))
      /\ \A f : Asks(b, f) => Asks(c, f)
      /\ b.calls # <<>> => c.calls # <<>>
      /\ b.calls = <<>> /\ ~b.needAll => c.calls = <<>>
      /\ (\A k \in 1..Len(b.calls) : b.calls[k].stale = {}) => \A k \in 1..Len(c.calls) : c.calls[k].stale = {}
  BY <1>1, <1>2, AskedIs
<1> HIDE DEF c
<1>4. Kept(c)
  BY <1>1, <1>2, <1>3 DEF Kept
<1>5. Wants(b) => Wants(c)
  BY <1>3 DEF Wants
<1>6. Followed(t, now, values, c)
  BY <1>3, <1>5 DEF Followed, Service
<1>7. Service(t, now, values, c)
  BY <1>3, <1>4, <1>5, <1>6 DEF Service
<1> QED BY <1>3, <1>7 DEF c

LEMMA Asked ==
  ASSUME NEW t, NEW now, NEW values, NEW b \in BatteryStates, Numbered(b.calls), b.bus,
         b.shown = Public(IF b.authoritative THEN b.raw ELSE b.sysfsRaw),
         b.sysfs => b.sysfsRaw.present, b.authoritative => b.owner # None,
         b.owner = None => \A k \in 1..Len(b.calls) : b.calls[k].stale = {},
         b.owner # None => Holds(t, now, 0, b.owner),
         NEW c, c = queue_get_all([b EXCEPT !.needAll = TRUE])
  PROVE  Service(t, now, values, c) /\ ~c.needAll
<1> DEFINE e == [b EXCEPT !.needAll = TRUE]
<1>1. /\ e \in BatteryStates /\ e.needAll = TRUE /\ e.bus = b.bus /\ e.shown = b.shown
      /\ e.authoritative = b.authoritative /\ e.raw = b.raw /\ e.sysfsRaw = b.sysfsRaw /\ e.sysfs = b.sysfs
      /\ e.owner = b.owner /\ e.calls = b.calls
  BY DEF BatteryStates
<1>2. c = queue_get_all(e)
  OBVIOUS
<1> HIDE DEF e
<1>3. Kept(e)
  BY <1>1 DEF Kept
<1>4. Service(t, now, values, e)
  BY <1>1, <1>3, WantsAll
<1> QED BY <1>2, <1>4, Served

-----------------------------------------------------------------------------
(* The handlers.  s is the mail and t what is left of it; b is the service. *)

\* The name passes on (owner_changed_signal).
LEMMA OwnerChanged ==
  ASSUME upower \in UPowerStates, NEW s, NEW t, NEW now, NEW values, NEW b, Service(s, now, values, b), b.bus,
         Len(s) \in Nat, 1 <= Len(s), s[1].kind = "owner", s[1].new \in Owner, Spoken(s, now), After(t, s, 1, now)
  PROVE  Service(t, now, values, owner_changed_signal(b, s[1].old, s[1].new))
<1> DEFINE old == s[1].old
           new == s[1].new
           u == [b EXCEPT !.missed = FALSE]
           c == owner_changed_signal(b, old, new)
<1>1. b \in BatteryStates /\ b.bus \in BOOLEAN
  BY BatteryOf DEF Service
<1>2. /\ u \in BatteryStates /\ u.bus = b.bus /\ u.missed = FALSE /\ u.owner = b.owner /\ u.calls = b.calls
  BY <1>1 DEF BatteryStates
<1>3. 1 \in 1..Len(s)
  OBVIOUS
<1>4. Holds(t, now, 0, new)
  <2>1. Holds(s, now, 1, new)
    BY <1>3 DEF Spoken
  <2> QED BY <2>1 DEF After
<1>5. b.owner = None \/ b.owner = old
  <2>1. \A k \in 1..Len(s) : ~(0 < k /\ k < 1)
    OBVIOUS
  <2> QED BY <1>3, <2>1 DEF Service, Holds
<1>6. c = IF new = None THEN fallback_to_sysfs(u)
          ELSE queue_get_all([NewOwner(reset_upower_values(u), new) EXCEPT !.needAll = TRUE])
  BY <1>5 DEF owner_changed_signal
<1> HIDE DEF old, u, c
<1>7. CASE new = None
  <2>1. /\ Facing(c) /\ c.bus = b.bus /\ ~c.needAll /\ c.missed = FALSE /\ c.owner = None
        /\ ~c.authoritative /\ c.calls = <<>> /\ (c.sysfs \/ c.lost)
    BY <1>2, <1>6, <1>7, FallbackIs
  <2>2. NoNews(t) => now = None
    BY <1>4, <1>7 DEF Holds, NoNews
  <2>3. Kept(c) /\ c \in BatteryStates /\ Numbered(c.calls)
    BY <2>1 DEF Kept, Facing, Numbered
  <2>4. Followed(t, now, values, c)
    BY <2>2 DEF Followed
  <2> QED BY <2>1, <2>3, <2>4 DEF Service, c, old
<1>8. CASE new # None
  <2> DEFINE r == reset_upower_values(u)
             n == NewOwner(r, new)
  <2>1. Facing(r) /\ SameService(r, u) /\ ~r.authoritative /\ ~r.sysfs
    BY <1>2, ResetIs
  <2>2. /\ n \in BatteryStates /\ n.owner = new /\ n.calls = <<>> /\ n.bus = r.bus
        /\ n.authoritative = r.authoritative /\ n.raw = r.raw /\ n.shown = r.shown
        /\ n.sysfs = r.sysfs /\ n.sysfsRaw = r.sysfsRaw
    BY <2>1, NewOwnerIs DEF Facing, SameService
  <2>3. c = queue_get_all([n EXCEPT !.needAll = TRUE])
    BY <1>6, <1>8
  <2> HIDE DEF r, n
  <2>4. n.bus /\ Numbered(n.calls) /\ n.shown = Public(IF n.authoritative THEN n.raw ELSE n.sysfsRaw)
    BY <1>2, <2>1, <2>2 DEF SameService, Facing, Numbered
  <2>5. /\ n.sysfs => n.sysfsRaw.present
        /\ n.authoritative => n.owner # None
        /\ n.owner = None => \A k \in 1..Len(n.calls) : n.calls[k].stale = {}
        /\ n.owner # None => Holds(t, now, 0, n.owner)
    BY <1>4, <1>8, <2>1, <2>2
  <2>6. Service(t, now, values, c)
    BY <2>2, <2>3, <2>4, <2>5, Asked
  <2> QED BY <2>6 DEF c, old
<1> QED BY <1>7, <1>8

\* What the owner of the name, or the one that is not known yet, is after message n.
LEMMA OwnerAfter ==
  ASSUME NEW s, NEW t, NEW now, NEW values, NEW b, Service(s, now, values, b), Len(s) \in Nat,
         After(t, s, 1, now), 1 <= Len(s), s[1].kind # "owner"
  PROVE  /\ b.owner # None => Holds(s, now, 1, b.owner) /\ Holds(t, now, 0, b.owner)
         /\ NoNews(t) => NoNews(s)
<1>1. ASSUME b.owner # None PROVE Holds(s, now, 1, b.owner)
  <2>1. Holds(s, now, 0, b.owner)
    BY <1>1 DEF Service
  <2>2. Holds(s, now, 0 + 1, b.owner)
    <3>1. 0 + 1 <= Len(s) /\ s[0 + 1].kind # "owner" /\ 0 \in Nat
      OBVIOUS
    <3> QED BY <2>1, <3>1, HoldsNext
  <2> QED BY <2>2
<1>2. NoNews(t) => NoNews(s)
  <2>1. \A j \in 1..Len(s) : j = 1 \/ 1 < j
    OBVIOUS
  <2> QED BY <2>1 DEF After, NoNews
<1> QED BY <1>1, <1>2 DEF After

LEMMA OvertakenIs ==
  ASSUME NEW b \in BatteryStates, NEW fields \in SUBSET BatteryFields
  PROVE  LET t == Overtaken(b, fields)
         IN  /\ t \in BatteryStates /\ t.bus = b.bus /\ t.needAll = b.needAll /\ t.missed = b.missed
             /\ t.owner = b.owner /\ t.authoritative = b.authoritative /\ t.raw = b.raw /\ t.shown = b.shown
             /\ t.sysfs = b.sysfs /\ t.sysfsRaw = b.sysfsRaw /\ t.lost = b.lost
             /\ Len(t.calls) = Len(b.calls)
             /\ \A k \in 1..Len(b.calls) :
                  /\ t.calls[k].id = b.calls[k].id /\ t.calls[k].kind = b.calls[k].kind
                  /\ t.calls[k].waits = b.calls[k].waits
                  /\ t.calls[k].stale = b.calls[k].stale \cup fields
<1> DEFINE s == b.calls
           q == [i \in DOMAIN s |-> Late(s[i], fields)]
           t == Overtaken(b, fields)
<1>1. s \in Seq(BatteryCall)
  BY BatteryOf
<1>2. t = [b EXCEPT !.calls = q]
  BY DEF Overtaken
<1>3. ASSUME NEW c \in BatteryCall
      PROVE  /\ Late(c, fields) \in BatteryCall /\ Late(c, fields).id = c.id /\ Late(c, fields).kind = c.kind /\ Late(c, fields).waits = c.waits
             /\ Late(c, fields).stale = c.stale \cup fields
  <2> DEFINE f == c.stale \cup fields
  <2>1. f \in SUBSET BatteryFields
    BY CallOf
  <2>2. Late(c, fields) = [c EXCEPT !.stale = f]
    BY DEF Late
  <2> HIDE DEF f
  <2>3. /\ Late(c, fields) \in BatteryCall /\ Late(c, fields).id = c.id /\ Late(c, fields).kind = c.kind /\ Late(c, fields).waits = c.waits
        /\ Late(c, fields).stale = f
    BY <2>1, <2>2 DEF BatteryCall
  <2> QED BY <2>3 DEF f
<1> HIDE DEF t
<1>4. \A k \in 1..Len(s) : s[k] \in BatteryCall
  <2> HIDE DEF s
  <2> QED BY <1>1
<1>5. q \in Seq(BatteryCall) /\ Len(q) = Len(s) /\ \A k \in 1..Len(s) : q[k] = Late(s[k], fields)
  <2> HIDE DEF s
  <2>1. \A k \in 1..Len(s) : Late(s[k], fields) \in BatteryCall
    BY <1>3, <1>4
  <2> QED BY <1>1, <2>1
<1> HIDE DEF q
<1>6. /\ t \in BatteryStates /\ t.bus = b.bus /\ t.needAll = b.needAll /\ t.missed = b.missed
      /\ t.owner = b.owner /\ t.authoritative = b.authoritative /\ t.raw = b.raw /\ t.shown = b.shown
      /\ t.sysfs = b.sysfs /\ t.sysfsRaw = b.sysfsRaw /\ t.lost = b.lost /\ t.calls = q
  BY <1>2, <1>5 DEF BatteryStates
<1> QED BY <1>3, <1>4, <1>5, <1>6 DEF t

\* A property is told, or is only said to have changed.
Applied(t, b, field, told, value) ==
  /\ t \in BatteryStates /\ t.bus = b.bus /\ t.missed = b.missed /\ t.owner = b.owner
  /\ t.shown = Public(IF t.authoritative THEN t.raw ELSE t.sysfsRaw)
  /\ (t.needAll <=> b.needAll \/ ~told) /\ (t.authoritative <=> b.authoritative \/ told)
  /\ (t.sysfs <=> b.sysfs /\ ~t.authoritative) /\ t.sysfsRaw = b.sysfsRaw /\ t.lost = b.lost
  /\ \A f \in BatteryFields : t.raw[f] = IF told /\ f = field THEN value ELSE b.raw[f]
  /\ Len(t.calls) = Len(b.calls)
  /\ \A k \in 1..Len(b.calls) :
       /\ t.calls[k].id = b.calls[k].id /\ t.calls[k].kind = b.calls[k].kind
       /\ t.calls[k].stale = b.calls[k].stale \cup {field}

LEMMA AppliedIs ==
  ASSUME NEW b \in BatteryStates, NEW field \in BatteryFields, NEW told \in BOOLEAN, NEW value,
         value \in (IF field = "present" THEN BOOLEAN ELSE Levels),
         NEW values, values = [f \in IF told THEN {field} ELSE {} |-> value],
         NEW invalidated, invalidated = IF told THEN {} ELSE {field}
  PROVE  Applied(apply_signal_values(b, values, invalidated), b, field, told, value)
<1> DEFINE fields == DOMAIN values \cup invalidated
           u == Overtaken(b, fields)
           raw == [f \in DOMAIN u.raw |-> IF f \in DOMAIN values THEN values[f] ELSE u.raw[f]]
           need == u.needAll \/ invalidated # {}
           auth == u.authoritative \/ DOMAIN values # {}
           v == [u EXCEPT !.raw = raw, !.needAll = need, !.authoritative = auth]
           sysfs == v.sysfs /\ ~v.authoritative
           w == [v EXCEPT !.sysfs = sysfs]
           t == apply_signal_values(b, values, invalidated)
<1>1. t = public_from_raw(w)
  BY DEF apply_signal_values
<1>2. /\ fields = {field} /\ (invalidated # {} <=> ~told) /\ (DOMAIN values # {} <=> told)
      /\ \A f : f \in DOMAIN values <=> told /\ f = field
      /\ told => values[field] = value
  BY Zenon
<1>3. /\ u \in BatteryStates /\ u.bus = b.bus /\ u.needAll = b.needAll /\ u.missed = b.missed
      /\ u.owner = b.owner /\ u.authoritative = b.authoritative /\ u.raw = b.raw
      /\ u.sysfs = b.sysfs /\ u.sysfsRaw = b.sysfsRaw /\ u.lost = b.lost
      /\ Len(u.calls) = Len(b.calls)
      /\ \A k \in 1..Len(b.calls) :
           /\ u.calls[k].id = b.calls[k].id /\ u.calls[k].kind = b.calls[k].kind
           /\ u.calls[k].stale = b.calls[k].stale \cup {field}
  <2>1. fields \in SUBSET BatteryFields /\ fields = {field}
    BY <1>2
  <2> HIDE DEF fields
  <2> QED BY <2>1, OvertakenIs
<1> HIDE DEF fields, u
<1>4. /\ raw \in BatteryValues /\ \A f \in BatteryFields : raw[f] = IF told /\ f = field THEN value ELSE b.raw[f]
  <2>1. u.raw \in BatteryValues /\ b.raw = u.raw
    BY <1>3, BatteryOf
  <2>2. DOMAIN u.raw = BatteryFields
    BY <2>1 DEF BatteryValues, BatteryFields
  <2>3. \A f \in BatteryFields : raw[f] = IF told /\ f = field THEN value ELSE u.raw[f]
    BY <1>2, <2>2
  <2>4. raw = [present |-> raw["present"], level |-> raw["level"]]
    BY <2>2, <2>3 DEF BatteryFields
  <2>5. u.raw["present"] \in BOOLEAN /\ u.raw["level"] \in Levels \cup {None}
    BY <2>1 DEF BatteryValues
  <2> HIDE DEF raw
  <2>6. raw["present"] \in BOOLEAN /\ raw["level"] \in Levels \cup {None}
    BY <2>3, <2>5 DEF BatteryFields
  <2>7. raw \in BatteryValues
    BY <2>4, <2>6 DEF BatteryValues
  <2> QED BY <2>1, <2>3, <2>7
<1>5. need \in BOOLEAN /\ auth \in BOOLEAN /\ (need <=> b.needAll \/ ~told) /\ (auth <=> b.authoritative \/ told)
  BY <1>2, <1>3, BatteryOf
<1> HIDE DEF raw, need, auth
<1>6. /\ v \in BatteryStates /\ v.bus = b.bus /\ v.missed = b.missed /\ v.owner = b.owner
      /\ v.needAll = need /\ v.authoritative = auth /\ v.raw = raw
      /\ v.sysfs = b.sysfs /\ v.sysfsRaw = b.sysfsRaw /\ v.lost = b.lost /\ v.calls = u.calls
  BY <1>3, <1>4, <1>5 DEF BatteryStates
<1> HIDE DEF v
<1>7. sysfs \in BOOLEAN /\ (sysfs <=> b.sysfs /\ ~auth)
  BY <1>6, BatteryOf
<1> HIDE DEF sysfs
<1>8. /\ w \in BatteryStates /\ w.bus = b.bus /\ w.missed = b.missed /\ w.owner = b.owner
      /\ w.needAll = need /\ w.authoritative = auth /\ w.raw = raw
      /\ w.sysfs = sysfs /\ w.sysfsRaw = b.sysfsRaw /\ w.lost = b.lost /\ w.calls = u.calls
  BY <1>6, <1>7 DEF BatteryStates
<1> HIDE DEF w, t
<1>9. /\ t \in BatteryStates /\ t.bus = b.bus /\ t.missed = b.missed /\ t.owner = b.owner
      /\ t.shown = Public(IF t.authoritative THEN t.raw ELSE t.sysfsRaw)
      /\ t.needAll = need /\ t.authoritative = auth /\ t.raw = raw
      /\ t.sysfs = sysfs /\ t.sysfsRaw = b.sysfsRaw /\ t.lost = b.lost /\ t.calls = u.calls
  BY <1>1, <1>8, PublicIs DEF SameService
<1>10. Applied(t, b, field, told, value)
  BY <1>3, <1>4, <1>5, <1>7, <1>9 DEF Applied
<1> QED BY <1>10 DEF t

\* A property changes or is invalidated (properties_signal).
LEMMA PropertyChanged ==
  ASSUME NEW s, NEW t, NEW now, NEW values, NEW b, Service(s, now, values, b), ~b.needAll, b.bus,
         Len(s) \in Nat, 1 <= Len(s), s[1].kind = "changed", s[1] \in BatteryMail,
         Spoken(s, now), Truthful(s, values), After(t, s, 1, now)
  PROVE  Service(t, now, values, properties_signal(b, s[1]))
<1> DEFINE field == s[1].field
           told == s[1].told
           value == s[1].value
           said == read_property_dict(s[1])
           gone == read_invalidated(s[1])
           c == properties_signal(b, s[1])
<1>1. b \in BatteryStates /\ Numbered(b.calls) /\ Kept(b)
  BY DEF Service
<1>2. /\ field \in BatteryFields /\ told \in BOOLEAN /\ s[1].sender \in Nat
      /\ value \in (IF field = "present" THEN BOOLEAN ELSE Levels)
  BY MailShape
<1>3. said = [f \in IF told THEN {field} ELSE {} |-> value] /\ gone = IF told THEN {} ELSE {field}
  BY DEF read_property_dict, read_invalidated
<1>4. 1 \in 1..Len(s)
  OBVIOUS
<1>5. Holds(s, now, 1, s[1].sender) /\ Holds(t, now, 0, s[1].sender)
  BY <1>4 DEF Spoken, After
<1>6. /\ b.owner # None => Holds(s, now, 1, b.owner) /\ Holds(t, now, 0, b.owner)
      /\ NoNews(t) => NoNews(s)
  BY OwnerAfter
<1>7. b.owner = None \/ b.owner = s[1].sender
  BY <1>5, <1>6, HoldsOne
<1>8. \A f \in BatteryFields : Unchanged(t, 0, f) => Unchanged(s, 1, f)
  BY DEF After
<1>9. ASSUME NEW f \in BatteryFields, f # field, Unchanged(t, 0, f) PROVE Unchanged(s, 0, f)
  <2>1. \A j \in 1..Len(s) : j = 1 \/ 1 < j
    OBVIOUS
  <2> QED BY <1>8, <1>9, <2>1 DEF Unchanged
<1>10. Unchanged(t, 0, field) => value = values[field]
  BY <1>2, <1>4, <1>8 DEF Truthful
<1>11. c = IF b.owner = s[1].sender THEN apply_signal_values(b, said, gone) ELSE b
  BY DEF properties_signal
<1> HIDE DEF field, told, value, said, gone, c
<1>12. CASE b.owner # s[1].sender
  <2>1. c = b /\ b.owner = None
    BY <1>7, <1>11, <1>12
  <2>2. Followed(t, now, values, b)
    BY <1>6, <2>1 DEF Followed, Service
  <2> QED BY <2>1, <2>2 DEF Service, c
<1>13. CASE b.owner = s[1].sender
  <2>1. b.owner # None
    BY <1>2, <1>13, BatteryAssumption
  <2>2. /\ c \in BatteryStates /\ c.bus = b.bus /\ c.missed = b.missed /\ c.owner = b.owner
        /\ c.shown = Public(IF c.authoritative THEN c.raw ELSE c.sysfsRaw)
        /\ (c.needAll <=> b.needAll \/ ~told) /\ (c.authoritative <=> b.authoritative \/ told)
        /\ (c.sysfs <=> b.sysfs /\ ~c.authoritative) /\ c.sysfsRaw = b.sysfsRaw /\ c.lost = b.lost
        /\ \A f \in BatteryFields : c.raw[f] = IF told /\ f = field THEN value ELSE b.raw[f]
        /\ Len(c.calls) = Len(b.calls)
        /\ \A k \in 1..Len(b.calls) :
             /\ c.calls[k].id = b.calls[k].id /\ c.calls[k].kind = b.calls[k].kind
             /\ c.calls[k].stale = b.calls[k].stale \cup {field}
    <3>1. c = apply_signal_values(b, said, gone)
      BY <1>11, <1>13
    <3>2. Applied(c, b, field, told, value)
      BY <1>1, <1>2, <1>3, <3>1, AppliedIs
    <3> QED BY <3>2 DEF Applied
  <2>3. Kept(c)
    BY <1>1, <2>1, <2>2 DEF Kept
  <2>4. Numbered(c.calls)
    BY <1>1, <2>2 DEF Numbered
  <2>5. Wants(b) => Wants(c)
    <3>1. b.calls \in Seq(BatteryCall) /\ c.calls \in Seq(BatteryCall)
      BY <1>1, <2>2, BatteryOf
    <3>2. b.calls = <<>> <=> Len(b.calls) = 0
      BY <3>1
    <3>3. c.calls = <<>> <=> Len(c.calls) = 0
      BY <3>1
    <3> QED BY <2>2, <3>2, <3>3 DEF Wants
  <2>6. \A f : f # field /\ Asks(b, f) => Asks(c, f)
    BY <2>2 DEF Asks
  <2>7. ASSUME c.bus, NoNews(t), now # None, ~c.missed, NEW f \in BatteryFields, Unchanged(t, 0, f)
        PROVE  c.needAll \/ Asks(c, f) \/ (c.authoritative /\ c.raw[f] = values[f])
    <3>1. CASE f = field
      <4>1. CASE told
        BY <1>10, <2>2, <2>7, <3>1, <4>1
      <4>2. CASE ~told
        BY <2>2, <4>2
      <4> QED BY <4>1, <4>2
    <3>2. CASE f # field
      <4>1. NoNews(s) /\ ~b.missed /\ b.bus
        BY <1>6, <2>2, <2>7
      <4>2. Unchanged(s, 0, f)
        BY <1>9, <2>7, <3>2
      <4>3. Asks(b, f) \/ (b.authoritative /\ b.raw[f] = values[f])
        BY <2>1, <2>7, <4>1, <4>2 DEF Service, Followed
      <4> QED BY <2>2, <2>6, <3>2, <4>3
    <3> QED BY <3>1, <3>2
  <2>8. Followed(t, now, values, c)
    BY <2>1, <2>2, <2>7 DEF Followed
  <2>9. c.authoritative \/ c.sysfs \/ c.lost \/ Wants(c)
    BY <2>2, <2>5 DEF Service
  <2> QED BY <1>6, <2>1, <2>2, <2>3, <2>4, <2>8, <2>9 DEF Service, c
<1> QED BY <1>12, <1>13

\* A call is over, and no more is known of it: b has become w.
Over(w, t, now, b, call) ==
  /\ w \in BatteryStates /\ Numbered(w.calls) /\ w.bus /\ ~w.needAll
  /\ w.shown = Public(IF w.authoritative THEN w.raw ELSE w.sysfsRaw)
  /\ w.sysfs => w.sysfsRaw.present
  /\ w.authoritative => w.owner # None
  /\ w.owner # None => Holds(t, now, 0, w.owner)
  /\ w.owner = None => call.stale = {} /\ \A k \in 1..Len(w.calls) : w.calls[k].stale = {}
  /\ w.owner = b.owner /\ w.missed = b.missed /\ w.authoritative = b.authoritative /\ w.raw = b.raw
  /\ w.bus = b.bus
  /\ \A f : f \in call.stale /\ Asks(b, f) => Asks(w, f)

\* A request is over: what was followed is, but for what it asked.
LEMMA CallOver ==
  ASSUME NEW t, NEW now, NEW values, NEW b, Service(t, now, values, b), ~b.needAll, NEW k0 \in 1..Len(b.calls)
  PROVE  Over(Without(b, b.calls[k0]), t, now, b, b.calls[k0])
<1> DEFINE call == b.calls[k0]
           w == Without(b, call)
<1>1. b \in BatteryStates /\ Numbered(b.calls) /\ Kept(b) /\ b.calls \in Seq(BatteryCall)
  BY BatteryOf DEF Service
<1>2. b.bus
  <2>1. b.calls # <<>>
    BY <1>1
  <2> QED BY <1>1, <2>1 DEF Kept
<1>3. /\ w \in BatteryStates /\ w.bus = b.bus /\ w.needAll = b.needAll /\ w.missed = b.missed
      /\ w.owner = b.owner /\ w.authoritative = b.authoritative /\ w.raw = b.raw /\ w.shown = b.shown
      /\ w.sysfs = b.sysfs /\ w.sysfsRaw = b.sysfsRaw /\ w.lost = b.lost
      /\ Numbered(w.calls) /\ LessCalls(w.calls, b.calls, call.id)
  BY <1>1, WithoutIs
<1> HIDE DEF w
<1>4. w.owner = None => call.stale = {} /\ \A k \in 1..Len(w.calls) : w.calls[k].stale = {}
  BY <1>1, <1>3 DEF Kept, LessCalls
<1>5. ASSUME NEW f, f \in call.stale, Asks(b, f) PROVE Asks(w, f)
  <2>1. PICK k \in 1..Len(b.calls) : b.calls[k].kind = "all" /\ f \notin b.calls[k].stale
    BY <1>5 DEF Asks
  <2>2. k # k0
    BY <1>5, <2>1
  <2>3. b.calls[k].id # b.calls[k0].id
    <3>1. k \in Nat /\ k0 \in Nat /\ (k < k0 \/ k0 < k)
      BY <2>2
    <3>2. b.calls[k].id \in Nat /\ b.calls[k0].id \in Nat
      <4>1. b.calls[k] \in BatteryCall /\ b.calls[k0] \in BatteryCall
        BY <1>1
      <4> QED BY <4>1, CallOf
    <3>3. b.calls[k].id < b.calls[k0].id \/ b.calls[k0].id < b.calls[k].id
      BY <1>1, <3>1 DEF Numbered
    <3> QED BY <3>2, <3>3
  <2>4. PICK i \in 1..Len(w.calls) : w.calls[i] = b.calls[k]
    BY <1>3, <2>3 DEF LessCalls
  <2> QED BY <2>1, <2>4 DEF Asks
<1>6. Over(w, t, now, b, call)
  BY <1>1, <1>2, <1>3, <1>4, <1>5 DEF Kept, Service, Over
<1> QED BY <1>6 DEF w

\* The daemon says who has the name, or that nobody has (handle_owner_reply).
LEMMA OwnerReplied ==
  ASSUME NEW t, Len(t) \in Nat, NEW now, NEW values, NEW b, Service(t, now, values, b), ~b.needAll,
         NEW k0 \in 1..Len(b.calls), NEW ok \in BOOLEAN, NEW sender,
         ok => sender \in Nat /\ Holds(t, now, 0, sender)
  PROVE  LET c == handle_owner_reply(Without(b, b.calls[k0]), ok, sender)
         IN  Service(t, now, values, c) /\ ~c.needAll
<1> DEFINE w == Without(b, b.calls[k0])
           u == IF w.owner = None THEN reset_upower_values(w) ELSE w
           c == handle_owner_reply(w, ok, sender)
<1>1. /\ w \in BatteryStates /\ Numbered(w.calls) /\ w.bus
      /\ w.shown = Public(IF w.authoritative THEN w.raw ELSE w.sysfsRaw)
      /\ w.sysfs => w.sysfsRaw.present
      /\ w.authoritative => w.owner # None
      /\ w.owner # None => Holds(t, now, 0, w.owner)
      /\ w.owner = None => \A k \in 1..Len(w.calls) : w.calls[k].stale = {}
  <2>1. Over(w, t, now, b, b.calls[k0])
    BY CallOver
  <2> HIDE DEF w
  <2> QED BY <2>1 DEF Over
<1>2. ok => w.owner = None \/ w.owner = sender
  BY <1>1, HoldsOne
<1>3. c = IF ~ok THEN queue_get_all([w EXCEPT !.needAll = TRUE])
          ELSE queue_get_all([NewOwner(u, sender) EXCEPT !.needAll = TRUE])
  BY <1>2 DEF handle_owner_reply
<1> HIDE DEF w, c
<1>4. CASE ~ok
  <2>1. c = queue_get_all([w EXCEPT !.needAll = TRUE])
    BY <1>3, <1>4
  <2>2. Service(t, now, values, c) /\ ~c.needAll
    BY <1>1, <2>1, Asked
  <2> QED BY <2>2 DEF c, w
<1>5. CASE ok
  <2> DEFINE n == NewOwner(u, sender)
  <2>1. /\ u \in BatteryStates /\ u.bus
        /\ u.shown = Public(IF u.authoritative THEN u.raw ELSE u.sysfsRaw)
        /\ u.sysfs => u.sysfsRaw.present
    BY <1>1, ResetIs DEF Facing, SameService
  <2>2. sender \in Owner /\ sender # None
    BY <1>5, BatteryAssumption DEF Owner
  <2> HIDE DEF u
  <2>3. /\ n \in BatteryStates /\ n.owner = sender /\ n.calls = <<>> /\ n.bus = u.bus
        /\ n.authoritative = u.authoritative /\ n.raw = u.raw /\ n.shown = u.shown
        /\ n.sysfs = u.sysfs /\ n.sysfsRaw = u.sysfsRaw
    BY <2>1, <2>2, NewOwnerIs DEF SameService
  <2>4. c = queue_get_all([n EXCEPT !.needAll = TRUE])
    BY <1>3, <1>5
  <2> HIDE DEF n
  <2>5. Numbered(n.calls) /\ n.bus /\ n.shown = Public(IF n.authoritative THEN n.raw ELSE n.sysfsRaw)
    BY <2>1, <2>3 DEF Numbered
  <2>6. /\ n.sysfs => n.sysfsRaw.present
        /\ n.authoritative => n.owner # None
        /\ n.owner = None => \A k \in 1..Len(n.calls) : n.calls[k].stale = {}
        /\ n.owner # None => Holds(t, now, 0, n.owner)
    BY <1>5, <2>1, <2>2, <2>3
  <2>7. Service(t, now, values, c) /\ ~c.needAll
    BY <2>3, <2>4, <2>5, <2>6, Asked
  <2> QED BY <2>7 DEF c, w
<1> QED BY <1>4, <1>5

\* A request fails (handle_get_all_reply).
LEMMA GetAllFailed ==
  ASSUME upower \in UPowerStates, NEW t, NEW now, NEW values, NEW b, Service(t, now, values, b), ~b.needAll,
         NEW k0 \in 1..Len(b.calls), NEW sender, NEW said
  PROVE  LET c == handle_get_all_reply(Without(b, b.calls[k0]), b.calls[k0], FALSE, sender, said)
         IN  Service(t, now, values, c) /\ ~c.needAll
<1> DEFINE call == b.calls[k0]
           w == Without(b, call)
           u == IF w.authoritative THEN w ELSE start_sysfs(w)
           c == handle_get_all_reply(w, call, FALSE, sender, said)
<1>1. Over(w, t, now, b, call)
  BY CallOver
<1>2. c = [u EXCEPT !.missed = TRUE]
  BY DEF handle_get_all_reply
<1> HIDE DEF w, c
<1>3. /\ w \in BatteryStates /\ Numbered(w.calls) /\ w.bus /\ ~w.needAll
      /\ w.shown = Public(IF w.authoritative THEN w.raw ELSE w.sysfsRaw)
      /\ w.sysfs => w.sysfsRaw.present
      /\ w.authoritative => w.owner # None
      /\ w.owner # None => Holds(t, now, 0, w.owner)
      /\ w.owner = None => \A k \in 1..Len(w.calls) : w.calls[k].stale = {}
  BY <1>1 DEF Over
<1>4. /\ u \in BatteryStates /\ Numbered(u.calls) /\ u.bus /\ ~u.needAll
      /\ u.shown = Public(IF u.authoritative THEN u.raw ELSE u.sysfsRaw)
      /\ u.sysfs => u.sysfsRaw.present
      /\ u.authoritative => u.owner # None
      /\ u.owner # None => Holds(t, now, 0, u.owner)
      /\ u.owner = None => \A k \in 1..Len(u.calls) : u.calls[k].stale = {}
      /\ u.authoritative \/ u.sysfs \/ u.lost
  <2>1. CASE w.authoritative
    BY <1>3, <2>1
  <2>2. CASE ~w.authoritative
    <3>1. u = start_sysfs(w)
      BY <2>2
    <3>2. Facing(u) /\ SameService(u, w) /\ u.owner = w.owner /\ ~u.authoritative /\ u.calls = w.calls
          /\ (u.sysfs \/ u.lost)
      BY <1>3, <3>1, StartIs
    <3> HIDE DEF u
    <3> QED BY <1>3, <3>2 DEF Facing, SameService
  <2> QED BY <2>1, <2>2
<1> HIDE DEF u
<1>5. /\ c \in BatteryStates /\ c.missed = TRUE /\ c.bus = u.bus /\ c.needAll = u.needAll
      /\ c.shown = u.shown /\ c.sysfs = u.sysfs /\ c.sysfsRaw = u.sysfsRaw /\ c.raw = u.raw
      /\ c.authoritative = u.authoritative /\ c.owner = u.owner /\ c.calls = u.calls /\ c.lost = u.lost
  BY <1>2, <1>4 DEF BatteryStates
<1>6. Kept(c) /\ Numbered(c.calls) /\ Followed(t, now, values, c) /\ ~c.needAll
  BY <1>4, <1>5 DEF Kept, Followed
<1> QED BY <1>4, <1>5, <1>6 DEF Service, c, w

\* A request is answered (handle_get_all_reply).
LEMMA GetAllReplied ==
  ASSUME NEW t, Len(t) \in Nat, NEW now, NEW values, NEW b, Service(t, now, values, b), ~b.needAll,
         NEW k0 \in 1..Len(b.calls), NEW sender \in Nat, Holds(t, now, 0, sender),
         NEW said \in BatteryValues, \A f \in BatteryFields : Unchanged(t, 0, f) => said[f] = values[f]
  PROVE  Service(t, now, values, handle_get_all_reply(Without(b, b.calls[k0]), b.calls[k0], TRUE, sender, said))
<1> DEFINE call == b.calls[k0]
           w == Without(b, call)
           u == IF w.owner = None THEN NewOwner(reset_upower_values(w), sender) ELSE w
           raw == [f \in DOMAIN u.raw |-> IF f \in call.stale THEN u.raw[f] ELSE said[f]]
           v == [u EXCEPT !.raw = raw, !.authoritative = TRUE, !.sysfs = FALSE]
           e == public_from_raw(v)
           c == handle_get_all_reply(w, call, TRUE, sender, said)
<1>1. Over(w, t, now, b, call)
  BY CallOver
<1>2. w.owner = None \/ w.owner = sender
  BY <1>1, HoldsOne DEF Over
<1>3. c = queue_get_all(e)
  BY <1>2 DEF handle_get_all_reply
<1>15. call = b.calls[k0]
  OBVIOUS
<1> HIDE DEF w, c, call
<1>4. sender \in Owner /\ sender # None
  BY BatteryAssumption DEF Owner
<1>5. /\ u \in BatteryStates /\ Numbered(u.calls) /\ u.bus /\ ~u.needAll /\ u.owner = sender
      /\ u.missed = b.missed /\ (call.stale # {} => u = w)
  <2>1. CASE w.owner = None
    <3> DEFINE r == reset_upower_values(w)
    <3>1. u = NewOwner(r, sender)
      BY <2>1
    <3>2. r \in BatteryStates /\ SameService(r, w)
      BY <1>1, ResetIs DEF Over, Facing
    <3> HIDE DEF r, u
    <3>3. /\ u \in BatteryStates /\ u.owner = sender /\ u.calls = <<>> /\ SameService(u, r)
      BY <1>4, <3>1, <3>2, NewOwnerIs
    <3>4. call.stale = {} /\ w.bus /\ ~w.needAll /\ w.missed = b.missed
      BY <1>1, <2>1 DEF Over
    <3> QED BY <3>2, <3>3, <3>4 DEF SameService, Numbered
  <2>2. CASE w.owner # None
    BY <1>1, <1>2, <2>2 DEF Over
  <2> QED BY <2>1, <2>2
<1> HIDE DEF u
<1>6. raw \in BatteryValues /\ \A f \in BatteryFields : raw[f] = IF f \in call.stale THEN u.raw[f] ELSE said[f]
  <2>1. u.raw \in BatteryValues
    BY <1>5, BatteryOf
  <2>2. DOMAIN u.raw = BatteryFields
    BY <2>1 DEF BatteryValues, BatteryFields
  <2>3. \A f \in BatteryFields : raw[f] = IF f \in call.stale THEN u.raw[f] ELSE said[f]
    BY <2>2
  <2>4. raw = [present |-> raw["present"], level |-> raw["level"]]
    BY <2>2, <2>3 DEF BatteryFields
  <2>5. /\ u.raw["present"] \in BOOLEAN /\ u.raw["level"] \in Levels \cup {None}
        /\ said["present"] \in BOOLEAN /\ said["level"] \in Levels \cup {None}
    BY <2>1 DEF BatteryValues
  <2> HIDE DEF raw
  <2>6. raw["present"] \in BOOLEAN /\ raw["level"] \in Levels \cup {None}
    BY <2>3, <2>5 DEF BatteryFields
  <2>7. raw \in BatteryValues
    BY <2>4, <2>6 DEF BatteryValues
  <2> QED BY <2>3, <2>7
<1> HIDE DEF raw
<1>7. /\ v \in BatteryStates /\ v.bus = u.bus /\ v.needAll = u.needAll /\ v.missed = u.missed
      /\ v.owner = u.owner /\ v.authoritative = TRUE /\ v.raw = raw /\ v.sysfs = FALSE /\ v.calls = u.calls
  BY <1>5, <1>6 DEF BatteryStates
<1> HIDE DEF v
<1>8. /\ e \in BatteryStates /\ e.shown = Public(IF e.authoritative THEN e.raw ELSE e.sysfsRaw)
      /\ e.bus = u.bus /\ e.needAll = u.needAll /\ e.missed = u.missed
      /\ e.owner = u.owner /\ e.authoritative = TRUE /\ e.raw = raw /\ e.sysfs = FALSE /\ e.calls = u.calls
  BY <1>7, PublicIs DEF SameService
<1> HIDE DEF e
<1>9. Kept(e) /\ Numbered(e.calls) /\ Holds(t, now, 0, e.owner)
  BY <1>4, <1>5, <1>8 DEF Kept
<1>10. ASSUME NoNews(t), now # None, ~e.missed, NEW f \in BatteryFields, Unchanged(t, 0, f)
       PROVE  Asks(e, f) \/ e.raw[f] = values[f]
  <2>1. CASE f \notin call.stale
    BY <1>6, <1>8, <1>10, <2>1
  <2>2. CASE f \in call.stale
    <3>1. u = w /\ b.owner # None /\ b.bus /\ ~b.missed /\ b.raw = w.raw
      BY <1>1, <1>4, <1>5, <1>8, <1>10, <2>2 DEF Over
    <3>2. Asks(b, f) \/ b.raw[f] = values[f]
      BY <1>10, <3>1 DEF Service, Followed
    <3>3. Asks(b, f) => Asks(w, f)
      BY <1>1, <2>2 DEF Over
    <3>4. Asks(w, f) => Asks(e, f)
      BY <1>8, <3>1 DEF Asks
    <3> QED BY <1>6, <1>8, <2>2, <3>1, <3>2, <3>3, <3>4
  <2> QED BY <2>1, <2>2
<1>11. Followed(t, now, values, e)
  BY <1>4, <1>5, <1>8, <1>10 DEF Followed
<1>12. Service(t, now, values, e)
  BY <1>8, <1>9, <1>11 DEF Service
<1>13. Service(t, now, values, c)
  BY <1>3, <1>12, Served
<1> QED BY <1>13 DEF c, w, call

-----------------------------------------------------------------------------
(* The service's turns. *)

\* What is left of the mail is of interest to the service.
LEMMA LiveIs ==
  ASSUME NEW s \in Seq(BatteryMail), NEW b \in BatteryStates
  PROVE  Live(s, b) \in Seq(BatteryMail) /\ Rest(Live(s, b), s, 0, {"reply"}) /\ Awaited(Live(s, b), b.calls)
<1> DEFINE S == {m \in ToSet(s) : m.kind = "reply" => \E c \in ToSet(b.calls) : c.id = m.id /\ ~c.waits}
           t == Only(s, S)
<1>1. Live(s, b) = t
  BY DEF Live
<1>2. \A i \in 1..Len(s) : s[i].kind \notin {"reply"} => s[i] \in S
  BY DEF ToSet
<1>3. \A m \in S : m.kind = "reply" => \E k \in 1..Len(b.calls) : b.calls[k].id = m.id /\ ~b.calls[k].waits
  BY BatteryOf DEF ToSet
<1> HIDE DEF S
<1>4. t \in Seq(BatteryMail) /\ Rest(t, s, 0, {"reply"})
  BY <1>2, OnlyIs, RestOnly
<1>5. PICK h : Places(t, s, S, Len(s), h)
  BY OnlyIs
<1> HIDE DEF t
<1>6. Awaited(t, b.calls)
  BY <1>3, <1>5 DEF Awaited, Places
<1> QED BY <1>1, <1>4, <1>6

\* The mail that is left, of n messages read.
LEMMA AfterRest ==
  ASSUME NEW s, NEW t, Len(s) \in Nat, Len(t) \in Nat, NEW n \in Nat, NEW now, NEW values,
         Rest(t, s, n, {"reply"}), Spoken(s, now), Truthful(s, values)
  PROVE  After(t, s, n, now) /\ Spoken(t, now) /\ Truthful(t, values)
BY SpokenRest, UnchangedRest, TruthfulRest DEF After

\* The service serves its timers and its mail when it has had something.
LEMMA BatteryTurn ==
  ASSUME BatteryOK(upower, battery), NEW r \in Seq(BatteryMail), NEW n \in Nat,
         \A t \in Seq(BatteryMail) : Rest(t, r, 0, {"reply"}) => Rest(t, upower.mail, n, {"reply"}),
         NEW b, NEW t, t = Live(r, b), b \in BatteryStates, Service(t, upower.owner, upower.values, b), ~b.needAll,
         battery' = b, upower' \in UPowerStates, upower'.mail = t, upower'.owner = upower.owner,
         upower'.values = upower.values
  PROVE  BatteryOK(upower, battery)'
<1>1. upower \in UPowerStates /\ upower.mail \in Seq(BatteryMail)
  BY UPowerOf DEF BatteryOK
<1>2. t \in Seq(BatteryMail) /\ Rest(t, r, 0, {"reply"}) /\ Awaited(t, b.calls)
  BY LiveIs
<1>3. Rest(t, upower.mail, n, {"reply"})
  BY <1>2
<1>4. Spoken(t, upower.owner) /\ Truthful(t, upower.values)
  <2>1. Len(t) \in Nat /\ Len(upower.mail) \in Nat
    BY <1>1, <1>2
  <2> QED BY <1>3, <2>1, AfterRest DEF BatteryOK
<1> QED BY <1>2, <1>4 DEF BatteryOK

\* What the service makes of the first of its mail.
LEMMA MessageRead ==
  ASSUME BatteryOK(upower, battery), battery.bus, upower.mail # <<>>,
         NEW t \in Seq(BatteryMail), After(t, upower.mail, 1, upower.owner), Truthful(t, upower.values)
  PROVE  LET m == Head(upower.mail)
             now == upower.owner
             values == upower.values
         IN  /\ m.kind = "owner" => Service(t, now, values, owner_changed_signal(battery, m.old, m.new))
             /\ m.kind = "changed" => Service(t, now, values, properties_signal(battery, m))
             /\ m.kind = "reply" =>
                  Service(t, now, values, async_reply(CHOOSE c \in ToSet(battery.calls) : c.id = m.id, m.ok, m))
<1> DEFINE s == upower.mail
           m == s[1]
           now == upower.owner
           values == upower.values
<1>1. upower \in UPowerStates /\ s \in Seq(BatteryMail)
  BY UPowerOf DEF BatteryOK
<1>2. /\ Len(s) \in Nat /\ 1 <= Len(s) /\ Len(t) \in Nat /\ 1 \in 1..Len(s) /\ Head(s) = s[1] /\ s[1] \in BatteryMail
  BY <1>1
<1>3. /\ Spoken(s, now) /\ Truthful(s, values) /\ Service(s, now, values, battery) /\ ~battery.needAll
      /\ Awaited(s, battery.calls)
  BY DEF BatteryOK
<1>4. Len(s) \in Nat /\ 1 \in 1..Len(s) /\ After(t, s, 1, now) /\ Truthful(t, values)
  BY <1>2
<1> HIDE DEF s, now, values
<1>5. ASSUME m.kind = "owner" PROVE Service(t, now, values, owner_changed_signal(battery, m.old, m.new))
  <2>1. m.new \in Owner
    BY <1>2, <1>5, MailShape
  <2> QED BY <1>1, <1>2, <1>3, <1>4, <1>5, <2>1, OwnerChanged
<1>6. ASSUME m.kind = "changed" PROVE Service(t, now, values, properties_signal(battery, m))
  BY <1>2, <1>3, <1>4, <1>6, PropertyChanged
<1>7. ASSUME m.kind = "reply"
      PROVE  Service(t, now, values, async_reply(CHOOSE c \in ToSet(battery.calls) : c.id = m.id, m.ok, m))
  <2> DEFINE call == CHOOSE c \in ToSet(battery.calls) : c.id = m.id
  <2>1. PICK k0 \in 1..Len(battery.calls) : call = battery.calls[k0]
    <3>1. \E k \in 1..Len(battery.calls) : battery.calls[k].id = m.id
      BY <1>2, <1>3, <1>7 DEF Awaited
    <3>2. \A c : c \in ToSet(battery.calls) <=> \E k \in 1..Len(battery.calls) : c = battery.calls[k]
      <4>1. battery.calls \in Seq(BatteryCall)
        BY <1>3, BatteryOf DEF Service
      <4> QED BY <4>1 DEF ToSet
    <3>3. \E c \in ToSet(battery.calls) : c.id = m.id
      BY <3>1, <3>2
    <3>4. call \in ToSet(battery.calls)
      BY <3>3
    <3> QED BY <3>2, <3>4
  <2> HIDE DEF call
  <2>2. Service(t, now, values, battery)
    <3>1. \A o : Holds(s, now, 0, o) => Holds(t, now, 0, o)
      <4>1. ASSUME NEW o, Holds(s, now, 0, o) PROVE Holds(s, now, 1, o)
        <5>1. Holds(s, now, 0 + 1, o)
          <6>1. 0 + 1 <= Len(s) /\ s[0 + 1].kind # "owner" /\ 0 \in Nat
            BY <1>2, <1>7
          <6> QED BY <1>4, <4>1, <6>1, HoldsNext
        <5> QED BY <5>1
      <4> QED BY <1>4, <4>1 DEF After
    <3>2. \A j \in 1..Len(s) : j = 1 \/ 1 < j
      BY <1>2
    <3>3. NoNews(t) => NoNews(s)
      BY <1>4, <1>7, <3>2 DEF After, NoNews
    <3>4. \A f \in BatteryFields : Unchanged(t, 0, f) => Unchanged(s, 0, f)
      BY <1>4, <1>7, <3>2 DEF After, Unchanged
    <3> QED BY <1>3, <3>1, <3>3, <3>4, ServiceStays
  <2>3. m.ok \in BOOLEAN /\ m.sender \in Owner /\ m.values \in BatteryValues
    BY <1>2, <1>7, MailShape
  <2>4. Holds(t, now, 0, m.sender)
    BY <1>3, <1>4, <1>7 DEF Spoken, After
  <2>5. m.ok => m.sender \in Nat
    BY <1>3, <1>4, <1>7, <2>3 DEF Truthful, Owner
  <2>6. m.ok => \A f \in BatteryFields : Unchanged(t, 0, f) => m.values[f] = values[f]
    BY <1>3, <1>4, <1>7 DEF Truthful, After
  <2>7. async_reply(call, m.ok, m) =
          IF call.kind = "owner" THEN handle_owner_reply(Without(battery, call), m.ok, m.sender)
          ELSE handle_get_all_reply(Without(battery, call), call, m.ok, m.sender, m.values)
    BY DEF async_reply
  <2>8. Service(t, now, values, handle_owner_reply(Without(battery, call), m.ok, m.sender))
    BY <1>2, <1>3, <2>1, <2>2, <2>3, <2>4, <2>5, OwnerReplied
  <2>9. Service(t, now, values, handle_get_all_reply(Without(battery, call), call, m.ok, m.sender, m.values))
    <3>1. CASE m.ok = TRUE
      BY <1>2, <1>3, <2>1, <2>2, <2>3, <2>4, <2>5, <2>6, <3>1, GetAllReplied
    <3>2. CASE m.ok = FALSE
      BY <1>1, <1>3, <2>1, <2>2, <3>2, GetAllFailed
    <3> QED BY <2>3, <3>1, <3>2
  <2>10. Service(t, now, values, async_reply(call, m.ok, m))
    BY <2>7, <2>8, <2>9
  <2> QED BY <2>10 DEF call
<1>8. Head(upower.mail) = m
  BY <1>2 DEF s
<1> HIDE DEF m
<1> QED BY <1>5, <1>6, <1>7, <1>8 DEF now, values

\* A turn with a message (tomoe_battery_poll).
LEMMA PollStep ==
  ASSUME BatteryOK(upower, battery), tomoe_battery_poll
  PROVE  BatteryOK(upower, battery)'
<1> DEFINE s == upower.mail
           r == Tail(s)
           m == Head(s)
           H == CASE m.kind = "owner"   -> owner_changed_signal(battery, m.old, m.new)
                  [] m.kind = "changed" -> properties_signal(battery, m)
                  [] m.kind = "reply"   -> async_reply(CHOOSE c \in ToSet(battery.calls) : c.id = m.id, m.ok, m)
           B == queue_get_all(H)
           now == upower.owner
           values == upower.values
<1>1. /\ upower \in UPowerStates /\ s \in Seq(BatteryMail) /\ s # <<>> /\ battery.bus /\ battery \in BatteryStates
      /\ Spoken(s, now) /\ Truthful(s, values) /\ upower.failed \in Nat
  BY UPowerOf DEF BatteryOK, Service, tomoe_battery_poll
<1>2. r \in Seq(BatteryMail) /\ m \in BatteryMail
  <2> HIDE DEF s
  <2> QED BY <1>1
<1>3. battery' = B /\ upower' = [upower EXCEPT !.mail = Live(r, B)]
  BY DEF tomoe_battery_poll, Turn
<1>4. \A t \in Seq(BatteryMail) : Rest(t, r, 0, {"reply"}) => Rest(t, s, 1, {"reply"})
  <2> HIDE DEF s
  <2> QED BY <1>1, RestOfTail
<1>5. ASSUME NEW t \in Seq(BatteryMail), Rest(t, r, 0, {"reply"}) PROVE Service(t, now, values, H)
  <2>1. After(t, s, 1, now) /\ Truthful(t, values)
    <3>1. Len(t) \in Nat /\ Len(s) \in Nat
      BY <1>1
    <3>2. Rest(t, s, 1, {"reply"})
      BY <1>4, <1>5
    <3> HIDE DEF s, r, now, values
    <3> QED BY <1>1, <3>1, <3>2, AfterRest
  <2>2. /\ m.kind = "owner" => Service(t, now, values, owner_changed_signal(battery, m.old, m.new))
        /\ m.kind = "changed" => Service(t, now, values, properties_signal(battery, m))
        /\ m.kind = "reply" =>
             Service(t, now, values, async_reply(CHOOSE c \in ToSet(battery.calls) : c.id = m.id, m.ok, m))
    BY <1>1, <2>1, MessageRead
  <2>3. m.kind \in {"owner", "changed", "reply"}
    BY <1>2, MailShape
  <2> HIDE DEF s, r, m, now, values
  <2>4. CASE m.kind = "owner"
    BY <2>2, <2>4
  <2>5. CASE m.kind = "changed"
    BY <2>2, <2>5
  <2>6. CASE m.kind = "reply"
    BY <2>2, <2>6
  <2> QED BY <2>3, <2>4, <2>5, <2>6
<1> HIDE DEF s, r, m, H, now, values
<1>6. ASSUME NEW t \in Seq(BatteryMail), Rest(t, r, 0, {"reply"})
      PROVE  Service(t, now, values, B) /\ ~B.needAll /\ B \in BatteryStates
  <2>1. Service(t, now, values, B) /\ ~B.needAll
    BY <1>5, <1>6, Served
  <2> QED BY <2>1 DEF Service
<1> HIDE DEF B
<1>7. B \in BatteryStates
  <2>1. Live(r, battery) \in Seq(BatteryMail) /\ Rest(Live(r, battery), r, 0, {"reply"})
    BY <1>1, <1>2, LiveIs
  <2> QED BY <1>6, <2>1
<1> DEFINE t == Live(r, B)
<1>8. t \in Seq(BatteryMail) /\ Rest(t, r, 0, {"reply"})
  BY <1>2, <1>7, LiveIs
<1>9. Service(t, now, values, B) /\ ~B.needAll
  BY <1>6, <1>8
<1>10. upower' \in UPowerStates /\ upower'.mail = t /\ upower'.owner = upower.owner /\ upower'.values = upower.values
  <2>1. upower' = [upower EXCEPT !.mail = t]
    BY <1>3
  <2> HIDE DEF t
  <2> QED BY <1>1, <1>8, <2>1 DEF UPowerStates
<1>11. t = Live(r, B)
  OBVIOUS
<1>12. \A x \in Seq(BatteryMail) : Rest(x, r, 0, {"reply"}) => Rest(x, upower.mail, 1, {"reply"})
  BY <1>4 DEF s
<1>13. Service(t, upower.owner, upower.values, B)
  BY <1>9 DEF now, values
<1> HIDE DEF t
<1> QED BY <1>1, <1>2, <1>3, <1>7, <1>9, <1>10, <1>11, <1>12, <1>13, BatteryTurn

\* A request is not answered in time (async_reply).
LEMMA TimesOutStep ==
  ASSUME BatteryOK(upower, battery), NEW i \in DOMAIN battery.calls, TimesOut(i)
  PROVE  BatteryOK(upower, battery)'
<1> DEFINE call == battery.calls[i]
           b == async_reply(call, FALSE, [sender |-> None, values |-> NoBattery])
           s == upower.mail
           now == upower.owner
           values == upower.values
<1>1. /\ upower \in UPowerStates /\ s \in Seq(BatteryMail) /\ battery \in BatteryStates
      /\ Spoken(s, now) /\ Truthful(s, values) /\ upower.failed + 1 \in Nat /\ ~battery.needAll
      /\ Service(s, now, values, battery)
  BY UPowerOf DEF BatteryOK, Service
<1>2. battery' = b /\ upower' = [upower EXCEPT !.failed = @ + 1, !.mail = Live(@, b)]
  BY DEF TimesOut
<1>3. i \in 1..Len(battery.calls) /\ call \in BatteryCall
  <2>1. battery.calls \in Seq(BatteryCall)
    BY <1>1, BatteryOf
  <2> QED BY <2>1
<1>4. b = IF call.kind = "owner" THEN handle_owner_reply(Without(battery, call), FALSE, None)
          ELSE handle_get_all_reply(Without(battery, call), call, FALSE, None, NoBattery)
  BY DEF async_reply
<1>5. ASSUME NEW t \in Seq(BatteryMail), Rest(t, s, 0, {"reply"})
      PROVE  Service(t, now, values, b) /\ ~b.needAll /\ b \in BatteryStates
  <2>1. After(t, s, 0, now) /\ Truthful(t, values) /\ Len(t) \in Nat /\ Len(s) \in Nat
    <3>1. Len(t) \in Nat /\ Len(s) \in Nat
      BY <1>1
    <3> HIDE DEF s, now, values
    <3> QED BY <1>1, <1>5, <3>1, AfterRest
  <2>2. Service(t, now, values, battery)
    <3>1. NoNews(t) => NoNews(s)
      BY <2>1 DEF After, NoNews
    <3> HIDE DEF s, now, values
    <3> QED BY <1>1, <2>1, <3>1, ServiceStays DEF After
  <2> HIDE DEF s, now, values
  <2> DEFINE c == handle_owner_reply(Without(battery, call), FALSE, None)
             d == handle_get_all_reply(Without(battery, call), call, FALSE, None, NoBattery)
  <2>3. Service(t, now, values, c) /\ ~c.needAll
    BY <1>1, <1>3, <2>1, <2>2, OwnerReplied
  <2>4. Service(t, now, values, d) /\ ~d.needAll
    BY <1>1, <1>3, <2>2, GetAllFailed
  <2> HIDE DEF c, d
  <2>5. Service(t, now, values, b) /\ ~b.needAll
    <3>1. b = IF call.kind = "owner" THEN c ELSE d
      BY <1>4 DEF c, d
    <3> HIDE DEF b
    <3> QED BY <2>3, <2>4, <3>1
  <2> QED BY <2>5 DEF Service
<1> HIDE DEF b, now, values
<1>6. b \in BatteryStates
  <2>1. Live(s, battery) \in Seq(BatteryMail) /\ Rest(Live(s, battery), s, 0, {"reply"})
    BY <1>1, LiveIs
  <2> QED BY <1>5, <2>1
<1> DEFINE t == Live(s, b)
<1>7. t \in Seq(BatteryMail) /\ Rest(t, s, 0, {"reply"})
  BY <1>1, <1>6, LiveIs
<1>8. Service(t, upower.owner, upower.values, b) /\ ~b.needAll
  BY <1>5, <1>7 DEF now, values
<1>9. upower' \in UPowerStates /\ upower'.mail = t /\ upower'.owner = upower.owner /\ upower'.values = upower.values
  <2> DEFINE failed == upower.failed + 1
  <2>1. upower' = [upower EXCEPT !.failed = failed, !.mail = t]
    BY <1>2
  <2>2. failed \in Nat
    BY <1>1
  <2> HIDE DEF t, failed
  <2> QED BY <1>1, <1>7, <2>1, <2>2 DEF UPowerStates
<1>10. t = Live(s, b) /\ \A x \in Seq(BatteryMail) : Rest(x, s, 0, {"reply"}) => Rest(x, upower.mail, 0, {"reply"})
  OBVIOUS
<1> HIDE DEF t
<1> QED BY <1>1, <1>2, <1>6, <1>8, <1>9, <1>10, BatteryTurn

\* The service when a request is answered.
Answering(b, i) == [b EXCEPT !.calls[i].waits = FALSE]

LEMMA AnswerIs ==
  ASSUME NEW b \in BatteryStates, NEW i \in 1..Len(b.calls)
  PROVE  LET t == Answering(b, i)
         IN  /\ t \in BatteryStates /\ t.bus = b.bus /\ t.needAll = b.needAll /\ t.missed = b.missed
             /\ t.owner = b.owner /\ t.authoritative = b.authoritative /\ t.raw = b.raw /\ t.shown = b.shown
             /\ t.sysfs = b.sysfs /\ t.sysfsRaw = b.sysfsRaw /\ t.lost = b.lost
             /\ Len(t.calls) = Len(b.calls)
             /\ \A k \in 1..Len(b.calls) :
                  /\ t.calls[k].id = b.calls[k].id /\ t.calls[k].kind = b.calls[k].kind
                  /\ t.calls[k].stale = b.calls[k].stale
                  /\ t.calls[k].waits => b.calls[k].waits
             /\ ~t.calls[i].waits
<1> DEFINE s == b.calls
           e == [s[i] EXCEPT !.waits = FALSE]
           q == [s EXCEPT ![i] = e]
           t == Answering(b, i)
<1>1. s \in Seq(BatteryCall) /\ i \in 1..Len(s)
  BY BatteryOf
<1>2. t = [b EXCEPT !.calls = q]
  BY DEF Answering
<1> HIDE DEF s, q, t
<1>3. s[i] \in BatteryCall
  BY <1>1
<1>4. /\ e \in BatteryCall /\ e.id = s[i].id /\ e.kind = s[i].kind /\ e.stale = s[i].stale /\ e.waits = FALSE
  BY <1>3 DEF BatteryCall
<1> HIDE DEF e
<1>5. q \in Seq(BatteryCall) /\ Len(q) = Len(s) /\ \A k \in 1..Len(s) : q[k] = IF k = i THEN e ELSE s[k]
  BY <1>1, <1>4 DEF q
<1>6. /\ t \in BatteryStates /\ t.bus = b.bus /\ t.needAll = b.needAll /\ t.missed = b.missed
      /\ t.owner = b.owner /\ t.authoritative = b.authoritative /\ t.raw = b.raw /\ t.shown = b.shown
      /\ t.sysfs = b.sysfs /\ t.sysfsRaw = b.sysfsRaw /\ t.lost = b.lost /\ t.calls = q
  BY <1>2, <1>5 DEF BatteryStates
<1>7. /\ Len(t.calls) = Len(s)
      /\ \A k \in 1..Len(s) :
           /\ t.calls[k].id = s[k].id /\ t.calls[k].kind = s[k].kind
           /\ t.calls[k].stale = s[k].stale
           /\ t.calls[k].waits => s[k].waits
      /\ ~t.calls[i].waits
  BY <1>1, <1>4, <1>5, <1>6
<1> QED BY <1>6, <1>7 DEF t, s

\* UPower or the daemon answers.
LEMMA AnswersStep ==
  ASSUME BatteryOK(upower, battery), NEW i \in DOMAIN battery.calls, Answers(i)
  PROVE  BatteryOK(upower, battery)'
<1> DEFINE c == battery.calls[i]
           m == [kind |-> "reply", id |-> c.id, ok |-> upower.owner # None, sender |-> upower.owner,
                 values |-> upower.values]
           s == upower.mail
           t == Append(s, m)
           now == upower.owner
           values == upower.values
           b == Answering(battery, i)
<1>1. /\ upower \in UPowerStates /\ s \in Seq(BatteryMail) /\ battery \in BatteryStates
      /\ Spoken(s, now) /\ Truthful(s, values) /\ ~battery.needAll /\ Awaited(s, battery.calls)
      /\ Service(s, now, values, battery)
  BY UPowerOf DEF BatteryOK, Service
<1>2. i \in 1..Len(battery.calls) /\ c \in BatteryCall /\ battery.calls \in Seq(BatteryCall)
  <2>1. battery.calls \in Seq(BatteryCall)
    BY <1>1, BatteryOf
  <2> QED BY <2>1
<1>3. m \in BatteryMail
  <2>1. c.id \in Nat /\ upower.owner \in Owner /\ upower.values \in BatteryValues
    BY <1>1, <1>2, CallOf, UPowerOf
  <2>2. (upower.owner # None) \in BOOLEAN
    OBVIOUS
  <2> HIDE DEF c
  <2> QED BY <2>1, <2>2 DEF BatteryMail
<1>4. /\ m.kind = "reply" /\ m.id = c.id /\ (m.ok <=> now # None) /\ m.sender = now /\ m.values = values
  OBVIOUS
<1>5. battery' = b /\ upower' = [upower EXCEPT !.mail = t]
  <2>1. upower' = Sent(upower, m)
    BY Zenon DEF Answers
  <2> QED BY <2>1 DEF Answers, Sent, Answering
<1>6. /\ b \in BatteryStates /\ b.bus = battery.bus /\ b.needAll = battery.needAll /\ b.missed = battery.missed
      /\ b.owner = battery.owner /\ b.authoritative = battery.authoritative /\ b.raw = battery.raw
      /\ b.shown = battery.shown
      /\ b.sysfs = battery.sysfs /\ b.sysfsRaw = battery.sysfsRaw /\ b.lost = battery.lost
      /\ Len(b.calls) = Len(battery.calls)
      /\ \A k \in 1..Len(battery.calls) :
           /\ b.calls[k].id = battery.calls[k].id /\ b.calls[k].kind = battery.calls[k].kind
           /\ b.calls[k].stale = battery.calls[k].stale
           /\ b.calls[k].waits => battery.calls[k].waits
      /\ ~b.calls[i].waits
  BY <1>1, <1>2, AnswerIs
<1> HIDE DEF m, b
<1>7. /\ t \in Seq(BatteryMail) /\ Len(s) \in Nat /\ Len(t) = Len(s) + 1
      /\ \A k \in 1..Len(s) : t[k] = s[k]
      /\ t[Len(s) + 1] = m
  BY <1>1, <1>3, Appended
<1>8. upower' \in UPowerStates /\ upower'.mail = t /\ upower'.owner = now /\ upower'.values = values
  <2> HIDE DEF t
  <2> QED BY <1>1, <1>5, <1>7 DEF UPowerStates
<1>9. Spoken(t, now) /\ \A o : Holds(s, now, 0, o) => Holds(t, now, 0, o)
  <2> HIDE DEF s, now
  <2> QED BY <1>1, <1>3, <1>4, SpokenAppend
<1>10. Truthful(t, values) /\ \A f \in BatteryFields : Unchanged(t, 0, f) => Unchanged(s, 0, f)
  <2>1. \A k \in 1..Len(s) : s[k].kind = "changed" => s[k].field \in BatteryFields
    BY <1>1, MailShape
  <2> HIDE DEF s, now, values
  <2> QED BY <1>1, <1>3, <1>4, <2>1, TruthfulAppend
<1> HIDE DEF t, s, now, values
<1>11. NoNews(t) => NoNews(s)
  <2>1. \A k \in 1..Len(s) : k \in 1..Len(t)
    BY <1>7
  <2> QED BY <1>7, <2>1 DEF NoNews
<1>12. Service(t, now, values, battery)
  BY <1>1, <1>9, <1>10, <1>11, ServiceStays
<1>13. Service(t, now, values, b)
  <2>1. Numbered(b.calls) /\ Kept(b)
    <3>1. b.calls = <<>> <=> battery.calls = <<>>
      <4>1. b.calls \in Seq(BatteryCall) /\ battery.calls \in Seq(BatteryCall)
        BY <1>1, <1>6, BatteryOf
      <4>2. b.calls = <<>> <=> Len(b.calls) = 0
        BY <4>1
      <4>3. battery.calls = <<>> <=> Len(battery.calls) = 0
        BY <4>1
      <4> QED BY <1>6, <4>2, <4>3
    <3> QED BY <1>6, <1>12, <3>1 DEF Service, Numbered, Kept
  <2>2. Wants(battery) => Wants(b)
    <3>1. battery.calls \in Seq(BatteryCall) /\ b.calls \in Seq(BatteryCall)
      BY <1>1, <1>6, BatteryOf
    <3>2. battery.calls = <<>> <=> Len(battery.calls) = 0
      BY <3>1
    <3>3. b.calls = <<>> <=> Len(b.calls) = 0
      BY <3>1
    <3> QED BY <1>6, <3>2, <3>3 DEF Wants
  <2>3. \A f : Asks(battery, f) => Asks(b, f)
    BY <1>6 DEF Asks
  <2>4. Followed(t, now, values, b)
    BY <1>6, <1>12, <2>2, <2>3 DEF Followed, Service
  <2> QED BY <1>6, <1>12, <2>1, <2>2, <2>4 DEF Service
<1>14. Awaited(t, b.calls)
  <2>1. ASSUME NEW k \in 1..Len(t), t[k].kind = "reply"
        PROVE  \E j \in 1..Len(b.calls) : b.calls[j].id = t[k].id /\ ~b.calls[j].waits
    <3>1. CASE k \in 1..Len(s)
      <4>1. t[k] = s[k] /\ s[k].kind = "reply" /\ Awaited(s, battery.calls)
        BY <1>1, <1>7, <2>1, <3>1
      <4>2. PICK j \in 1..Len(battery.calls) : battery.calls[j].id = s[k].id /\ ~battery.calls[j].waits
        BY <3>1, <4>1 DEF Awaited
      <4> QED BY <1>6, <4>1, <4>2
    <3>2. CASE k = Len(s) + 1
      BY <1>2, <1>4, <1>6, <1>7, <3>2
    <3> QED BY <1>7, <3>1, <3>2
  <2> QED BY <2>1 DEF Awaited
<1> QED BY <1>1, <1>5, <1>6, <1>8, <1>9, <1>10, <1>13, <1>14 DEF BatteryOK

\* A turn that looks at /sys.
LEMMA SysfsStep ==
  ASSUME BatteryOK(upower, battery), SysfsPolled
  PROVE  BatteryOK(upower, battery)'
<1> DEFINE c == read_sysfs(battery)
<1>1. battery' = c /\ upower' = upower
  BY DEF SysfsPolled
<1>2. upower \in UPowerStates /\ battery \in BatteryStates
  BY DEF BatteryOK, Service
<1>3. /\ Facing(c) /\ SameService(c, battery) /\ c.owner = battery.owner
      /\ c.authoritative = battery.authoritative /\ c.raw = battery.raw /\ c.calls = battery.calls
      /\ (c.sysfs \/ c.lost)
  BY <1>2, ReadIs
<1> HIDE DEF c
<1>4. Kept(c) /\ Numbered(c.calls) /\ ~c.needAll
  BY <1>3 DEF BatteryOK, Service, Kept, SameService, Facing
<1>5. Followed(upower.mail, upower.owner, upower.values, c)
  BY <1>3 DEF BatteryOK, Service, Followed, SameService, Asks, Wants
<1>6. Service(upower.mail, upower.owner, upower.values, c)
  BY <1>3, <1>4, <1>5 DEF BatteryOK, Service, Facing
<1>7. BatteryOK(upower, c)
  BY <1>3, <1>4, <1>6 DEF BatteryOK
<1> QED BY <1>1, <1>7

LEMMA BusGone ==
  ASSUME NEW b \in BatteryStates, upower \in UPowerStates, NEW s, NEW now, NEW values, ~b.bus
  PROVE  LET c == fallback_to_sysfs(b)
         IN  Service(s, now, values, c) /\ ~c.needAll /\ c.calls = <<>>
<1> DEFINE c == fallback_to_sysfs(b)
<1>1. /\ Facing(c) /\ c.bus = b.bus /\ ~c.needAll /\ c.owner = None
      /\ ~c.authoritative /\ c.calls = <<>> /\ (c.sysfs \/ c.lost)
  BY FallbackIs
<1> HIDE DEF c
<1>2. Kept(c) /\ Numbered(c.calls) /\ Followed(s, now, values, c)
  BY <1>1 DEF Kept, Facing, Numbered, Followed
<1>3. Service(s, now, values, c) /\ ~c.needAll /\ c.calls = <<>>
  BY <1>1, <1>2 DEF Service, Facing
<1> QED BY <1>3 DEF c

\* The bus goes (disconnect_bus).
LEMMA DisconnectStep ==
  ASSUME BatteryOK(upower, battery), disconnect_bus
  PROVE  BatteryOK(upower, battery)'
<1> DEFINE b == [battery EXCEPT !.bus = FALSE]
           c == fallback_to_sysfs(b)
           events == upower.events + 1
           t == <<>>
<1>1. upower \in UPowerStates /\ battery \in BatteryStates
  BY DEF BatteryOK, Service
<1>2. b \in BatteryStates /\ ~b.bus
  BY <1>1 DEF BatteryStates
<1>3. battery' = c /\ upower' = [upower EXCEPT !.mail = t, !.events = events]
  BY DEF disconnect_bus
<1>4. t \in Seq(BatteryMail) /\ events \in Nat /\ Len(t) = 0
  BY <1>1, UPowerOf
<1> HIDE DEF b, events, t
<1>5. upower' \in UPowerStates /\ upower'.mail = t /\ upower'.owner = upower.owner /\ upower'.values = upower.values
  BY <1>1, <1>3, <1>4 DEF UPowerStates
<1>6. Service(t, upower.owner, upower.values, c) /\ ~c.needAll
  BY <1>1, <1>2, BusGone
<1> HIDE DEF c
<1>7. Spoken(t, upower.owner) /\ Truthful(t, upower.values) /\ Awaited(t, c.calls)
  BY <1>4 DEF Spoken, Truthful, Awaited
<1> QED BY <1>3, <1>5, <1>6, <1>7 DEF BatteryOK

-----------------------------------------------------------------------------
(* The specification. *)

\* What the service is opened with, ...
LEMMA OpenedIs ==
  /\ tomoe_battery_open \in BatteryStates /\ tomoe_battery_open.bus /\ ~tomoe_battery_open.needAll /\ tomoe_battery_open.owner = None /\ ~tomoe_battery_open.authoritative
  /\ ~tomoe_battery_open.sysfs /\ tomoe_battery_open.shown = Public(tomoe_battery_open.sysfsRaw)
  /\ tomoe_battery_open.calls # <<>> /\ Len(tomoe_battery_open.calls) = 1 /\ tomoe_battery_open.calls[1].stale = {}
<1> DEFINE call == [id |-> 1, kind |-> "owner", waits |-> TRUE, stale |-> {}]
           calls == <<call>>
           shown == [available |-> FALSE, level |-> Full]
<1>1. call \in BatteryCall /\ call.stale = {}
  BY DEF BatteryCall
<1> HIDE DEF call
<1>2. calls \in Seq(BatteryCall) /\ calls # <<>> /\ Len(calls) = 1 /\ calls[1] = call
  BY <1>1
<1> HIDE DEF calls
<1>3. shown \in [available : BOOLEAN, level : Levels \cup {None, Full}] /\ Public(NoBattery) = shown
  BY DEF Public, NoBattery
<1> HIDE DEF shown
<1>4. tomoe_battery_open = [bus |-> TRUE, owner |-> None, authoritative |-> FALSE, raw |-> NoBattery,
                sysfs |-> FALSE, sysfsRaw |-> NoBattery, needAll |-> FALSE, calls |-> calls,
                shown |-> shown, missed |-> FALSE, lost |-> FALSE]
  BY DEF tomoe_battery_open, calls, call, shown
<1>5. NoBattery \in BatteryValues /\ None \in Owner
  BY NoBatteryTypes DEF Owner
<1> QED BY <1>1, <1>2, <1>3, <1>4, <1>5 DEF BatteryStates

\* ... with a bus or without one.
LEMMA BatteryStarts ==
  ASSUME BatteryInit
  PROVE  BatteryOK(upower, battery)
<1> DEFINE closed == [tomoe_battery_open EXCEPT !.bus = FALSE, !.calls = <<>>]
           t == <<>>
<1>1. PICK owner \in {None, 1}, level \in Levels :
        upower = [owner |-> owner, values |-> [present |-> TRUE, level |-> level],
                  supply |-> level, mail |-> <<>>, born |-> 1, events |-> 0, failed |-> 0]
  BY DEF BatteryInit
<1>2. upower \in UPowerStates /\ upower.mail = t
  <2> DEFINE values == [present |-> TRUE, level |-> level]
  <2>1. values \in BatteryValues /\ owner \in Owner
    BY DEF BatteryValues, Owner
  <2>2. upower = [owner |-> owner, values |-> values, supply |-> level, mail |-> <<>>, born |-> 1,
                  events |-> 0, failed |-> 0]
    BY <1>1
  <2> HIDE DEF values
  <2> QED BY <2>1, <2>2 DEF UPowerStates
<1>3. Len(t) = 0
  OBVIOUS
<1>4. Spoken(t, upower.owner) /\ Truthful(t, upower.values) /\ \A calls : Awaited(t, calls)
  BY <1>3 DEF Spoken, Truthful, Awaited
<1>5. battery = tomoe_battery_open \/ battery = start_sysfs(closed)
  BY DEF BatteryInit
<1>6. CASE battery = tomoe_battery_open
  <2>1. Kept(tomoe_battery_open)
    BY OpenedIs DEF Kept
  <2>2. Numbered(tomoe_battery_open.calls)
    BY OpenedIs DEF Numbered
  <2>3. Wants(tomoe_battery_open)
    BY OpenedIs DEF Wants
  <2>4. Followed(t, upower.owner, upower.values, tomoe_battery_open)
    BY <2>3, OpenedIs DEF Followed
  <2>5. Service(t, upower.owner, upower.values, tomoe_battery_open)
    BY <2>1, <2>2, <2>3, <2>4, OpenedIs DEF Service
  <2> QED BY <1>2, <1>4, <1>6, <2>5, OpenedIs DEF BatteryOK
<1>7. CASE battery = start_sysfs(closed)
  <2> DEFINE c == start_sysfs(closed)
  <2>1. /\ closed \in BatteryStates /\ closed.bus = FALSE /\ closed.owner = None /\ closed.calls = <<>>
        /\ closed.needAll = tomoe_battery_open.needAll
    <3>1. <<>> \in Seq(BatteryCall)
      OBVIOUS
    <3> QED BY <3>1, OpenedIs DEF BatteryStates
  <2> HIDE DEF closed
  <2>2. Facing(c) /\ SameService(c, closed) /\ c.owner = None /\ ~c.authoritative /\ c.calls = <<>>
        /\ (c.sysfs \/ c.lost)
    BY <1>2, <2>1, StartIs
  <2> HIDE DEF c
  <2>3. ~c.needAll /\ ~c.bus
    BY <2>1, <2>2, OpenedIs DEF SameService
  <2>4. Kept(c) /\ Numbered(c.calls) /\ Followed(t, upower.owner, upower.values, c)
    BY <2>2, <2>3 DEF Kept, Facing, Numbered, Followed
  <2>5. Service(t, upower.owner, upower.values, c)
    BY <2>2, <2>4 DEF Service, Facing
  <2>6. BatteryOK(upower, c)
    BY <1>2, <1>4, <2>3, <2>5 DEF BatteryOK
  <2> QED BY <1>7, <2>6 DEF c
<1> QED BY <1>5, <1>6, <1>7

\* Each action preserves the invariant.
LEMMA BatteryMoves ==
  ASSUME BatteryOK(upower, battery), BatteryNext
  PROVE  BatteryOK(upower, battery)'
<1>1. CASE UPowerStarts \/ UPowerStops
           \/ \E told \in BOOLEAN : \/ \E present \in BOOLEAN : BatteryChanges("present", present, told)
                                    \/ \E level \in Levels : BatteryChanges("level", level, told)
  BY <1>1, UPowerStep
<1>2. CASE tomoe_battery_poll
  BY <1>2, PollStep
<1>3. CASE SysfsPolled
  BY <1>3, SysfsStep
<1>4. CASE disconnect_bus
  BY <1>4, DisconnectStep
<1>5. CASE \E supply \in Levels \cup {None} : SupplyChanges(supply)
  BY <1>5, SupplyStep
<1>6. CASE \E i \in DOMAIN battery.calls : Answers(i) \/ TimesOut(i)
  BY <1>6, AnswersStep, TimesOutStep
<1> QED BY <1>1, <1>2, <1>3, <1>4, <1>5, <1>6 DEF BatteryNext

\* Once nothing is on its way, what is followed is what is shown.
LEMMA BatteryIsRight ==
  ASSUME BatteryOK(upower, battery)
  PROVE  BatteryIsTold
<1> DEFINE s == upower.mail
           now == upower.owner
           values == upower.values
           b == battery
<1>1. /\ upower \in UPowerStates /\ b \in BatteryStates /\ Kept(b) /\ ~b.needAll
      /\ b.owner # None => Holds(s, now, 0, b.owner)
      /\ Followed(s, now, values, b) /\ (b.authoritative \/ b.sysfs \/ b.lost \/ Wants(b))
  BY DEF BatteryOK, Service
<1> HIDE DEF s, now, values, b
<1>2. ASSUME s = <<>>, b.calls = <<>> PROVE b.owner # None => b.owner = now
  BY <1>1, <1>2 DEF Holds
<1>3. ASSUME s = <<>>, b.calls = <<>>, ~b.bus \/ now = None
      PROVE  /\ ~b.authoritative
             /\ upower.supply # None /\ ~b.lost => b.sysfs /\ b.shown.available
  <2>1. ~b.authoritative
    BY <1>1, <1>2, <1>3 DEF Kept
  <2>2. ~b.lost => b.sysfs
    BY <1>1, <1>3, <2>1 DEF Wants
  <2>3. b.sysfs => b.shown.available
    BY <1>1, <2>1 DEF Kept, Public
  <2> QED BY <2>1, <2>2, <2>3
<1>4. ASSUME s = <<>>, b.calls = <<>>, b.bus, now # None
      PROVE  /\ b.owner = now \/ b.missed
             /\ ~b.missed => b.authoritative /\ b.shown = Public(values)
  <2>1. ASSUME ~b.missed PROVE b.owner = now /\ b.authoritative /\ b.shown = Public(values)
    <3>1. NoNews(s) /\ \A f : Unchanged(s, 0, f) /\ ~Asks(b, f)
      BY <1>4 DEF NoNews, Unchanged, Asks
    <3>2. b.owner # None
      BY <1>1, <1>4, <2>1, <3>1 DEF Followed, Wants
    <3>3. \A f \in BatteryFields : b.authoritative /\ b.raw[f] = values[f]
      BY <1>1, <1>4, <2>1, <3>1, <3>2 DEF Followed
    <3>4. b.authoritative /\ b.raw.present = values.present /\ b.raw.level = values.level
      BY <3>3 DEF BatteryFields
    <3>5. Public(b.raw) = Public(values)
      BY <3>4 DEF Public
    <3> QED BY <1>1, <1>2, <1>4, <3>2, <3>4, <3>5 DEF Kept
  <2> QED BY <2>1
<1>5. s = upower.mail /\ now = upower.owner /\ values = upower.values /\ b = battery
  BY DEF s, now, values, b
<1> QED BY <1>3, <1>4, <1>5 DEF BatteryIsTold

\* For any levels, bounds and interleaving of UPower, the bus, /sys and time-outs: once
\* everything sent has been read and answered the policy is told what UPower says of the
\* battery, or /sys without it (battery.c).
THEOREM BatteryTold == BatterySpec => []BatteryIsTold
<1>1. BatteryInit => BatteryOK(upower, battery)
  BY BatteryStarts
<1>2. BatteryOK(upower, battery) /\ [BatteryNext]_batteryVars => BatteryOK(upower, battery)'
  <2>1. CASE UNCHANGED batteryVars
    BY <2>1 DEF batteryVars
  <2> QED BY <2>1, BatteryMoves
<1>3. BatteryOK(upower, battery) => BatteryIsTold
  BY BatteryIsRight
<1> QED BY <1>1, <1>2, <1>3, PTL DEF BatterySpec

-----------------------------------------------------------------------------
(* The types of timers and of watches. *)

\* In a pass each timer that is due is taken once.
TimersListed == TimersTypeOK /\ IsInjective(due)

\* A commit leaves in the lists what it keeps and does not consume.
LEMMA TimersCommitTypes ==
  ASSUME TimersTypeOK, NEW told \in SUBSET Timers, install_timers(told)
  PROVE  /\ timer' \in [Timers -> TimerState] /\ shots' \in [Timers -> 0..2]
         /\ late' \in Seq(Timers) /\ IsInjective(late')
         /\ ToSet(late') = {t \in Timers : timer'[t].state = "due"}
         /\ due' \in Seq(Timers) /\ ToSet(due') \subseteq ToSet(late')
         /\ \A t \in Timers : timer'[t].kind = "repeat" => timer'[t].state # "fired"
         /\ IsInjective(due) => IsInjective(due')
<1>1. PICK kind \in [Timers -> Kinds \cup {NoTimer}], reload \in BOOLEAN :
        LET kept == {t \in Timers : Keeps(t, kind[t], reload)}
        IN /\ timer' = [t \in Timers |-> CASE t \in kept \cap told -> Consumed(t)
                                          [] t \in kept \ told -> timer[t]
                                          [] OTHER -> NewTimer(kind[t])]
           /\ late' = Only(late, kept \ told)
           /\ due' = Only(due, kept \ told)
           /\ shots' = [t \in Timers |->
                          CASE reload \/ kind[t] # timer[t].kind -> 0
                            [] ~reload /\ kind[t] = timer[t].kind /\ t \in told -> Counted(t)
                            [] OTHER -> shots[t]]
  BY DEF install_timers
<1> DEFINE kept == {t \in Timers : Keeps(t, kind[t], reload)}
<1>2. /\ late' \in Seq(Timers) /\ IsInjective(late') /\ ToSet(late') = ToSet(late) \cap (kept \ told)
      /\ due' \in Seq(Timers) /\ ToSet(due') = ToSet(due) \cap (kept \ told)
      /\ IsInjective(due) => IsInjective(due')
  BY <1>1, OnlyMembers DEF TimersTypeOK
<1>3. ASSUME NEW t \in Timers
      PROVE  /\ timer'[t] \in TimerState /\ shots'[t] \in 0..2
             /\ timer'[t].kind = "repeat" => timer'[t].state # "fired"
             /\ timer'[t].state = "due" <=> t \in kept \ told /\ timer[t].state = "due"
  <2>0. timer[t] \in TimerState /\ shots[t] \in 0..2 /\ kind[t] \in Kinds \cup {NoTimer}
        /\ (timer[t].kind = "repeat" => timer[t].state # "fired")
    BY DEF TimersTypeOK
  <2>1. CASE t \in kept \cap told
    <3>1. timer'[t] = Consumed(t) /\ shots'[t] = Counted(t)
      BY <1>1, <2>1 DEF Keeps
    <3> QED BY <2>0, <2>1, <3>1 DEF TimerState, Consumed, Counted, Kinds
  <2>2. CASE t \in kept \ told
    <3>1. timer'[t] = timer[t] /\ shots'[t] = shots[t]
      BY <1>1, <2>2 DEF Keeps
    <3> QED BY <2>0, <2>2, <3>1
  <2>3. CASE t \notin kept
    <3>1. timer'[t] = NewTimer(kind[t]) /\ shots'[t] = 0
      BY <1>1, <2>3 DEF Keeps
    <3> QED BY <2>0, <2>3, <3>1 DEF NewTimer, TimerState, Kinds
  <2> QED BY <2>1, <2>2, <2>3
<1>4. timer' \in [Timers -> TimerState] /\ shots' \in [Timers -> 0..2]
  <2>1. timer' = [t \in Timers |-> timer'[t]] /\ shots' = [t \in Timers |-> shots'[t]]
    BY <1>1
  <2> QED BY <1>3, <2>1
<1> HIDE DEF kept
<1>5. ToSet(late) = {t \in Timers : timer[t].state = "due"} /\ ToSet(due) \subseteq ToSet(late)
  BY DEF TimersTypeOK
<1> QED BY <1>2, <1>3, <1>4, <1>5

LEMMA TimersTyped == TimersListed /\ [TimersNext]_timerVars => TimersListed'
<1> SUFFICES ASSUME TimersListed, [TimersNext]_timerVars PROVE TimersListed'
  OBVIOUS
<1> USE TimersAssumption
<1>1. CASE TimersCommit
  <2>1. install_timers({}) /\ fires' = fires
    BY <1>1 DEF TimersCommit
  <2> QED BY <2>1, TimersCommitTypes DEF TimersListed, TimersTypeOK
<1>2. CASE TimersStart
  BY <1>2 DEF TimersStart, TimersListed, TimersTypeOK, ByDeadline
<1>3. CASE Fire
  <2>1. PICK t \in Timers :
          /\ t = Head(due) /\ timer[t].state = "due"
          /\ \/ install_timers({t})
             \/ /\ timer' = [timer EXCEPT ![t] = Consumed(t)]
                /\ late' = Only(late, Timers \ {t})
                /\ due' = Tail(due)
                /\ shots' = [shots EXCEPT ![t] = Counted(t)]
    BY <1>3 DEF Fire
  <2>2. fires' \in 0..TimerQuota /\ due # <<>>
    BY <1>3 DEF Fire, TimersListed, TimersTypeOK
  <2>3. CASE install_timers({t})
    BY <2>2, <2>3, TimersCommitTypes DEF TimersListed, TimersTypeOK
  <2>4. CASE /\ timer' = [timer EXCEPT ![t] = Consumed(t)]
             /\ late' = Only(late, Timers \ {t})
             /\ due' = Tail(due)
             /\ shots' = [shots EXCEPT ![t] = Counted(t)]
    <3>1. /\ late' \in Seq(Timers) /\ IsInjective(late') /\ ToSet(late') = ToSet(late) \cap (Timers \ {t})
      BY <2>4, OnlyMembers DEF TimersListed, TimersTypeOK
    <3>2. due' \in Seq(Timers) /\ ToSet(due') \subseteq ToSet(due) /\ t \notin ToSet(due') /\ IsInjective(due')
      BY <2>1, <2>2, <2>4, TailMembers DEF TimersListed, TimersTypeOK
    <3>3. Consumed(t) \in TimerState /\ Consumed(t).state # "due" /\ Counted(t) \in 0..2
          /\ (Consumed(t).kind = "repeat" => Consumed(t).state # "fired")
      BY DEF TimersListed, TimersListed, TimersTypeOK, Consumed, Counted, TimerState
    <3>4. /\ timer' \in [Timers -> TimerState] /\ shots' \in [Timers -> 0..2]
          /\ timer'[t] = Consumed(t)
          /\ \A u \in Timers : u # t => timer'[u] = timer[u]
      BY <2>4, <3>3 DEF TimersListed, TimersTypeOK
    <3>5. ToSet(late') = {u \in Timers : timer'[u].state = "due"}
      BY <3>1, <3>3, <3>4 DEF TimersListed, TimersTypeOK
    <3>6. ToSet(due') \subseteq ToSet(late')
      BY <3>1, <3>2 DEF TimersListed, TimersTypeOK
    <3> QED BY <2>2, <3>1, <3>2, <3>3, <3>4, <3>5, <3>6 DEF TimersListed, TimersTypeOK
  <2> QED BY <2>1, <2>3, <2>4
<1>4. CASE TimersYield
  <2>1. due' = <<>> /\ UNCHANGED <<timer, late, fires, shots>>
    BY <1>4 DEF TimersYield
  <2>2. <<>> \in Seq(Timers) /\ ToSet(<<>>) = {} /\ IsInjective(<<>>)
    BY DEF ToSet, IsInjective
  <2> QED BY <2>1, <2>2 DEF TimersListed, TimersTypeOK
<1>5. CASE \E t \in Timers : DeadlineComes(t)
  <2>1. PICK t \in Timers : DeadlineComes(t)
    BY <1>5
  <2>2. /\ timer' = [timer EXCEPT ![t].state = "due"] /\ timer[t].kind # NoTimer /\ timer[t].state = "armed"
        /\ late' = Append(late, t) /\ due' = due /\ fires' = fires /\ shots' = shots
    BY <2>1 DEF DeadlineComes
  <2>3. t \notin ToSet(late)
    BY <2>2 DEF TimersListed, TimersTypeOK
  <2>4. late' \in Seq(Timers) /\ IsInjective(late') /\ ToSet(late') = ToSet(late) \cup {t}
    BY <2>2, <2>3, AppendMembers DEF TimersListed, TimersTypeOK
  <2>5. /\ timer' \in [Timers -> TimerState] /\ timer'[t].state = "due" /\ timer'[t].kind = timer[t].kind
        /\ \A u \in Timers : u # t => timer'[u] = timer[u]
    BY <2>2 DEF TimersListed, TimersListed, TimersTypeOK, TimerState
  <2>6. ToSet(late') = {u \in Timers : timer'[u].state = "due"}
    BY <2>4, <2>5 DEF TimersListed, TimersTypeOK
  <2> QED BY <2>2, <2>4, <2>5, <2>6 DEF TimersListed, TimersTypeOK
<1>6. CASE UNCHANGED timerVars
  BY <1>6 DEF timerVars, TimersListed, TimersTypeOK
<1> QED BY <1>1, <1>2, <1>3, <1>4, <1>5, <1>6 DEF TimersNext, TimersService

LEMMA TimersStartTyped == TimersInit => TimersListed
<1> SUFFICES ASSUME TimersInit PROVE TimersListed
  OBVIOUS
<1>1. <<>> \in Seq(Timers) /\ ToSet(<<>>) = {} /\ IsInjective(<<>>)
  BY DEF ToSet, IsInjective
<1>2. NewTimer(NoTimer) \in TimerState /\ NewTimer(NoTimer).state = "armed"
  BY DEF NewTimer, TimerState
<1> QED BY <1>1, <1>2, TimersAssumption DEF TimersInit, TimersListed, TimersTypeOK

\* What a commit keeps of the watches, opens and closes.
LEMMA WatchesCommitTypes ==
  ASSUME WatchesTypeOK, NEW told, install_watches(told)
  PROVE  /\ watch' \in [Watches -> WatchState]
         /\ order' \in Seq(Watches) /\ IsInjective(order') /\ ToSet(order') = Declared'
         /\ polls' \in Seq(Watches) /\ ToSet(polls') \subseteq Declared'
         /\ opened' \in 0..MaxOpened
         /\ fresh' \in SUBSET Declared'
         /\ \A w \in Watches \ Declared' : watch'[w].fd = "none"
<1>1. PICK keep \in SUBSET Declared, new \in SUBSET Watches :
        /\ keep \cap new = {}
        /\ opened' = opened + Cardinality(new) /\ opened' <= MaxOpened
        /\ watch' = [w \in Watches |-> CASE w \in keep -> watch[w]
                                         [] w \in new -> Opened
                                         [] OTHER -> Closed]
        /\ order' = SetToSeq(new) \o Only(order, keep)
        /\ polls' = Only(polls, keep)
        /\ fresh' = (fresh \ told) \cap keep
  BY DEF install_watches
<1>2. /\ watch \in [Watches -> WatchState] /\ order \in Seq(Watches) /\ IsInjective(order)
      /\ ToSet(order) = Declared /\ polls \in Seq(Watches) /\ opened \in Nat
  BY WatchesAssumption DEF WatchesTypeOK
<1>3. IsFiniteSet(new) /\ Cardinality(new) \in Nat
  BY WatchesAssumption, FS_Subset, FS_CardinalityType
<1>4. SetToSeq(new) \in Seq(Watches) /\ IsInjective(SetToSeq(new)) /\ ToSet(SetToSeq(new)) = new
  BY <1>3, SetToSeqIs
<1>5. Only(order, keep) \in Seq(Watches) /\ IsInjective(Only(order, keep)) /\ ToSet(Only(order, keep)) = keep
  <2>1. ToSet(Only(order, keep)) = ToSet(order) \cap keep
    BY <1>2, OnlyMembers
  <2> QED BY <1>2, <2>1, OnlyMembers
<1>6. order' \in Seq(Watches) /\ IsInjective(order') /\ ToSet(order') = new \cup keep
  <2> DEFINE a == SetToSeq(new)
             c == Only(order, keep)
  <2>1. order' = a \o c
    BY <1>1
  <2>2. a \in Seq(Watches) /\ c \in Seq(Watches) /\ IsInjective(a) /\ IsInjective(c) /\ ToSet(a) \cap ToSet(c) = {}
        /\ ToSet(a) = new /\ ToSet(c) = keep
    BY <1>1, <1>4, <1>5
  <2> HIDE DEF a, c
  <2> QED BY <2>1, <2>2, JoinMembers
<1>7. polls' \in Seq(Watches) /\ ToSet(polls') \subseteq keep
  BY <1>1, <1>2, OnlyMembers
<1>8. Opened \in WatchState /\ Closed \in WatchState /\ Opened.declared /\ ~Closed.declared /\ Closed.fd = "none"
  BY DEF Opened, Closed, WatchState
<1>9. ASSUME NEW w \in Watches
      PROVE  /\ watch'[w] \in WatchState
             /\ watch'[w].declared <=> w \in new \cup keep
             /\ w \notin new \cup keep => watch'[w].fd = "none"
  <2>1. CASE w \in keep
    <3>1. watch'[w] = watch[w] /\ watch[w].declared
      BY <1>1, <2>1 DEF Declared
    <3> QED BY <1>2, <2>1, <3>1
  <2>2. CASE w \in new \ keep
    <3>1. watch'[w] = Opened
      BY <1>1, <2>2
    <3> QED BY <1>8, <2>2, <3>1
  <2>3. CASE w \notin new \cup keep
    <3>1. watch'[w] = Closed
      BY <1>1, <2>3
    <3> QED BY <1>8, <2>3, <3>1
  <2> QED BY <2>1, <2>2, <2>3
<1>10. watch' \in [Watches -> WatchState]
  <2>1. watch' = [w \in Watches |-> watch'[w]]
    BY <1>1
  <2> QED BY <1>9, <2>1
<1>11. Declared' = new \cup keep
  <2>1. Declared' = {w \in Watches : watch'[w].declared}
    BY DEF Declared
  <2>2. keep \subseteq Watches
    BY DEF Declared
  <2> QED BY <1>9, <2>1, <2>2
<1>12. opened' \in 0..MaxOpened
  BY <1>1, <1>2, <1>3, WatchesAssumption
<1> QED BY <1>1, <1>6, <1>7, <1>9, <1>10, <1>11, <1>12

\* A step that changes of a watch only what no list depends on.
LEMMA WatchStays ==
  ASSUME WatchesTypeOK, NEW q \in [Watches -> WatchState],
         watch' = q, \A w \in Watches : q[w].declared <=> watch[w].declared,
         \A w \in Watches \ Declared : q[w].fd = "none"
  PROVE  /\ watch' \in [Watches -> WatchState] /\ Declared' = Declared
         /\ \A w \in Watches \ Declared' : watch'[w].fd = "none"
<1>1. Declared' = {w \in Watches : q[w].declared}
  BY DEF Declared
<1>2. Declared' = Declared
  BY <1>1 DEF Declared
<1> QED BY <1>2

LEMMA PollTyped ==
  ASSUME WatchesTypeOK, NEW w \in Watches, NEW refused \in BOOLEAN, PollNext(w, refused)
  PROVE  WatchesTypeOK'
<1> DEFINE found == watch_poll(w, refused)
           active == CASE "lost" \in found.bits -> FALSE
                       [] Reads(found.bits) -> TRUE
                       [] OTHER -> watch[w].active
           retry == IF Reads(found.bits) \/ (found.bits = {} /\ active) THEN "nil" ELSE "future"
           r == [declared |-> TRUE, fd |-> found.fd, events |-> {}, active |-> active, retry |-> retry]
           q == [watch EXCEPT ![w] = r]
<1>1. /\ polls # <<>> /\ polled < WatchQuota /\ Head(polls) = w
      /\ watch' = q
      /\ order' = Append(Only(order, Watches \ {w}), w)
      /\ polled' = polled + 1 /\ polls' = Tail(polls)
      /\ telling' \subseteq {w}
      /\ dir' = dir /\ opened' = opened /\ fresh' = fresh
  BY DEF PollNext, Poll
<1>2. watch[w] \in WatchState
  BY DEF WatchesTypeOK
<1>3. found.fd \in {"none", "open", "orphan"}
  BY <1>2 DEF watch_poll, activate, WatchState
<1>4. active \in BOOLEAN
  BY <1>2 DEF WatchState
<1>5. retry \in {"nil", "future", "past"}
  OBVIOUS
<1> HIDE DEF found, active, retry
<1>6. r \in WatchState /\ r.declared
  BY <1>3, <1>4, <1>5 DEF WatchState
<1> HIDE DEF r
<1>7. w \in Declared /\ Declared \subseteq Watches
  <2>1. w \in ToSet(polls)
    BY <1>1, TailMembers DEF WatchesTypeOK
  <2> QED BY <2>1 DEF WatchesTypeOK, Declared
<1>8. /\ q \in [Watches -> WatchState]
      /\ \A v \in Watches : q[v].declared <=> watch[v].declared
      /\ \A v \in Watches \ Declared : q[v].fd = "none"
  BY <1>6, <1>7 DEF WatchesTypeOK, Declared
<1> HIDE DEF q
<1>9. /\ watch' \in [Watches -> WatchState] /\ Declared' = Declared
      /\ \A v \in Watches \ Declared' : watch'[v].fd = "none"
  BY <1>1, <1>8, WatchStays
<1>10. order' \in Seq(Watches) /\ IsInjective(order') /\ ToSet(order') = Declared
  <2> DEFINE o == Only(order, Watches \ {w})
  <2>1. /\ o \in Seq(Watches) /\ IsInjective(o) /\ ToSet(o) = Declared \cap (Watches \ {w})
    BY OnlyMembers DEF WatchesTypeOK
  <2>2. order' = Append(o, w)
    BY <1>1
  <2> HIDE DEF o
  <2>3. w \notin ToSet(o) /\ ToSet(o) \cup {w} = Declared
    BY <1>7, <2>1
  <2> DEFINE u == Append(o, w)
  <2>4. u \in Seq(Watches) /\ ToSet(u) = ToSet(o) \cup {w} /\ IsInjective(u)
    BY <2>1, <2>3, AppendMembers
  <2> HIDE DEF u
  <2> QED BY <2>2, <2>3, <2>4 DEF u
<1>11. polls' \in Seq(Watches) /\ ToSet(polls') \subseteq Declared
  BY <1>1, TailMembers DEF WatchesTypeOK
<1>12. polled' \in 0..WatchQuota /\ telling' \in SUBSET Declared
  BY <1>1, <1>7, WatchesAssumption DEF WatchesTypeOK
<1> QED BY <1>1, <1>9, <1>10, <1>11, <1>12 DEF WatchesTypeOK

LEMMA WatchEvents ==
  ASSUME NEW r \in WatchState, NEW events \in SUBSET {"changed", "overflow", "lost"}
  PROVE  /\ [r EXCEPT !.events = events] \in WatchState
         /\ [r EXCEPT !.events = events].declared = r.declared
         /\ [r EXCEPT !.events = events].fd = r.fd
         /\ [r EXCEPT !.fd = "orphan", !.events = events] \in WatchState
         /\ [r EXCEPT !.fd = "orphan", !.events = events].declared = r.declared
BY DEF WatchState

LEMMA WatchRetry ==
  ASSUME NEW r \in WatchState
  PROVE  /\ [r EXCEPT !.retry = "past"] \in WatchState
         /\ [r EXCEPT !.retry = "past"].declared = r.declared
         /\ [r EXCEPT !.retry = "past"].fd = r.fd
BY DEF WatchState

\* Only w has become another record, which is declared as before.
LEMMA WatchBecomes ==
  ASSUME WatchesTypeOK, NEW w \in Watches, NEW r \in WatchState,
         r.declared = watch[w].declared, r.fd = watch[w].fd
  PROVE  LET q == [watch EXCEPT ![w] = r]
         IN /\ q \in [Watches -> WatchState]
            /\ \A v \in Watches : q[v].declared <=> watch[v].declared
            /\ \A v \in Watches \ Declared : q[v].fd = "none"
BY DEF WatchesTypeOK

LEMMA WatchesTyped == WatchesTypeOK /\ [WatchesNext]_watchVars => WatchesTypeOK'
<1> SUFFICES ASSUME WatchesTypeOK, [WatchesNext]_watchVars PROVE WatchesTypeOK'
  OBVIOUS
<1> USE WatchesAssumption
<1>1. CASE WatchesCommit
  <2>1. install_watches({}) /\ telling = {} /\ UNCHANGED <<polled, telling, dir>>
    BY <1>1 DEF WatchesCommit
  <2> QED BY <2>1, WatchesCommitTypes DEF WatchesTypeOK
<1>2. CASE WatchesStart
  BY <1>2 DEF WatchesStart, WatchesTypeOK, Declared
<1>3. CASE SkipNext
  <2>1. /\ polls # <<>> /\ polls' = Tail(polls)
        /\ UNCHANGED <<watch, order, polled, telling, dir, opened, fresh>>
    BY <1>3 DEF SkipNext
  <2>2. polls' \in Seq(Watches) /\ ToSet(polls') \subseteq Declared
    BY <2>1, TailMembers DEF WatchesTypeOK
  <2> QED BY <2>1, <2>2 DEF WatchesTypeOK, Declared
<1>4. CASE WatchesYield
  <2>1. polls' = <<>> /\ UNCHANGED <<watch, order, polled, telling, dir, opened, fresh>>
    BY <1>4 DEF WatchesYield
  <2>2. <<>> \in Seq(Watches) /\ ToSet(<<>>) = {}
    BY DEF ToSet
  <2> QED BY <2>1, <2>2 DEF WatchesTypeOK, Declared
<1>5. CASE Deliver
  <2> DEFINE told == {w \in telling : watch[w].active}
  <2>1. /\ telling' = {} /\ polled' = polled /\ dir' = dir
        /\ \/ install_watches(told)
           \/ fresh' = fresh \ told /\ UNCHANGED <<watch, order, polls, opened>>
    BY <1>5 DEF Deliver
  <2>2. CASE install_watches(told)
    BY <2>1, <2>2, WatchesCommitTypes DEF WatchesTypeOK
  <2>3. CASE fresh' = fresh \ told /\ UNCHANGED <<watch, order, polls, opened>>
    BY <2>1, <2>3 DEF WatchesTypeOK, Declared
  <2> QED BY <2>1, <2>2, <2>3
<1>6. CASE \E w \in Watches, refused \in BOOLEAN : PollNext(w, refused)
  BY <1>6, PollTyped
<1>7. CASE RemoveDirectory
  <2>1. PICK event \in {"lost", "overflow"} :
          watch' = [w \in Watches |->
                      IF watch[w].fd = "open"
                      THEN [watch[w] EXCEPT !.fd = "orphan", !.events = @ \cup {event}]
                      ELSE watch[w]]
    BY <1>7 DEF RemoveDirectory
  <2> DEFINE R(w) == [watch[w] EXCEPT !.fd = "orphan", !.events = @ \cup {event}]
             q == [w \in Watches |-> IF watch[w].fd = "open" THEN R(w) ELSE watch[w]]
  <2>2. \A w \in Watches : R(w) \in WatchState /\ R(w).declared = watch[w].declared
    <3> SUFFICES ASSUME NEW w \in Watches
                 PROVE  R(w) \in WatchState /\ R(w).declared = watch[w].declared
      OBVIOUS
    <3> DEFINE events == watch[w].events \cup {event}
    <3>1. watch[w] \in WatchState /\ events \in SUBSET {"changed", "overflow", "lost"}
      BY DEF WatchesTypeOK, WatchState
    <3>2. R(w) = [watch[w] EXCEPT !.fd = "orphan", !.events = events]
      BY <3>1 DEF WatchState
    <3> DEFINE o == [watch[w] EXCEPT !.fd = "orphan", !.events = events]
    <3> HIDE DEF events
    <3>3. o \in WatchState /\ o.declared = watch[w].declared
      BY <3>1, WatchEvents
    <3> HIDE DEF o, R
    <3> QED BY <3>2, <3>3 DEF o
  <2>3. watch' = q /\ UNCHANGED <<order, polls, polled, telling, opened, fresh>> /\ dir' = FALSE
    BY <1>7, <2>1 DEF RemoveDirectory
  <2> HIDE DEF R
  <2>4. /\ q \in [Watches -> WatchState]
        /\ \A w \in Watches : q[w].declared <=> watch[w].declared
        /\ \A w \in Watches \ Declared : q[w].fd = "none"
    BY <2>2 DEF WatchesTypeOK
  <2> HIDE DEF q
  <2>5. /\ watch' \in [Watches -> WatchState] /\ Declared' = Declared
        /\ \A w \in Watches \ Declared' : watch'[w].fd = "none"
    BY <2>3, <2>4, WatchStays
  <2> QED BY <2>3, <2>5 DEF WatchesTypeOK
<1>8. CASE MakeDirectory
  BY <1>8 DEF MakeDirectory, WatchesTypeOK, Declared
<1>9. CASE \E w \in Watches : Save(w)
  <2>1. PICK w \in Watches : Save(w)
    BY <1>9
  <2>2. PICK event \in {"changed", "overflow"} :
          watch' = [watch EXCEPT ![w].events = IF watch[w].fd = "open" THEN @ \cup {event} ELSE @]
    BY <2>1 DEF Save
  <2> DEFINE events == IF watch[w].fd = "open" THEN watch[w].events \cup {event} ELSE watch[w].events
             q == [watch EXCEPT ![w] = [watch[w] EXCEPT !.events = events]]
  <2>3. events \in SUBSET {"changed", "overflow", "lost"}
    BY DEF WatchesTypeOK, WatchState
  <2>4. watch' = q /\ UNCHANGED <<order, polls, polled, telling, dir, opened>>
        /\ fresh' = fresh \cup ({w} \cap Declared)
    BY <2>1, <2>2 DEF Save, WatchesTypeOK
  <2> HIDE DEF events
  <2>5. /\ q \in [Watches -> WatchState]
        /\ \A v \in Watches : q[v].declared <=> watch[v].declared
        /\ \A v \in Watches \ Declared : q[v].fd = "none"
    <3> DEFINE r == [watch[w] EXCEPT !.events = events]
    <3>1. watch[w] \in WatchState
      BY DEF WatchesTypeOK
    <3>2. r \in WatchState /\ r.declared = watch[w].declared /\ r.fd = watch[w].fd
      BY <2>3, <3>1, WatchEvents
    <3> HIDE DEF r
    <3>3. q = [watch EXCEPT ![w] = r]
      BY DEF r
    <3> HIDE DEF q
    <3> QED BY <3>2, <3>3, WatchBecomes
  <2> HIDE DEF q
  <2>6. /\ watch' \in [Watches -> WatchState] /\ Declared' = Declared
        /\ \A v \in Watches \ Declared' : watch'[v].fd = "none"
    BY <2>4, <2>5, WatchStays
  <2> QED BY <2>4, <2>6 DEF WatchesTypeOK
<1>10. CASE \E w \in Watches : RetryComes(w)
  <2>1. PICK w \in Watches : RetryComes(w)
    BY <1>10
  <2> DEFINE q == [watch EXCEPT ![w] = [watch[w] EXCEPT !.retry = "past"]]
  <2>2. watch' = q /\ UNCHANGED <<order, polls, polled, telling, dir, opened, fresh>>
    BY <2>1 DEF RetryComes
  <2>3. /\ q \in [Watches -> WatchState]
        /\ \A v \in Watches : q[v].declared <=> watch[v].declared
        /\ \A v \in Watches \ Declared : q[v].fd = "none"
    <3> DEFINE r == [watch[w] EXCEPT !.retry = "past"]
    <3>1. watch[w] \in WatchState
      BY DEF WatchesTypeOK
    <3>2. r \in WatchState /\ r.declared = watch[w].declared /\ r.fd = watch[w].fd
      BY <3>1, WatchRetry
    <3> HIDE DEF r
    <3>3. q = [watch EXCEPT ![w] = r]
      BY DEF r
    <3> HIDE DEF q
    <3> QED BY <3>2, <3>3, WatchBecomes
  <2> HIDE DEF q
  <2>4. /\ watch' \in [Watches -> WatchState] /\ Declared' = Declared
        /\ \A v \in Watches \ Declared' : watch'[v].fd = "none"
    BY <2>2, <2>3, WatchStays
  <2> QED BY <2>2, <2>4 DEF WatchesTypeOK
<1>11. CASE UNCHANGED watchVars
  BY <1>11 DEF watchVars, WatchesTypeOK, Declared
<1> QED BY <1>1, <1>2, <1>3, <1>4, <1>5, <1>6, <1>7, <1>8, <1>9, <1>10, <1>11 DEF WatchesNext, WatchesService

LEMMA WatchesStartTyped == WatchesInit => WatchesTypeOK
<1> SUFFICES ASSUME WatchesInit PROVE WatchesTypeOK
  OBVIOUS
<1>1. <<>> \in Seq(Watches) /\ ToSet(<<>>) = {} /\ IsInjective(<<>>)
  BY DEF ToSet, IsInjective
<1>2. Closed \in WatchState /\ ~Closed.declared /\ Closed.fd = "none"
  BY DEF Closed, WatchState
<1>3. Declared = {}
  BY <1>2 DEF WatchesInit, Declared
<1> QED BY <1>1, <1>2, <1>3, WatchesAssumption DEF WatchesInit, WatchesTypeOK

-----------------------------------------------------------------------------
(* The types of managed processes. *)

Reserving == {j \in Jobs : Reserves(j)}

\* The lists of jobs name each declared job once, a service is what waits to be
\* started again, and no more jobs may have a process than may be held: what has
\* one is in a list (ProcessInv), and a commit counts the lists.
LinesInv ==
  /\ line \in Seq(Managed) /\ IsInjective(line) /\ ToSet(line) = At("active")
  /\ left \in Seq(Managed) /\ ToSet(left) \subseteq At("active")
  /\ stage \in {"run", "stopping", "stopped", "failed"}
  /\ round \in 0..LastRound
  /\ ran \in SUBSET (Identities \X (1..MaxSource))
  /\ \A j \in Jobs : where[j] = "active" /\ proc[j].status = "waiting" => Is(j, "service")
  /\ Cardinality(Reserving) <= MaxReserved

LEMMA JobsFinite == IsFiniteSet(Jobs)
<1>1. IsFiniteSet(1..Supply)
  BY ProcessesAssumption, FS_Interval
<1>2. IsFiniteSet(Managed)
  BY <1>1, ProcessesAssumption, FS_Product DEF Managed
<1> QED BY <1>2, ProcessesAssumption, FS_Union DEF Jobs

\* Where no job comes to be counted, the bound stays.
LEMMA ReservesStay ==
  ASSUME Cardinality(Reserving) <= MaxReserved, \A j \in Jobs : Reserves(j)' => Reserves(j)
  PROVE  Cardinality(Reserving') <= MaxReserved
<1>1. IsFiniteSet(Reserving)
  BY JobsFinite, FS_Subset DEF Reserving
<1>2. Reserving' \in SUBSET Reserving
  BY DEF Reserving
<1>3. IsFiniteSet(Reserving') /\ Cardinality(Reserving') <= Cardinality(Reserving)
  BY <1>1, <1>2, FS_Subset
<1>4. Cardinality(Reserving') \in Nat /\ Cardinality(Reserving) \in Nat
  BY <1>1, <1>3, FS_CardinalityType
<1> QED BY <1>3, <1>4, ProcessesAssumption

\* A step that declares nothing and starts nothing.
LEMMA LinesStay ==
  ASSUME ProcessInv, LinesInv, ListsStay, line' = line, left' \in {left, line, <<>>},
         stage' \in {"run", "stopping", "stopped", "failed"}, round' \in 0..LastRound, ran' = ran
  PROVE  LinesInv'
<1>1. At("active")' = At("active")
  BY DEF At, ListsStay
<1>2. <<>> \in Seq(Managed) /\ ToSet(<<>>) = {}
  BY DEF ToSet
<1>3. left' \in Seq(Managed) /\ ToSet(left') \subseteq At("active")
  BY <1>2 DEF LinesInv
<1>4. \A j \in Jobs : where'[j] = "active" /\ proc'[j].status = "waiting" => Is(j, "service")'
  BY DEF LinesInv, ListsStay, Is
<1>5. \A j \in Jobs : Reserves(j)' => Reserves(j)
  BY DEF ListsStay, Reserves, Is
<1>6. Cardinality(Reserving') <= MaxReserved
  BY <1>5, ReservesStay DEF LinesInv
<1> QED BY <1>1, <1>3, <1>4, <1>6 DEF LinesInv

LEMMA StopLines ==
  ASSUME ProcessInv, LinesInv, ProcessesStop
  PROVE  LinesInv'
<1>1. EndsLists
  BY StopStep
<1>2. /\ line' = <<>> /\ left' = <<>> /\ stage' = "stopping" /\ round' = round /\ ran' = ran
  BY DEF ProcessesStop
<1>3. At("active")' = {}
  BY <1>1 DEF EndsLists, At
<1>4. <<>> \in Seq(Managed) /\ ToSet(<<>>) = {} /\ IsInjective(<<>>)
  BY DEF ToSet, IsInjective
<1>5. Cardinality(Reserving') <= MaxReserved
  BY <1>1, ReservesStay DEF EndsLists, LinesInv
<1>6. \A j \in Jobs : where'[j] # "active"
  BY <1>1 DEF EndsLists
<1> QED BY <1>2, <1>3, <1>4, <1>5, <1>6 DEF LinesInv

LEMMA LaunchLines ==
  ASSUME ProcessInv, LinesInv, LaunchSpawn
  PROVE  LinesInv'
<1>1. PICK j \in At("reserved") :
        /\ start_managed_process(j, proc[j])
        /\ where' = [where EXCEPT ![j] = "none"]
  BY DEF LaunchSpawn
<1>2. /\ j \in Jobs /\ where[j] = "reserved" /\ proc[j].args.kind = "session"
      /\ UNCHANGED <<line, left, stage, round>>
  BY <1>1 DEF At, LaunchSpawn, ProcessInv, Owned, Is
<1>3. /\ where'[j] = "none" /\ \A k \in Jobs \ {j} : where'[k] = where[k]
  BY <1>1, <1>2 DEF ProcessInv, Types
<1>4. /\ ran' = ran /\ \A k \in Jobs : k # j => proc'[k] = proc[k]
      /\ onces' = onces \/ onces' = onces \cup {j}
  BY <1>1, <1>2 DEF start_managed_process, ProcessInv, Types
<1>5. At("active")' = At("active")
  BY <1>2, <1>3 DEF At
<1>6. \A k \in Jobs : Reserves(k)' => Reserves(k)
  BY <1>2, <1>3, <1>4 DEF Reserves, Is
<1>7. Cardinality(Reserving') <= MaxReserved
  BY <1>6, ReservesStay DEF LinesInv
<1>8. \A k \in Jobs : where'[k] = "active" /\ proc'[k].status = "waiting" => Is(k, "service")'
  BY <1>3, <1>4 DEF LinesInv, Is
<1> QED BY <1>2, <1>4, <1>5, <1>7, <1>8 DEF LinesInv

\* The turn of a job: a service is counted before and after, and a one-shot that
\* is started was, as it was pending.
LEMMA TurnLines ==
  ASSUME ProcessInv, OnceInv, LinesInv, Serve, NEW j \in Managed, j = Head(left), Ready(j),
         NEW failed \in BOOLEAN, NEW ok \in StopResults, NEW r,
         r = IF proc[j].status = "running" THEN Looked(proc[j], failed, ok) ELSE proc[j],
         IF r.status \in {"pending", "waiting"} /\ ~FencedProcess(j)
         THEN start_managed_process(j, r)
         ELSE /\ proc' = [proc EXCEPT ![j] = r]
              /\ UNCHANGED <<onces, history, ran>>
  PROVE  /\ \A k \in Jobs : k # j => proc'[k] = proc[k]
         /\ proc'[j].args = proc[j].args
         /\ onces' \subseteq onces \cup {j}
         /\ Reserves(j)' => Reserves(j)
         /\ proc'[j].status = "waiting" => Is(j, "service")
         /\ ran' \in SUBSET (Identities \X (1..MaxSource))
<1>0. /\ j \in Jobs /\ proc[j] \in ProcessState /\ proc \in [Jobs -> ProcessState]
      /\ where[j] = "active" /\ where'[j] = "active" /\ stage = "run"
      /\ ran \in SUBSET (Identities \X (1..MaxSource))
  BY DEF Jobs, Ready, Serve, ProcessInv, Types, LinesInv
<1>1. r \in ProcessState /\ r.args = proc[j].args
  BY <1>0, LookedIs, Results
<1>2. /\ Started(r).args = r.args /\ Started(r).status # "waiting"
      /\ [r EXCEPT !.status = "spawn-error"].args = r.args
      /\ [r EXCEPT !.status = "spawn-error"].status = "spawn-error"
  BY <1>1, StartedIs DEF ProcessState
<1>3. (Is(j, "service") \/ Is(j, "once")) /\ r.args.kind # "session"
  BY <1>0, <1>1 DEF ProcessInv, Owned, Is
<1>4. \/ /\ proc' = [proc EXCEPT ![j] = Started(r)] /\ onces' \subseteq onces \cup {j}
         /\ IF Is(j, "once") THEN ran' = ran \cup {<<j[1], r.source>>} ELSE ran' = ran
         /\ r.status \in {"pending", "waiting"}
      \/ /\ proc' = [proc EXCEPT ![j] = [r EXCEPT !.status = "spawn-error"]]
         /\ UNCHANGED <<onces, ran>> /\ r.status \in {"pending", "waiting"}
      \/ proc' = [proc EXCEPT ![j] = r] /\ UNCHANGED <<onces, ran>>
  BY <1>1, <1>3 DEF start_managed_process, Is
<1>5. /\ \A k \in Jobs : k # j => proc'[k] = proc[k]
      /\ proc'[j].args = proc[j].args
      /\ onces' \subseteq onces \cup {j}
  BY <1>0, <1>1, <1>2, <1>4
<1>6. CASE Is(j, "service")
  <2>1. ~Is(j, "once")
    BY <1>6 DEF Is
  <2>2. ran' = ran
    BY <1>4, <2>1
  <2> QED BY <1>0, <1>5, <1>6, <2>2 DEF Reserves
<1>7. CASE ~Is(j, "service")
  <2>1. Is(j, "once") /\ proc[j].status \notin {"running", "waiting"} /\ r = proc[j]
    BY <1>0, <1>3, <1>7 DEF ProcessInv, Owned, LinesInv
  <2>2. proc[j].status = "pending"
    BY <2>1 DEF Ready
  <2>3. proc'[j].status # "waiting"
    BY <1>0, <1>2, <1>4, <2>1, <2>2
  <2>4. <<j[1], r.source>> \in Identities \X (1..MaxSource)
    <3>1. AwaitsRightly(j)
      BY <1>0, <2>1, <2>2 DEF OnceInv, Awaits
    <3> QED BY <2>1, <3>1, ProcessesAssumption DEF AwaitsRightly, ProcessInv, Types, Managed
  <2>5. ran' \in SUBSET (Identities \X (1..MaxSource))
    BY <1>0, <1>4, <2>1, <2>4
  <2> QED BY <1>0, <1>5, <2>2, <2>3, <2>5 DEF Reserves
<1> QED BY <1>6, <1>7

LEMMA ServeLines ==
  ASSUME ProcessInv, OnceInv, LinesInv, Serve
  PROVE  LinesInv'
<1>1. PICK j \in Managed :
        /\ j = Head(left)
        /\ IF ~Ready(j) THEN UNCHANGED <<proc, onces, history, line, ran>>
           ELSE /\ \E failed \in BOOLEAN, ok \in StopResults :
                     LET r == IF proc[j].status = "running" THEN Looked(proc[j], failed, ok)
                              ELSE proc[j]
                     IN IF r.status \in {"pending", "waiting"} /\ ~FencedProcess(j)
                        THEN start_managed_process(j, r)
                        ELSE /\ proc' = [proc EXCEPT ![j] = r]
                             /\ UNCHANGED <<onces, history, ran>>
                /\ line' = Append(Only(line, Managed \ {j}), j)
  BY DEF Serve
<1>2. /\ left # <<>> /\ left \in Seq(Managed) /\ left' = Tail(left)
      /\ UNCHANGED <<where, source, stage, round>>
  BY DEF Serve, LinesInv
<1>3. /\ At("active")' = At("active")
      /\ left' \in Seq(Managed) /\ ToSet(left') \subseteq At("active") /\ j \in At("active")
  <2> DEFINE t == Tail(left)
  <2>1. t \in Seq(Managed) /\ ToSet(t) \subseteq ToSet(left) /\ Head(left) \in ToSet(left)
    BY <1>2, TailMembers
  <2>2. left' = t
    BY <1>2
  <2> HIDE DEF t
  <2> QED BY <1>1, <1>2, <2>1, <2>2 DEF LinesInv, At
<1>4. At("active") \subseteq Managed
  BY DEF At, ProcessInv, Owned
<1>5. /\ line' \in Seq(Managed) /\ IsInjective(line') /\ ToSet(line') = At("active")
  <2>1. CASE line' = line
    BY <2>1 DEF LinesInv
  <2>2. CASE line' = Append(Only(line, Managed \ {j}), j)
    <3> DEFINE t == Only(line, Managed \ {j})
               u == Append(t, j)
    <3>1. /\ t \in Seq(Managed) /\ IsInjective(t) /\ ToSet(t) = At("active") \cap (Managed \ {j})
      BY OnlyMembers DEF LinesInv
    <3> HIDE DEF t
    <3>2. u \in Seq(Managed) /\ ToSet(u) = ToSet(t) \cup {j} /\ IsInjective(u)
      BY <3>1, AppendMembers
    <3>3. line' = u
      BY <2>2 DEF t
    <3> HIDE DEF u
    <3>4. ToSet(u) = At("active")
      BY <1>3, <1>4, <3>1, <3>2
    <3> QED BY <3>2, <3>3, <3>4
  <2> QED BY <1>1, <2>1, <2>2
<1>6. /\ \A k \in Jobs : k # j => proc'[k] = proc[k]
      /\ proc'[j].args = proc[j].args
      /\ onces' \subseteq onces \cup {j}
      /\ Reserves(j)' => Reserves(j)
      /\ proc'[j].status = "waiting" => Is(j, "service")
      /\ ran' \in SUBSET (Identities \X (1..MaxSource))
  <2>1. CASE ~Ready(j)
    <3>1. UNCHANGED <<proc, onces, ran, where>>
      BY <1>1, <1>2, <2>1
    <3>2. j \in Jobs /\ where[j] = "active"
      BY <1>3 DEF At
    <3> QED BY <3>1, <3>2 DEF LinesInv, Reserves, Is
  <2>2. CASE Ready(j)
    <3>1. PICK failed \in BOOLEAN, ok \in StopResults :
            LET r == IF proc[j].status = "running" THEN Looked(proc[j], failed, ok)
                     ELSE proc[j]
            IN IF r.status \in {"pending", "waiting"} /\ ~FencedProcess(j)
               THEN start_managed_process(j, r)
               ELSE /\ proc' = [proc EXCEPT ![j] = r]
                    /\ UNCHANGED <<onces, history, ran>>
      BY <1>1, <2>2
    <3>2. PICK r :
            /\ r = IF proc[j].status = "running" THEN Looked(proc[j], failed, ok) ELSE proc[j]
            /\ IF r.status \in {"pending", "waiting"} /\ ~FencedProcess(j)
               THEN start_managed_process(j, r)
               ELSE /\ proc' = [proc EXCEPT ![j] = r]
                    /\ UNCHANGED <<onces, history, ran>>
      BY <3>1
    <3> QED BY <1>1, <2>2, <3>2, TurnLines
  <2> QED BY <2>1, <2>2
<1>7. \A k \in Jobs : Reserves(k)' => Reserves(k)
  BY <1>2, <1>6 DEF Reserves, Is
<1>8. Cardinality(Reserving') <= MaxReserved
  BY <1>7, ReservesStay DEF LinesInv
<1>9. \A k \in Jobs : where'[k] = "active" /\ proc'[k].status = "waiting" => Is(k, "service")'
  <2>1. j \in Jobs
    BY DEF Jobs
  <2> QED BY <1>2, <1>6, <2>1 DEF LinesInv, Is
<1> QED BY <1>2, <1>3, <1>5, <1>6, <1>8, <1>9 DEF LinesInv

\* The bound of a commit: each job it leaves or adds is one of the pairs it counts.
LEMMA CommitCounts ==
  ASSUME ProcessInv, ProcessInv', onces' = onces,
         NEW kept, NEW made, NEW retired, NEW spawned, CommitsLists(kept, made, retired, spawned)
  PROVE  Cardinality(Reserving') <= MaxReserved
<1> DEFINE Of(j)   == [job |-> j, args |-> proc'[j].args, status |-> proc'[j].status]
           shown   == {Of(j) : j \in kept \cup made}
           counted == {r \in shown : r.args.kind = "service" \/ r.status = "pending"}
           pending == {j \in Jobs : where'[j] = "active" /\ (Is(j, "service")' \/ proc'[j].status = "pending")}
           retires == retired \cup At("retired")
           waits   == spawned \cup At("reserved")
<1>1. kept \cup made \subseteq Jobs
  BY DEF CommitsLists, At, Jobs
<1>2. IsFiniteSet(kept \cup made) /\ IsFiniteSet(onces) /\ IsFiniteSet(pending)
  BY <1>1, JobsFinite, FS_Subset DEF ProcessInv, Types
<1>3. IsFiniteSet(retires) /\ IsFiniteSet(waits)
  <2>1. retires \in SUBSET Jobs /\ waits \in SUBSET Jobs
    BY DEF CommitsLists, At
  <2> QED BY <2>1, JobsFinite, FS_Subset
<1>4. IsFiniteSet(shown)
  <2> DEFINE f == [r \in shown |-> r.job]
  <2>1. f \in Injection(shown, kept \cup made)
    BY DEF Injection, IsInjective
  <2> QED BY <1>2, <2>1, FS_Injection
<1>5. IsFiniteSet(counted)
  BY <1>4, FS_Subset
<1>6. Cardinality(pending) <= Cardinality(counted)
  <2> DEFINE f == [j \in pending |-> Of(j)]
  <2>1. \A j \in pending : Of(j) \in counted
    BY DEF CommitsLists, Is
  <2>2. \A j, k \in pending : Of(j) = Of(k) => j = k
    OBVIOUS
  <2>3. f \in Injection(pending, counted)
    <3> HIDE DEF Of, pending, counted
    <3> QED BY <2>1, <2>2 DEF Injection, IsInjective
  <2> HIDE DEF pending, counted, f
  <2> QED BY <1>5, <2>3, FS_Injection
<1>7. Cardinality(onces) + Cardinality(retires) + Cardinality(waits) + Cardinality(counted) <= MaxReserved
  BY DEF CommitsLists, reservations
<1>8. Reserving' \subseteq ((onces \cup retires) \cup waits) \cup pending
  <2> SUFFICES ASSUME NEW j \in Jobs, Reserves(j)'
               PROVE  j \in ((onces \cup retires) \cup waits) \cup pending
    BY DEF Reserving
  <2>1. /\ where'[j] = "retired" => j \in retires
        /\ where'[j] = "reserved" => j \in waits
    BY DEF CommitsLists
  <2> QED BY <2>1 DEF Reserves
<1> HIDE DEF pending, counted, retires, waits, shown, Of
<1> DEFINE A == onces \cup retires
           B == A \cup waits
           C == B \cup pending
<1>9. /\ IsFiniteSet(A) /\ Cardinality(A) = Cardinality(onces) + Cardinality(retires) - Cardinality(onces \cap retires)
      /\ IsFiniteSet(onces \cap retires)
  BY <1>2, <1>3, FS_Union, FS_Subset
<1> HIDE DEF A
<1>10. /\ IsFiniteSet(B) /\ Cardinality(B) = Cardinality(A) + Cardinality(waits) - Cardinality(A \cap waits)
       /\ IsFiniteSet(A \cap waits)
  BY <1>3, <1>9, FS_Union, FS_Subset
<1> HIDE DEF B
<1>11. /\ IsFiniteSet(C) /\ Cardinality(C) = Cardinality(B) + Cardinality(pending) - Cardinality(B \cap pending)
       /\ IsFiniteSet(B \cap pending)
  BY <1>2, <1>10, FS_Union, FS_Subset
<1> HIDE DEF C
<1>12. Reserving' \subseteq C
  BY <1>8 DEF A, B, C
<1>13. IsFiniteSet(Reserving') /\ Cardinality(Reserving') <= Cardinality(C)
  BY <1>11, <1>12, FS_Subset
<1>14. /\ Cardinality(onces) \in Nat /\ Cardinality(retires) \in Nat /\ Cardinality(waits) \in Nat
       /\ Cardinality(pending) \in Nat /\ Cardinality(counted) \in Nat /\ Cardinality(Reserving') \in Nat
       /\ Cardinality(onces \cap retires) \in Nat /\ Cardinality(A \cap waits) \in Nat
       /\ Cardinality(B \cap pending) \in Nat
  BY <1>2, <1>3, <1>5, <1>9, <1>10, <1>11, <1>13, FS_CardinalityType
<1> QED BY <1>6, <1>7, <1>9, <1>10, <1>11, <1>13, <1>14, ProcessesAssumption

LEMMA CommitLines ==
  ASSUME ProcessInv, LinesInv, ProcessesCommit
  PROVE  LinesInv'
<1>1. /\ ProcessInv' /\ \E kept, made, retired, spawned : CommitsLists(kept, made, retired, spawned)
  BY CommitStep
<1>2. PICK kept, made, retired, spawned : CommitsLists(kept, made, retired, spawned)
  BY <1>1
<1>3. UNCHANGED <<onces, stage, round, ran>>
  BY DEF ProcessesCommit
<1>4. At("active")' = kept \cup made
  <2>1. kept \cup made \subseteq Jobs
    BY <1>2 DEF CommitsLists, At, Jobs
  <2> QED BY <1>2, <2>1 DEF CommitsLists, At
<1>5. line' \in Seq(Managed) /\ IsInjective(line') /\ ToSet(line') = kept \cup made
  <2> DEFINE s == SetToSeq(made)
             t == Only(line, kept)
             u == s \o t
  <2>1. IsFiniteSet(made) /\ made \subseteq Managed
    <3>1. made \in SUBSET Jobs /\ made \subseteq Managed
      BY <1>2 DEF CommitsLists, Jobs
    <3> QED BY <3>1, JobsFinite, FS_Subset
  <2>2. s \in Seq(made) /\ IsInjective(s) /\ ToSet(s) = made
    BY <2>1, SetToSeqIs
  <2>3. t \in Seq(Managed) /\ IsInjective(t) /\ ToSet(t) = At("active") \cap kept
    BY OnlyMembers DEF LinesInv
  <2>4. line' = u
    BY <1>2 DEF CommitsLists
  <2> HIDE DEF s, t
  <2>5. s \in Seq(Managed)
    BY <2>1, <2>2
  <2>6. ToSet(t) = kept /\ ToSet(s) \cap ToSet(t) = {}
    BY <1>2, <2>2, <2>3 DEF CommitsLists
  <2>7. u \in Seq(Managed) /\ ToSet(u) = ToSet(s) \cup ToSet(t) /\ IsInjective(u)
    BY <2>2, <2>3, <2>5, <2>6, JoinMembers
  <2> HIDE DEF u
  <2> QED BY <2>2, <2>4, <2>6, <2>7
<1>6. left' \in Seq(Managed) /\ ToSet(left') \subseteq kept
  <2>1. PICK S \in SUBSET kept : left' = Only(left, S)
    BY <1>2 DEF CommitsLists
  <2> DEFINE t == Only(left, S)
  <2>2. t \in Seq(Managed) /\ ToSet(t) = ToSet(left) \cap S
    BY OnlyMembers DEF LinesInv
  <2> HIDE DEF t
  <2> QED BY <2>1, <2>2 DEF t
<1>7. \A j \in Jobs : where'[j] = "active" /\ proc'[j].status = "waiting" => Is(j, "service")'
  <2> SUFFICES ASSUME NEW j \in Jobs, where'[j] = "active", proc'[j].status = "waiting"
               PROVE  Is(j, "service")'
    OBVIOUS
  <2>1. j \in kept
    BY <1>2 DEF CommitsLists
  <2>2. proc'[j].args = proc[j].args /\ proc[j].status = "waiting" /\ where[j] = "active"
    BY <1>2, <2>1 DEF CommitsLists, At
  <2> QED BY <2>2 DEF LinesInv, Is
<1>8. Cardinality(Reserving') <= MaxReserved
  BY <1>1, <1>2, <1>3, CommitCounts
<1> QED BY <1>3, <1>4, <1>5, <1>6, <1>7, <1>8 DEF LinesInv

LEMMA LinesStep ==
  ASSUME ProcessInv, OnceInv, LinesInv, [ProcessesNext]_procVars
  PROVE  LinesInv'
<1>1. CASE ProcessesCommit
  BY <1>1, CommitLines
<1>2. CASE LaunchSpawn
  BY <1>2, LaunchLines
<1>3. CASE ProcessesStart
  BY <1>3, PassStep, LinesStay DEF ProcessesStart, LinesInv
<1>4. CASE Serve
  BY <1>4, ServeLines
<1>5. CASE ProcessesYield \/ ProcessesStopDone \/ UNCHANGED procVars
  <2>1. UNCHANGED <<where, proc, onces, source, history>>
    BY <1>5 DEF ProcessesYield, ProcessesStopDone, procVars
  <2>2. ListsStay
    BY <2>1 DEF ListsStay
  <2>3. /\ line' = line /\ left' \in {left, line, <<>>} /\ round' = round /\ ran' = ran
        /\ stage' \in {"run", "stopping", "stopped", "failed"}
    BY <1>5 DEF ProcessesYield, ProcessesStopDone, procVars, LinesInv
  <2> QED BY <2>2, <2>3, LinesStay DEF LinesInv
<1>6. CASE ProcessesStop
  BY <1>6, StopLines
<1>7. CASE ProcessesStopRound
  <2>1. round' \in 0..LastRound /\ UNCHANGED <<line, left, stage, ran>>
    BY <1>7, ProcessesAssumption DEF ProcessesStopRound, LinesInv
  <2> QED BY <1>7, <2>1, RoundStep, LinesStay DEF LinesInv
<1>8. CASE \E j \in Jobs : ProcessExits(j) \/ ProcessForks(j) \/ RelativeExits(j) \/ SecondComes(j)
  <2>1. UNCHANGED <<line, left, stage, round, ran>>
    BY <1>8 DEF ProcessExits, ProcessForks, RelativeExits, SecondComes, Becomes
  <2> QED BY <1>8, <2>1, KernelStep, LinesStay DEF LinesInv
<1> QED BY <1>1, <1>2, <1>3, <1>4, <1>5, <1>6, <1>7, <1>8
        DEF ProcessesNext, ProcessesService, ProcessesShutdown

LEMMA ProcessesStartTyped == ProcessesInit => ProcessInv /\ OnceInv /\ LinesInv
<1> SUFFICES ASSUME ProcessesInit PROVE ProcessInv /\ OnceInv /\ LinesInv
  OBVIOUS
<1>1. \A j \in Jobs : where[j] = "none"
  BY DEF ProcessesInit
<1>2. Managed \subseteq Jobs /\ At("active") = {}
  BY <1>1 DEF Jobs, At
<1>3. history \in [Identities -> 0..source] /\ ran = {}
  BY DEF ProcessesInit
<1>4. OnceInv
  BY <1>1, <1>2, <1>3 DEF OnceInv, Awaits
<1>5. <<>> \in Seq(Managed) /\ ToSet(<<>>) = {} /\ IsInjective(<<>>)
  BY DEF ToSet, IsInjective
<1>6. Reserving = {}
  BY <1>1 DEF ProcessesInit, Reserving, Reserves
<1>7. Cardinality(Reserving) <= MaxReserved
  BY <1>6, FS_EmptySet, ProcessesAssumption
<1>8. LinesInv
  <2>1. line = <<>> /\ left = <<>> /\ stage = "run" /\ round = 0 /\ ran = {}
    BY DEF ProcessesInit
  <2>2. 0 \in 0..LastRound
    BY ProcessesAssumption
  <2> QED BY <1>1, <1>2, <1>5, <1>7, <2>1, <2>2 DEF LinesInv
<1> QED BY <1>4, <1>8, Initially

LEMMA ProcessesTyped == ProcessInv /\ LinesInv => ProcessesTypeOK
<1> SUFFICES ASSUME ProcessInv, LinesInv PROVE ProcessesTypeOK
  OBVIOUS
<1> DEFINE held == {j \in Jobs : proc[j].held}
<1>1. held \in SUBSET Reserving
  BY DEF Reserving, Reserves, ProcessInv, Owned
<1>2. IsFiniteSet(Reserving)
  BY JobsFinite, FS_Subset DEF Reserving
<1>3. Cardinality(held) <= Cardinality(Reserving) /\ IsFiniteSet(held)
  BY <1>1, <1>2, FS_Subset
<1>4. Cardinality(held) \in Nat /\ Cardinality(Reserving) \in Nat
  BY <1>2, <1>3, FS_CardinalityType
<1>5. Cardinality(held) <= MaxReserved
  BY <1>3, <1>4, ProcessesAssumption DEF LinesInv
<1> QED BY <1>5 DEF ProcessInv, Types, LinesInv, ProcessesTypeOK

\* The lists of the services name each timer, watch and job that they should once,
\* no pass serves more than its quota, and a commit that reserves processes by its
\* count never lets more be held than may be, whatever is declared, fails or forks.
THEOREM ServicesTyped == TimersSpec /\ WatchesSpec /\ ProcessesSpec => []ServicesTypeOK
<1>1. TimersSpec => []TimersTypeOK
  <2>1. TimersInit => TimersListed
    BY TimersStartTyped
  <2>2. TimersListed /\ [TimersNext]_timerVars => TimersListed'
    BY TimersTyped
  <2>3. TimersListed => TimersTypeOK
    BY DEF TimersListed
  <2> QED BY <2>1, <2>2, <2>3, PTL DEF TimersSpec
<1>2. WatchesSpec => []WatchesTypeOK
  <2>1. WatchesInit => WatchesTypeOK
    BY WatchesStartTyped
  <2>2. WatchesTypeOK /\ [WatchesNext]_watchVars => WatchesTypeOK'
    BY WatchesTyped
  <2> QED BY <2>1, <2>2, PTL DEF WatchesSpec
<1>3. ProcessesSpec => []ProcessesTypeOK
  <2>1. ProcessesInit => ProcessInv /\ OnceInv /\ LinesInv
    BY ProcessesStartTyped
  <2>2. ProcessInv /\ OnceInv /\ LinesInv /\ [ProcessesNext]_procVars
          => (ProcessInv /\ OnceInv /\ LinesInv)'
    BY Inductive, OnceStep, LinesStep
  <2>3. ProcessInv /\ OnceInv /\ LinesInv => ProcessesTypeOK
    BY ProcessesTyped
  <2> QED BY <2>1, <2>2, <2>3, PTL DEF ProcessesSpec
<1>4. TimersTypeOK /\ WatchesTypeOK /\ ProcessesTypeOK => ServicesTypeOK
  BY DEF ServicesTypeOK
<1> QED BY <1>1, <1>2, <1>3, <1>4, PTL
=============================================================================
