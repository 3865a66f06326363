-------------------------- MODULE ManagedProcesses --------------------------
(***************************************************************************)
(* Services, one-shots and session launches: src/processes.lisp over       *)
(* support/executions.c.                                                   *)
(*                                                                         *)
(* A declared service runs while it is declared, and is started again when *)
(* it exits; a one-shot is started once in a session or in a version of    *)
(* its source, and outlives its declaration, as what a :spawn command      *)
(* starts does.  A commit keeps the jobs that are restated, retires the    *)
(* services that are not, and reserves a process for each job it adds; a   *)
(* later pass starts, reaps and restarts them.                             *)
(***************************************************************************)
EXTENDS ProcessLease, Lists, FiniteSets, SequencesExt

CONSTANTS
  Identities,   \* (source, extension, name) of a declaration
  Supply,       \* bounds a run: jobs of one identity at a time
  Spawns,       \* bounds a run: launches of :spawn commands at a time
  Restarts,     \* subset of "never", "on-failure", "on-exit"
  Reloads,      \* subset of "keep", "always"
  Runs,         \* subset of "session", "version"
  MaxReserved,  \* 128 processes, running or reserved
  MaxSource,    \* bounds a run: how often the source is loaded
  LateRound,    \* the round of stop-managed-processes a second after SIGTERM
  LastRound,    \* 200
  NoProcess     \* what is not declared

ASSUME ProcessesAssumption ==
  /\ MaxReserved \in Nat /\ MaxSource \in Nat \ {0}
  /\ IsFiniteSet(Identities) /\ IsFiniteSet(Spawns) /\ Supply \in Nat
  /\ LateRound \in Nat /\ LastRound \in Nat
  /\ (Identities \X (1..Supply)) \cap Spawns = {}
  /\ NoProcess \notin [kind : {"service"}, restart : Restarts, reload : Reloads]
  /\ NoProcess \notin [kind : {"once"}, run : Runs] \cup {[kind |-> "session"]}

VARIABLES
  where,    \* the list of the runtime a job is in
  proc,     \* the managed-process and the process of its lease
  onces,    \* runtime-once-processes: the jobs whose lease is in it
  history,  \* runtime-process-history: the source that launched a one-shot
  source,   \* the version of the source
  line,     \* runtime-managed-processes, by turn
  left,     \* what is left of the current service-managed-processes
  stage,    \* "run", "stopping", "stopped" or "failed"
  round,    \* the rounds stop-managed-processes has made
  ran       \* the one-shots that were launched, and by which source

procVars == <<where, proc, onces, history, source, line, left, stage, round, ran>>

Managed == Identities \X (1..Supply)
Jobs    == Managed \cup Spawns

Services  == [kind : {"service"}, restart : Restarts, reload : Reloads]
OneShots  == [kind : {"once"}, run : Runs]
Session   == [kind |-> "session"]
Arguments == Services \cup OneShots \cup {Session, NoProcess}

Statuses == {"pending", "running", "waiting", "stopped", "spawn-error", "launched",
             "recorded", "cancelled"}

ProcessState ==
  [args : Arguments, source : 0..MaxSource, status : Statuses, deadline : {"past", "future"},
   held : BOOLEAN, child : {"none", "alive", "zombie", "reaped"}, kin : BOOLEAN,
   stopped : BOOLEAN, refused : BOOLEAN, kill_at : {"nil", "future", "past"}, eof : BOOLEAN]

NewProcess(args, version, status) ==
  [args |-> args, source |-> version, status |-> status, deadline |-> "past",
   held |-> FALSE, child |-> "none", kin |-> FALSE, stopped |-> FALSE, refused |-> FALSE,
   kill_at |-> "nil", eof |-> TRUE]

Unmade == NewProcess(NoProcess, 0, "pending")

At(p)   == {j \in Jobs : where[j] = p}
Is(j, kind) == proc[j].args # NoProcess /\ proc[j].args.kind = kind

\* Some process of the group was neither reaped nor sent SIGKILL.
GroupAlive(r) == r.child \in {"alive", "zombie"} \/ (r.kin /\ ~r.stopped)

ProcessesTypeOK ==
  /\ where \in [Jobs -> {"none", "active", "retired", "reserved"}]
  /\ proc \in [Jobs -> ProcessState]
  /\ onces \in SUBSET Jobs
  /\ history \in [Identities -> 0..MaxSource]
  /\ source \in 1..MaxSource
  /\ line \in Seq(Managed) /\ IsInjective(line) /\ ToSet(line) = At("active")
  /\ left \in Seq(Managed) /\ ToSet(left) \subseteq At("active")
  /\ stage \in {"run", "stopping", "stopped", "failed"}
  /\ round \in 0..LastRound
  /\ ran \in SUBSET (Identities \X (1..MaxSource))
  /\ Cardinality({j \in Jobs : proc[j].held}) <= MaxReserved

-----------------------------------------------------------------------------
(* prepare-managed-processes, prepare-session-spawns and their commit. *)

\* process-due-p
Due(i, args, version) ==
  history[i] = 0 \/ (args.run = "version" /\ history[i] # version)

\* The job of identity i that is declared, or a new one.
Old(i)   == {j \in At("active") : j[1] = i}
Fresh(i) == CHOOSE j \in Managed : j[1] = i /\ proc[j] = Unmade

HasRoom(i) == \E j \in Managed : j[1] = i /\ proc[j] = Unmade

KeepsJob(j, args, version) ==
  LET same_source == proc[j].source = version
  IN /\ proc[j].args = args
     /\ CASE args.kind = "once"    -> \/ ~Due(j[1], args, version)
                                      \/ same_source /\ proc[j].status # "spawn-error"
          [] args.kind = "service" -> \/ same_source
                                      \/ /\ args.reload = "keep"
                                         /\ proc[j].status \in {"running", "waiting"}

\* Slip: what a withdrawn one-shot has done is forgotten.
Remembered_Declared(declared) ==
  [i \in Identities |-> IF declared[i] = NoProcess THEN 0 ELSE history[i]]

Remembered(declared) == history

\* Slip: a one-shot that waits to be started is not counted.
reservations_OneShotsFree(active, retired, waiting) ==
  Cardinality(onces) + Cardinality(retired) + Cardinality(waiting)
  + Cardinality({r \in active : r.args.kind = "service"})

\* managed-process-reservations; `active' holds one pair for each job.
reservations(active, retired, waiting) ==
  Cardinality(onces) + Cardinality(retired) + Cardinality(waiting)
  + Cardinality({r \in active : r.args.kind = "service" \/ r.status = "pending"})

\* A process is forgotten with its job, once nothing is left of its group.
Forgotten(r) == IF r.held \/ GroupAlive(r) THEN r ELSE Unmade

\* A retired job is cancelled: its process is told to stop.
Cancelled(r, ok) == kill_execution([r EXCEPT !.status = "cancelled"], ok)

\* A reload makes every owner another one: what is kept is copied to it, and
\* so leaves the pass.
install_managed_processes(declared, version, spawned, ok) ==
  LET kept    == {j \in At("active") : declared[j[1]] # NoProcess /\ KeepsJob(j, declared[j[1]], version)}
      added   == {i \in Identities : declared[i] # NoProcess /\ Old(i) \cap kept = {}}
      fresh   == {Fresh(i) : i \in added}
      retired == {j \in At("active") \ kept : ~Is(j, "once") /\ proc[j].held}
      New(j)  == LET args == declared[j[1]]
                 IN NewProcess(args, version,
                               IF args.kind = "once" /\ ~Due(j[1], args, version)
                               THEN "recorded" ELSE "pending")
      active  == {[job |-> j, args |-> proc[j].args, status |-> proc[j].status] : j \in kept}
                 \cup {[job |-> j, args |-> New(j).args, status |-> New(j).status] : j \in fresh}
  IN /\ \A i \in added : HasRoom(i)
     /\ reservations(active, retired \cup At("retired"), spawned \cup At("reserved")) <= MaxReserved
     /\ where' = [j \in Jobs |-> CASE j \in kept \cup fresh -> "active"
                                   [] j \in retired -> "retired"
                                   [] j \in spawned -> "reserved"
                                   [] j \in At("active") \ (kept \cup retired) -> "none"
                                   [] OTHER -> where[j]]
     /\ proc' = [j \in Jobs |-> CASE j \in fresh -> New(j)
                                  [] j \in kept -> [proc[j] EXCEPT !.source = version]
                                  [] j \in retired -> Cancelled(proc[j], ok)
                                  [] j \in spawned -> NewProcess(Session, version, "pending")
                                  [] j \in At("active") \ (kept \cup retired) ->
                                       IF j \in onces THEN proc[j] ELSE Forgotten(proc[j])
                                  [] OTHER -> proc[j]]
     /\ line' = SetToSeq(fresh) \o Only(line, kept)
     /\ left' = Only(left, {j \in kept : proc[j].source = version})
     /\ history' = Remembered(declared)
     /\ source' = version

\* A transaction that commits: between two turns of the pass, or nested in one
\* whose :reload command precedes its :spawn commands.
ProcessesCommit ==
  /\ stage = "run"
  /\ \E declared \in [Identities -> Services \cup OneShots \cup {NoProcess}],
        version \in {source, source + 1} \cap 1..MaxSource, ok \in StopResults :
       \E spawned \in SUBSET {j \in Spawns : proc[j] = Unmade} :
         install_managed_processes(declared, version, spawned, ok)
  /\ UNCHANGED <<onces, stage, round, ran>>

-----------------------------------------------------------------------------
(* start-managed-process and service-managed-processes. *)

Started(r) ==
  [r EXCEPT !.held = TRUE, !.child = "alive", !.kin = FALSE, !.stopped = FALSE,
            !.refused = FALSE, !.kill_at = "nil", !.deadline = "future",
            !.status = IF r.args.kind = "service" THEN "running" ELSE "launched"]

\* The process is started, with an activation token for a :spawn command, or it
\* is not.  A one-shot is recorded and its lease listed; r is the job so far.
start_managed_process(j, r) ==
  \/ /\ proc' = [proc EXCEPT ![j] = Started(r)]
     /\ onces' = IF r.args.kind = "service" THEN onces ELSE onces \cup {j}
     /\ IF r.args.kind = "once"
        THEN /\ history' = [history EXCEPT ![j[1]] = r.source]
             /\ ran' = ran \cup {<<j[1], r.source>>}
        ELSE UNCHANGED <<history, ran>>
  \/ /\ proc' = [proc EXCEPT ![j] = IF r.args.kind = "session" THEN Forgotten(r)
                                    ELSE [r EXCEPT !.status = "spawn-error"]]
     /\ UNCHANGED <<onces, history, ran>>

\* execute-command for a :spawn that its transaction has reserved.
LaunchSpawn ==
  /\ stage = "run"
  /\ \E j \in At("reserved") :
       /\ start_managed_process(j, proc[j])
       /\ where' = [where EXCEPT ![j] = "none"]
  /\ UNCHANGED <<source, line, left, stage, round>>

\* reap-process-lease: over once the leader was reaped and the group killed.
reap_process_lease(r, cancel, ok) ==
  LET polled == exec_poll(IF cancel THEN kill_execution(r, ok) ELSE r)
      killed == IF polled.child = "reaped" THEN kill_execution(polled, ok) ELSE polled
  IN IF killed.child = "reaped" /\ killed.stopped THEN release_execution(killed) ELSE killed

\* Slip: the lease of a one-shot ends with its leader.
reap_once_Leader(r, ok) ==
  IF r.stopped THEN reap_process_lease(r, TRUE, ok)
  ELSE LET polled == exec_poll(r)
       IN IF polled.child = "reaped" THEN release_execution(polled) ELSE polled

\* A lease of a one-shot lasts while there is anyone in its group.
reap_once(r, ok) ==
  IF r.stopped THEN reap_process_lease(r, TRUE, ok)
  ELSE LET polled == exec_poll(r)
       IN IF polled.child = "reaped" /\ ~polled.kin THEN release_execution(polled) ELSE polled

\* reap-managed-processes, where r is what each process has come to.
reap_managed_processes(r, ok) ==
  LET reaped == [j \in Jobs |-> CASE where[j] = "retired" -> reap_process_lease(r[j], TRUE, ok)
                                  [] j \in onces -> reap_once(r[j], ok)
                                  [] OTHER -> r[j]]
      over == {j \in At("retired") \cup onces : ~reaped[j].held}
  IN /\ where' = [j \in Jobs |-> IF j \in over \cap At("retired") THEN "none" ELSE where[j]]
     /\ onces' = onces \ over
     /\ proc' = [j \in Jobs |-> IF j \in over \ At("active") THEN Forgotten(reaped[j]) ELSE reaped[j]]

ProcessesStart ==
  /\ stage = "run" /\ left = <<>> /\ At("reserved") = {}
  /\ \E ok \in StopResults : reap_managed_processes(proc, ok)
  /\ left' = line
  /\ UNCHANGED <<history, source, line, stage, round, ran>>

\* Slip: a service does not wait for the process it replaces.
FencedProcess_Never(j) == FALSE

FencedProcess(j) == \E k \in At("retired") : k[1] = j[1]

Ready(j) ==
  /\ where[j] = "active"
  /\ proc[j].status \in {"pending", "running", "waiting"}
  /\ proc[j].deadline = "past"
  /\ proc[j].held \/ ~FencedProcess(j)

Again(r, failed) == r.args.restart = "on-exit" \/ (r.args.restart = "on-failure" /\ failed)

\* What a running service has come to; not over, it is looked at in a second.
Looked(r, failed, ok) ==
  LET reaped == reap_process_lease(r, FALSE, ok)
  IN IF reaped.held THEN [reaped EXCEPT !.deadline = "future"]
     ELSE [reaped EXCEPT !.status = IF Again(r, failed) THEN "waiting" ELSE "stopped"]

Serve ==
  /\ stage = "run" /\ left # <<>> /\ At("reserved") = {}
  /\ \E j \in Managed :
       /\ j = Head(left)
       /\ IF ~Ready(j) THEN UNCHANGED <<proc, onces, history, line, ran>>
          ELSE /\ \E failed \in BOOLEAN, ok \in StopResults :
                    LET r == IF proc[j].status = "running" THEN Looked(proc[j], failed, ok)
                             ELSE proc[j]
                    IN IF r.status \in {"pending", "waiting"} /\ ~FencedProcess(j)
                       THEN start_managed_process(j, r)
                       ELSE /\ proc' = [proc EXCEPT ![j] = r]
                            /\ UNCHANGED <<onces, history, ran>>
               /\ line' = Append(Only(line, Managed \ {j}), j)
  /\ left' = Tail(left)
  /\ UNCHANGED <<where, source, stage, round>>

\* 8 ms have passed (in the code never before the first job was served).
ProcessesYield ==
  /\ stage = "run" /\ left # <<>> /\ At("reserved") = {}
  /\ left' = <<>>
  /\ UNCHANGED <<where, proc, onces, history, source, line, stage, round, ran>>

-----------------------------------------------------------------------------
(* stop-managed-processes, when the main loop has ended. *)

ProcessesStop ==
  /\ stage = "run"
  /\ LET retired == {j \in At("active") : ~Is(j, "once") /\ proc[j].held}
     IN /\ where' = [j \in Jobs |-> CASE j \in retired -> "retired"
                                      [] j \in (At("active") \ retired) \cup At("reserved") -> "none"
                                      [] OTHER -> where[j]]
        /\ \E ok \in StopResults :
             proc' = [j \in Jobs |->
                        CASE j \in retired -> Cancelled(proc[j], ok)
                          [] j \in onces -> kill_execution(proc[j], ok)
                          [] j \in (At("active") \cup At("reserved")) \ (retired \cup onces) -> Forgotten(proc[j])
                          [] OTHER -> proc[j]]
  /\ history' = [i \in Identities |-> 0]
  /\ line' = <<>> /\ left' = <<>>
  /\ stage' = "stopping"
  /\ UNCHANGED <<onces, source, round, ran>>

\* A round kills and reaps; by LateRound a second has passed.
ProcessesStopRound ==
  /\ stage = "stopping" /\ At("retired") \cup onces # {} /\ round < LastRound
  /\ \E ok \in StopResults :
       LET late == [j \in Jobs |-> IF round >= LateRound /\ proc[j].kill_at = "future"
                                   THEN [proc[j] EXCEPT !.kill_at = "past"] ELSE proc[j]]
       IN reap_managed_processes([j \in Jobs |-> IF j \in onces THEN kill_execution(late[j], ok)
                                                 ELSE late[j]], ok)
  /\ round' = round + 1
  /\ UNCHANGED <<history, source, line, left, stage, ran>>

ProcessesStopDone ==
  /\ stage = "stopping"
  /\ At("retired") \cup onces = {} \/ round = LastRound
  /\ stage' = IF At("retired") \cup onces = {} THEN "stopped" ELSE "failed"
  /\ UNCHANGED <<where, proc, onces, history, source, line, left, round, ran>>

-----------------------------------------------------------------------------
(* The kernel and the clock. *)

Becomes(j, r) ==
  /\ proc' = [proc EXCEPT ![j] = r]
  /\ UNCHANGED <<where, onces, history, source, line, left, stage, round, ran>>

ProcessExits(j)   == proc[j].child = "alive" /\ Becomes(j, Exited(proc[j]))
ProcessForks(j)   == MayFork(proc[j]) /\ Becomes(j, Forked(proc[j]))
RelativeExits(j)  == proc[j].kin /\ Becomes(j, Orphaned(proc[j]))

SecondComes(j) ==
  \/ proc[j].deadline = "future" /\ proc[j].status = "running" /\ stage = "run"
     /\ Becomes(j, [proc[j] EXCEPT !.deadline = "past"])
  \/ proc[j].held /\ ~proc[j].stopped /\ proc[j].kill_at = "future" /\ stage \in {"run", "stopping"}
     /\ Becomes(j, [proc[j] EXCEPT !.kill_at = "past"])

ProcessesInit ==
  /\ where = [j \in Jobs |-> "none"]
  /\ proc = [j \in Jobs |-> Unmade]
  /\ onces = {} /\ line = <<>> /\ left = <<>>
  /\ history = [i \in Identities |-> 0] /\ ran = {}
  /\ source = 1 /\ stage = "run" /\ round = 0

\* What the main loop does in every turn, and when it has ended.
ProcessesService  == ProcessesStart \/ Serve \/ ProcessesYield
ProcessesShutdown == ProcessesStopRound \/ ProcessesStopDone

ProcessesNext ==
  \/ ProcessesCommit \/ LaunchSpawn \/ ProcessesService
  \/ ProcessesStop \/ ProcessesShutdown
  \/ \E j \in Jobs : ProcessExits(j) \/ ProcessForks(j) \/ RelativeExits(j) \/ SecondComes(j)

ProcessesSpec == ProcessesInit /\ [][ProcessesNext]_procVars

-----------------------------------------------------------------------------
(* Properties. *)

\* Two processes of one declared service are never alive together, whatever is
\* changed, reloaded, withdrawn and declared again while the old one ignores
\* SIGTERM or leaves relatives.
OneProcessPerService ==
  \A j, k \in Managed :
    j[1] = k[1] /\ Is(j, "service") /\ Is(k, "service")
      /\ GroupAlive(proc[j]) /\ GroupAlive(proc[k]) => j = k

\* Every group that is alive is owned: by a declared service, or one that is
\* retired, or by the list of one-shots; so none is left after shutdown.
LeasesCoverGroups ==
  \A j \in Jobs :
    GroupAlive(proc[j]) =>
      /\ proc[j].held
      /\ where[j] = "retired" \/ j \in onces \/ (where[j] = "active" /\ Is(j, "service"))

\* A one-shot is launched once in a session, or once by a version of its
\* source, however often it is withdrawn, declared again, changed or reloaded.
OneShotsRunOnce ==
  [][\A j \in Managed :
       Is(j, "once") /\ ~proc[j].held /\ proc'[j].held =>
         /\ <<j[1], proc[j].source>> \notin ran
         /\ proc[j].args.run = "session" => \A n \in 1..MaxSource : <<j[1], n>> \notin ran]_procVars
=============================================================================
