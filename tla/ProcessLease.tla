---------------------------- MODULE ProcessLease ----------------------------
(***************************************************************************)
(* A native process behind a lease: src/support/executions.c with          *)
(* kill-execution and release-execution, which the owned executions and    *)
(* the managed processes share.  Operations on the record of one lease.    *)
(***************************************************************************)
EXTENDS Integers

CONSTANT SignalsFail  \* whether sending a signal may fail (but for ESRCH)

ASSUME LeaseAssumption == SignalsFail \in BOOLEAN

\* The fields of a lease, in the records of those that hold one:
\* held:     process-lease-process is not nil (a native struct execution)
\* child:    the group's leader: none yet, alive, a zombie, or reaped by waitid
\* kin:      other members of the group, which hold the output pipes
\* kill_at:  nil, or whether that time has come: "future", "past"
\* stopped:  the group was sent SIGKILL
\* refused:  process-lease-stop-error, a signal that could not be sent
\* eof:      both pipes were read to their end, or closed by exec_stop

\* tomoe_exec_poll: waitid, then the status stays known.
exec_poll(r) == IF r.child = "zombie" THEN [r EXCEPT !.child = "reaped"] ELSE r

\* Slip: SIGKILL waits for the leader however long it ignores SIGTERM.
KillIsDue_Exited(r) == exec_poll(r).child = "reaped"

KillIsDue(r) == exec_poll(r).child = "reaped" \/ r.kill_at = "past"

\* kill-execution: SIGTERM once, and SIGKILL when the leader is gone or a
\* second has passed.  tomoe_exec_stop closes the pipes even when it fails.
kill_execution(r, ok) ==
  IF ~r.held \/ r.stopped THEN r
  ELSE LET p == exec_poll(r)
       IN CASE ~KillIsDue(r) /\ r.kill_at # "nil" -> p
            [] KillIsDue(r) -> [p EXCEPT !.eof = TRUE, !.refused = ~ok, !.stopped = ok]
            [] OTHER        -> [p EXCEPT !.eof = TRUE, !.refused = ~ok,
                                         !.kill_at = IF ok THEN "future" ELSE "nil"]

\* What kill_execution may be told by the kernel.
StopResults == IF SignalsFail THEN BOOLEAN ELSE {TRUE}

\* tomoe_exec_release refuses (EBUSY) a child that was not reaped.
release_execution(r) == [r EXCEPT !.held = FALSE]

\* The process: it exits, has relatives, and time passes.
Exited(r)   == [r EXCEPT !.child = "zombie"]
Forked(r)   == [r EXCEPT !.kin = TRUE]
Orphaned(r) == [r EXCEPT !.kin = FALSE]
MayFork(r)  == r.child = "alive" /\ ~r.kin /\ ~r.stopped
=============================================================================
