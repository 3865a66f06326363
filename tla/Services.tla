------------------------------ MODULE Services ------------------------------
(***************************************************************************)
(* The services of the main loop that are proved about, side by side.      *)
(***************************************************************************)
EXTENDS Timers, FileWatches, ManagedProcesses, Battery

\* The services have states of their types: no pass serves more than its quota, the
\* lists name what is declared, each once, and no more processes are held than may be.
ServicesTypeOK == TimersTypeOK /\ WatchesTypeOK /\ ProcessesTypeOK
=============================================================================
