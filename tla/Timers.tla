------------------------------- MODULE Timers -------------------------------
(***************************************************************************)
(* Owned timers: src/timers.lisp.                                          *)
(*                                                                         *)
(* An extension declares timers by name, one-shot or repeating.  A commit  *)
(* installs the declared set: what is restated keeps its timer, with its   *)
(* deadline and whether it fired; what is new or changed is armed.  A      *)
(* service pass takes the timers that are due, earliest deadline first,    *)
(* and delivers each as an event, whose transaction may fail, or install   *)
(* another set.                                                            *)
(*                                                                         *)
(* Time is abstracted to the order in which deadlines pass: a timer armed  *)
(* now has its deadline after those that have passed, so `late' is the     *)
(* sort by deadline.  An owned-timer that is replaced leaves `late' and    *)
(* `due', where the code's `member' test would skip it.                    *)
(***************************************************************************)
EXTENDS Lists, SequencesExt

CONSTANTS
  Timers,       \* the names timers are declared by
  TimerQuota,   \* 64 events in a pass
  NoTimer       \* what is not declared

ASSUME TimersAssumption == TimerQuota \in Nat /\ NoTimer \notin {"once", "repeat"}

VARIABLES
  timer,   \* how each name is declared, and its owned-timer
  late,    \* the timers whose deadline has passed, by deadline
  due,     \* what is left of the current service-timers
  fires,   \* how many events this pass delivered
  shots    \* events delivered since a declaration was last changed

timerVars == <<timer, late, due, fires, shots>>

Kinds == {"once", "repeat"}

\* state: armed until its deadline, then due until its event, then fired.
TimerState == [kind : Kinds \cup {NoTimer}, state : {"armed", "due", "fired"}]

TimersTypeOK ==
  /\ timer \in [Timers -> TimerState]
  /\ late \in Seq(Timers) /\ IsInjective(late)
  /\ ToSet(late) = {t \in Timers : timer[t].state = "due"}
  /\ due \in Seq(Timers) /\ ToSet(due) \subseteq ToSet(late)
  /\ fires \in 0..TimerQuota
  /\ shots \in [Timers -> 0..2]
  /\ \A t \in Timers : timer[t].kind = "repeat" => timer[t].state # "fired"

NewTimer(kind) == [kind |-> kind, state |-> "armed"]

\* Slip: a timer that fired is not kept when it is declared again.
Keeps_Unfired(t, kind, reload) == ~reload /\ timer[t].kind = kind /\ timer[t].state # "fired"

\* prepare-timers: the same owner and equal arguments.  A reload makes every
\* owner another one.
Keeps(t, kind, reload) == ~reload /\ timer[t].kind = kind

\* Once its event is consumed a timer that repeats, and is still declared, is
\* armed again; a one-shot's record stays, fired.
Consumed(t) ==
  [timer[t] EXCEPT !.state = IF timer[t].kind = "repeat" THEN "armed" ELSE "fired"]

Counted(t) == IF timer[t].kind = "once" /\ shots[t] < 2 THEN shots[t] + 1 ELSE shots[t]

\* prepare-timers and install-timers at a commit, by the transaction of the
\* timers in `told' if there are any.
install_timers(told) ==
  \E kind \in [Timers -> Kinds \cup {NoTimer}], reload \in BOOLEAN :
    LET kept == {t \in Timers : Keeps(t, kind[t], reload)}
    IN /\ timer' = [t \in Timers |-> CASE t \in kept \cap told -> Consumed(t)
                                      [] t \in kept \ told -> timer[t]
                                      [] OTHER -> NewTimer(kind[t])]
       /\ late' = Only(late, kept \ told)
       /\ due' = Only(due, kept \ told)
       /\ shots' = [t \in Timers |->
                      CASE reload \/ kind[t] # timer[t].kind -> 0
                        [] ~reload /\ kind[t] = timer[t].kind /\ t \in told -> Counted(t)
                        [] OTHER -> shots[t]]

\* Any other transaction that commits.
TimersCommit == install_timers({}) /\ UNCHANGED fires

\* A deadline passes.
DeadlineComes(t) ==
  /\ timer[t].kind # NoTimer /\ timer[t].state = "armed"
  /\ timer' = [timer EXCEPT ![t].state = "due"]
  /\ late' = Append(late, t)
  /\ UNCHANGED <<due, fires, shots>>

\* Slip: the due timers are taken in the order of their declaration.
ByDeadline_Unsorted(order) == SetToSeq(ToSet(order))

ByDeadline(order) == order

\* service-timers: the timers that are due now.
TimersStart ==
  /\ due = <<>>
  /\ due' = ByDeadline(late)
  /\ fires' = 0
  /\ UNCHANGED <<timer, late, shots>>

\* The timer is fired before its event, whose transaction commits or fails; the
\* event is not repeated.
Fire ==
  /\ due # <<>> /\ fires < TimerQuota
  /\ \E t \in Timers :
       /\ t = Head(due) /\ timer[t].state = "due"
       /\ \/ install_timers({t})
          \/ /\ timer' = [timer EXCEPT ![t] = Consumed(t)]
             /\ late' = Only(late, Timers \ {t})
             /\ due' = Tail(due)
             /\ shots' = [shots EXCEPT ![t] = Counted(t)]
  /\ fires' = fires + 1

\* The quota is used up, or 8 ms after the first event have passed.
TimersYield ==
  /\ due # <<>> /\ fires > 0
  /\ due' = <<>>
  /\ UNCHANGED <<timer, late, fires, shots>>

TimersInit ==
  /\ timer = [t \in Timers |-> NewTimer(NoTimer)]
  /\ late = <<>> /\ due = <<>> /\ fires = 0
  /\ shots = [t \in Timers |-> 0]

\* What the main loop does in every turn.
TimersService == TimersStart \/ Fire \/ TimersYield

TimersNext == TimersCommit \/ TimersService \/ \E t \in Timers : DeadlineComes(t)

TimersSpec == TimersInit /\ [][TimersNext]_timerVars

-----------------------------------------------------------------------------
(* Properties. *)

\* A one-shot's event is delivered once, however many commits restate its
\* declaration afterwards.
OneShotFiresOnce == \A t \in Timers : timer[t].kind = "once" => shots[t] <= 1

\* A timer whose deadline has passed is delivered or withdrawn, however short
\* the periods of the others are and however few fit into a pass.
DueIsDelivered == \A t \in Timers : timer[t].state = "due" ~> timer[t].state # "due"
=============================================================================
