---------------------------- MODULE Transactions ----------------------------
(***************************************************************************)
(* The policy transaction: transact, materialize, commit-context and the   *)
(* recovery of dispatch-event (src/runtime.lisp), with the rule instances  *)
(* of src/rules.lisp.                                                      *)
(*                                                                         *)
(* An extension is a function from a snapshot of the context keys it       *)
(* declares to effects and commands; here it may return anything.  The     *)
(* context is a function of the windows and of every extension's effects.  *)
(* Something happens, those it concerns are invoked, their effects change  *)
(* the context, those who read what changed are invoked, round after round *)
(* until nothing changes: then the candidate is committed and its commands *)
(* run.  A failure discards the candidate.  Each stage of a round, whose   *)
(* callbacks all see one context, is one step.                             *)
(***************************************************************************)
EXTENDS Integers, Sequences, Functions, TLC

CONSTANTS
  Roots,       \* extensions
  Admission,   \* those declared with :admission, in the order of the mounts
  Reads,       \* the context keys each extension declares
  Writes,      \* the key its effect contributes to
  RuleOwners,  \* the extensions that may declare a window rule
  RuleReads,   \* what the rule's application declares
  Windows,
  Says,        \* the answers an extension, or a rule's application, may give
  Armed,       \* the extensions that have timers or commands of their own
  Rounds,      \* 16
  None

Keys == {"windows", "rules", "layout", "window-geometry", "data", "key"}

ASSUME TransactionAssumption ==
  /\ Admission \in Seq(Roots)
  /\ Reads \in [Roots -> SUBSET Keys]
  /\ Writes \in [Roots -> {"layout", "data"}]
  /\ RuleReads \subseteq Keys
  /\ Armed \subseteq Roots \cup (RuleOwners \X Windows)
  /\ Rounds \in Nat \ {0}
  /\ DOMAIN Says = Roots \cup {"rule"}
  /\ \A s \in DOMAIN Says : Says[s] \subseteq
       [value : Nat, rule : BOOLEAN, command : BOOLEAN]
  /\ \A s \in DOMAIN Says : s \notin RuleOwners => \A a \in Says[s] : ~a.rule
  /\ Roots \cap (RuleOwners \X Windows) = {}
  /\ None \notin Nat

VARIABLES
  windows,    \* runtime-windows
  mounts,     \* runtime-mounts
  effective,  \* runtime-effective
  pending,    \* runtime-pending-context
  tx,         \* the transaction in progress, None if there is none
  ran,        \* the scopes whose commands the last transaction ran
  repaired    \* whether dispatch-event has recovered from a failure so far

vars == <<windows, mounts, effective, pending, tx, ran, repaired>>

\* A rule instance: one declaring extension, one window.
Kids  == RuleOwners \X Windows
Scopes == Roots \cup Kids

Admitted(s) == s \in Range(Admission) \/ (s \in Kids /\ s[1] \in Range(Admission))

\* The mounted extensions and the rule instances, with what each last returned.
\* `view' is what an extension's last accepted invocation was shown.
Nobody == [root |-> <<>>, kid |-> <<>>]

Mounted(m) == DOMAIN m.root
Instances(m) == DOMAIN m.kid
Present(m) == Mounted(m) \cup Instances(m)

Declares(m, e) == e \in Mounted(m) /\ m.root[e].rule

-----------------------------------------------------------------------------
(* The context. *)

\* The instances there should be: one for each declared rule and each window
\* it matches, here any.
Matching(wins, m) == {k \in Kids : Declares(m, k[1]) /\ k[2] \in wins}

\* prune-rule-mounts: an instance needs its parent, its rule and its window.
prune(wins, m) ==
  [m EXCEPT !.kid = Restrict(@, Instances(m) \cap Matching(wins, m))]

\* What the effects contribute to a key; a rule's application contributes data.
Contributions(m, key) ==
  {<<e, m.root[e].value>> : e \in {r \in Mounted(m) : Writes[r] = key}}
  \cup {<<k, m.kid[k].value>> : k \in {i \in Instances(m) : key = "data"}}

\* Instances that have lost their window or their rule contribute nothing.
materialize(wins, m) ==
  LET live == prune(wins, m)
  IN [key \in Keys |->
        CASE key = "windows" -> wins
          [] key = "rules"   -> Instances(live)
          [] key = "data"    -> Contributions(live, "data")
          [] key \in {"layout", "window-geometry"} -> <<wins, Contributions(live, "layout")>>
          [] key = "key"     -> "event"]

changed_keys(before, after) == {key \in Keys : before[key] # after[key]}

NewKid == [value |-> None, pending |-> TRUE]

\* reconcile-rule-mounts makes those there should be.
reconcile(wins, m) ==
  [m EXCEPT !.kid = [k \in Matching(wins, m) |->
                       IF k \in Instances(m) THEN m.kid[k] ELSE NewKid]]

\* The names it reports: new instances, and those whose declaration was
\* replaced because their parent has just been invoked.
Revised(before, after, invoked) ==
  {k \in Instances(after) : k \notin Instances(before) \/ k[1] \in invoked}

-----------------------------------------------------------------------------
(* transact. *)

\* Slip: what earlier transactions left pending is not taken up.
InitialDirty_Now(pend, changed, context) == changed \cup changed_keys(effective, context)

InitialDirty(pend, changed, context) ==
  pend \cup changed \cup changed_keys(effective, context)

\* `asked' holds the admission scopes whose last invocation returned a command.
\* `by': dispatch-event recovers from a failure; a service reports it, as does
\* a control request.
Begin(by, wins, m, pend, event, changed, force) ==
  LET candidate == prune(wins, m)
      context == materialize(wins, candidate)
  IN [by |-> by, mounts |-> candidate, context |-> context, before |-> context,
      dirty |-> InitialDirty(pend, changed, context), forced |-> force,
      initial |-> [event |-> event, force |-> force], event |-> event,
      stage |-> "roots", round |-> 0, invoked |-> {}, revised |-> {}, todo |-> <<>>,
      proposals |-> <<>>, commands |-> {}, asked |-> {}]

\* The view an invocation is given.
View(context, reads) == [key \in reads |-> context[key]]

\* The events that reach only their owner.
Private == {"timer"}

MayCommand(s, event) == event \in {"key", "timer"} \/ (s \in Kids /\ event = "mount")

Outcomes(s) == IF s \in Kids THEN Says["rule"] ELSE Says[s]

\* The answers extensions may give to these deliveries.
Answers(delivered) ==
  {answer \in [DOMAIN delivered -> UNION {Outcomes(s) : s \in DOMAIN delivered}] :
     \A s \in DOMAIN delivered :
       /\ answer[s] \in Outcomes(s)
       /\ answer[s].command => MayCommand(s, delivered[s])}

\* Slip: the command of an earlier proposal stays.
Commands_Kept(commands, answer) ==
  commands \cup {s \in DOMAIN answer : answer[s].command}

\* An admission scope proposes anew each time, its earlier commands are void.
Commands(commands, answer) ==
  {s \in commands : ~(s \in DOMAIN answer /\ Admitted(s))}
  \cup {s \in DOMAIN answer : answer[s].command}

\* A proposal is always made for the event that was delivered first.
Delivery(t, s, event) ==
  IF s \in DOMAIN t.proposals THEN t.proposals[s] ELSE event

\* The part of its view that is kept, for ViewsAreCurrent.
Recorded(e) == IF e \in Range(Admission) THEN {} ELSE Reads[e] \ {"key"}

\* Invoke the scopes `delivered' has events for, all with the same context.
Invoke(t, delivered, answer) ==
  [t EXCEPT
     !.mounts = [root |-> [e \in Mounted(t.mounts) |->
                    IF e \in DOMAIN answer
                    THEN [value |-> answer[e].value, rule |-> answer[e].rule,
                          view |-> View(t.context, Recorded(e))]
                    ELSE t.mounts.root[e]],
                 kid |-> [k \in Instances(t.mounts) |->
                    IF k \in DOMAIN answer
                    THEN [value |-> answer[k].value, pending |-> FALSE]
                    ELSE t.mounts.kid[k]]],
     !.commands = Commands(t.commands, answer),
     !.asked = {s \in @ : s \notin DOMAIN answer}
               \cup {s \in DOMAIN answer : Admitted(s) /\ answer[s].command},
     !.proposals = Restrict(delivered, {s \in DOMAIN delivered : Admitted(s)}) @@ @]

\* Reconcile the rules after `invoked' were invoked.  A scope that is gone takes
\* its commands along: the commit looks each one's owner up.
Reconciled(t, invoked) ==
  LET m == reconcile(windows, t.mounts)
      gone == Instances(t.mounts) \ Instances(m)
  IN [t EXCEPT !.mounts = m, !.context = materialize(windows, m),
               !.revised = Revised(t.mounts, m, invoked),
               !.commands = t.commands \ gone,
               !.proposals = Restrict(@, DOMAIN @ \ gone)]

DueRoots(t) ==
  {e \in Mounted(t.mounts) \ Range(Admission) :
     e \in t.forced \/ t.dirty \cap Reads[e] # {}}

\* The first loop of a round: every root but the admission ones.
InvokeRoots ==
  /\ tx # None /\ tx.stage = "roots"
  /\ LET due == DueRoots(tx)
         delivered == [e \in due |-> IF tx.event \in Private /\ e \notin tx.forced
                                     THEN "change" ELSE tx.event]
     IN \E answer \in Answers(delivered) :
          tx' = [Reconciled(Invoke(tx, delivered, answer), due)
                   EXCEPT !.stage = "kids", !.invoked = due]
  /\ UNCHANGED <<windows, mounts, effective, pending, ran, repaired>>

DueKids(t) ==
  LET childDirty == t.dirty \cup changed_keys(t.before, t.context)
  IN {k \in Instances(t.mounts) :
        \/ t.mounts.kid[k].pending
        \/ k \in t.forced \cup t.revised
        \/ k[1] \in t.invoked
        \/ childDirty \cap (RuleReads \cup {"windows", "rules"}) # {}}

\* The second loop: rule instances.  Keys are bound by roots here.
InvokeKids ==
  /\ tx # None /\ tx.stage = "kids"
  /\ LET due == DueKids(tx)
         event(k) == CASE tx.mounts.kid[k].pending -> "mount"
                       [] ~tx.mounts.kid[k].pending /\ (tx.event = "key" \/
                            (tx.event \in Private /\ k \notin tx.forced)) -> "change"
                       [] OTHER -> tx.event
         delivered == [k \in due |-> Delivery(tx, k, event(k))]
     IN \E answer \in Answers(delivered) :
          LET t == Reconciled(Invoke(tx, delivered, answer), {})
          IN tx' = [t
                   EXCEPT !.stage = "admission", !.forced = t.revised,
                          !.todo = Admission, !.invoked = {}]
  /\ UNCHANGED <<windows, mounts, effective, pending, ran, repaired>>

IsDueAdmission(t, e) ==
  /\ e \in Mounted(t.mounts)
  /\ \/ t.round = 0 /\ e \in t.initial.force
     \/ (t.dirty \cup changed_keys(t.before, t.context)) \cap Reads[e] # {}

\* The third loop, one admission root at a time: each sees what the others did.
InvokeAdmission ==
  /\ tx # None /\ tx.stage = "admission" /\ tx.todo # <<>>
  /\ LET e == Head(tx.todo)
         event == IF tx.initial.event \in Private /\ e \notin tx.initial.force
                  THEN "change" ELSE tx.initial.event
         delivered == [s \in {e} |-> Delivery(tx, e, event)]
         next == [tx EXCEPT !.todo = Tail(tx.todo)]
     IN IF ~IsDueAdmission(tx, e) THEN tx' = next
        ELSE \E answer \in Answers(delivered) :
               LET t == Invoke(next, delivered, answer)
               IN tx' = [t EXCEPT !.context = materialize(windows, t.mounts),
                                  !.invoked = @ \cup {e}]
  /\ UNCHANGED <<windows, mounts, effective, pending, ran, repaired>>

\* Slip: the last round is committed as it is.
Settled_Exhausted(t) ==
  (changed_keys(t.before, t.context) = {} /\ t.forced \cup t.revised = {}) \/ t.round + 1 = Rounds

Settled(t) == changed_keys(t.before, t.context) = {} /\ t.forced \cup t.revised = {}

MoreRounds(t) == t.round + 1 < Rounds

\* The end of a round that changed something.
NextRound ==
  /\ tx # None /\ tx.stage = "admission" /\ tx.todo = <<>>
  /\ LET t == Reconciled(tx, tx.invoked)
     IN /\ ~Settled(t) /\ MoreRounds(tx)
        /\ tx' = [t EXCEPT !.dirty = changed_keys(t.before, t.context), !.before = t.context,
                           !.forced = t.forced \cup t.revised, !.event = "change", !.stage = "roots",
                           !.round = @ + 1, !.invoked = {}, !.revised = {}]
  /\ UNCHANGED <<windows, mounts, effective, pending, ran, repaired>>

\* commit-context, then the commands.
Commit ==
  /\ tx # None /\ tx.stage = "admission" /\ tx.todo = <<>>
  /\ LET t == Reconciled(tx, tx.invoked)
     IN /\ Settled(t)
        /\ mounts' = prune(windows, t.mounts)
        /\ effective' = t.context
        /\ ran' = t.commands
  /\ pending' = {} /\ tx' = None
  /\ UNCHANGED <<windows, repaired>>

-----------------------------------------------------------------------------
(* Failures: a callback's error or timeout, a limit, the native side's refusal *)
(* of the presentation, or a sixteenth round that still changes something. *)

\* The keys recovery compares.
RecoveredKeys == {"window-geometry"}

Recover(context) ==
  pending \cup {key \in RecoveredKeys : context[key] # effective[key]}

\* dispatch-event materializes the accepted mounts again and commits them.
\* That may fail as well, or be left to a newer request for outputs.
Fail ==
  /\ tx # None
  /\ tx' = None /\ ran' = {}
  /\ LET context == materialize(windows, mounts)
     IN \/ UNCHANGED <<mounts, effective, pending, repaired>>
        \/ /\ tx.by = "event"
           /\ pending' = Recover(context)
           /\ UNCHANGED <<mounts, effective, repaired>>
        \/ /\ tx.by = "event"
           /\ pending' = Recover(context)
           /\ mounts' = prune(windows, mounts) /\ effective' = context
           /\ repaired' = TRUE
  /\ UNCHANGED windows

-----------------------------------------------------------------------------
(* What starts a transaction. *)

Start(by, wins, m, pend, event, changed, force) ==
  /\ tx = None
  /\ tx' = Begin(by, wins, m, pend, event, changed, force)
  /\ windows' = wins /\ pending' = pend /\ ran' = {}
  /\ UNCHANGED <<mounts, effective, repaired>>

\* :map and :unmap.
WindowEvent(w) ==
  LET wins == IF w \in windows THEN windows \ {w} ELSE windows \cup {w}
  IN Start("event", wins, mounts, pending \cup {"windows"}, "window", {"windows"}, {})

KeyEvent == Start("event", windows, mounts, pending, "key", {"key"}, {})

\* A timer, watch, execution or UI callback of one scope.
PrivateEvent(s) ==
  /\ s \in Armed \cap Present(mounts)
  /\ Start("service", windows, mounts, pending, "timer", {}, {s})

Fresh == [value |-> None, rule |-> FALSE, view |-> None]

Mount(e) ==
  /\ e \notin Mounted(mounts)
  /\ LET with == [r \in Mounted(mounts) \cup {e} |-> IF r = e THEN Fresh ELSE mounts.root[r]]
     IN Start("request", windows, [mounts EXCEPT !.root = with], pending, "mount", {}, {e})

Unmount(e) ==
  /\ e \in Mounted(mounts)
  /\ Start("request", windows, [mounts EXCEPT !.root = Restrict(@, DOMAIN @ \ {e})], pending, "unmount", {}, {})

Init ==
  /\ windows = {}
  /\ mounts = Nobody
  /\ effective = materialize({}, Nobody)
  /\ pending = {} /\ ran = {}
  /\ repaired = FALSE
  /\ tx = None

Happens ==
  \/ \E w \in Windows : WindowEvent(w)
  \/ KeyEvent
  \/ \E s \in Scopes : PrivateEvent(s)
  \/ \E e \in Roots : Mount(e) \/ Unmount(e)

Next ==
  \/ Happens
  \/ InvokeRoots \/ InvokeKids \/ InvokeAdmission
  \/ NextRound \/ Commit \/ Fail

Spec == Init /\ [][Next]_vars

-----------------------------------------------------------------------------
(* Properties. *)

Now == materialize(windows, mounts)

\* The keys the next transaction will find changed, whatever starts it.
Outstanding == pending \cup changed_keys(effective, Now)

\* What recovery restates: a registry, or a key it compares.
Restated == {"windows"} \cup RecoveredKeys

\* Whatever failed on the way, an accepted extension was shown what it reads as
\* it is now, or the next transaction will invoke it for the difference.
ViewsAreCurrent ==
  tx = None =>
    \A e \in Mounted(mounts) \ Range(Admission) : \A key \in Recorded(e) :
      \/ mounts.root[e].view[key] = Now[key]
      \/ key \in Outstanding
      \/ repaired /\ key \notin Restated

\* Between transactions, unless windows came or went in one that failed, there
\* is one instance for each declared rule and each window, and it was invoked.
InstancesMatchRules ==
  tx = None /\ "windows" \notin pending =>
    /\ Instances(mounts) = Matching(windows, mounts)
    /\ \A k \in Instances(mounts) : ~mounts.kid[k].pending

\* Commands run once their transaction is committed, for scopes it kept, and
\* never those of a proposal that a later one replaced.
OnlyAcceptedCommandsRun ==
  [][ran' # {} /\ ran' # ran =>
       /\ tx # None /\ tx' = None /\ effective' = tx.context
       /\ ran' \subseteq Present(mounts')
       /\ \A s \in ran' : Admitted(s) => s \in tx.asked]_vars
=============================================================================
