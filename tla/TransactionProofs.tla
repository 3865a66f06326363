-------------------------- MODULE TransactionProofs --------------------------
(***************************************************************************)
(* Machine-checked proofs about Transactions, for every set of extensions  *)
(* with any dependencies, any windows and any number of rounds.            *)
(***************************************************************************)
EXTENDS Transactions, TLAPS

-----------------------------------------------------------------------------
(* The inductive invariant. *)

TxFields ==
  {"by", "mounts", "context", "before", "dirty", "forced", "initial", "event", "stage",
   "round", "invoked", "revised", "todo", "proposals", "commands", "asked"}

IsTx(t) == t = [f \in TxFields |-> t[f]]

IsMounts(m) == m = [root |-> m.root, kid |-> m.kid]

\* What the mounted extensions were shown is what the context says, or there is
\* a reason to invoke them.
ViewsFollow(m, context, dirty, forced) ==
  \A e \in Mounted(m) \ Range(Admission) : \A key \in Recorded(e) :
    \/ m.root[e].view[key] = context[key]
    \/ key \in dirty
    \/ e \in forced
    \/ repaired /\ key \notin Restated

\* Between a round's first loop and its end the extensions that it invoked have
\* seen the context of its beginning, and the others were not concerned.
RoundViews(t) ==
  /\ t.stage = "roots" => t.context = t.before
                          /\ ViewsFollow(t.mounts, t.before, t.dirty, t.forced)
  /\ t.stage # "roots" => ViewsFollow(t.mounts, t.before, {}, {})

\* After its second loop no instance waits for its first invocation, but those
\* that the next round invokes.
RoundKids(t) ==
  t.stage = "admission" =>
    \A k \in Instances(t.mounts) : t.mounts.kid[k].pending => k \in t.forced

TxInv ==
  tx # None =>
    /\ IsTx(tx) /\ IsMounts(tx.mounts)
    /\ tx.stage \in {"roots", "kids", "admission"}
    /\ tx.todo \in Seq(Range(Admission))
    /\ Mounted(tx.mounts) \subseteq Roots /\ Instances(tx.mounts) \subseteq Kids
    /\ RoundViews(tx) /\ RoundKids(tx)

RulesHold ==
  "windows" \notin pending =>
    /\ Instances(mounts) = Matching(windows, mounts)
    /\ \A k \in Instances(mounts) : ~mounts.kid[k].pending

IInv ==
  /\ IsMounts(mounts)
  /\ Mounted(mounts) \subseteq Roots /\ Instances(mounts) \subseteq Kids
  /\ ViewsFollow(mounts, effective, pending, {})
  /\ effective["windows"] # windows => "windows" \in pending
  /\ RulesHold
  /\ TxInv

-----------------------------------------------------------------------------
(* The operators on mounts and transactions. *)

\* Pruning leaves the extensions alone and keeps the instances that match.
LEMMA PruneFacts ==
  ASSUME NEW wins, NEW m, IsMounts(m)
  PROVE  /\ IsMounts(prune(wins, m))
         /\ prune(wins, m).root = m.root
         /\ Instances(prune(wins, m)) = Instances(m) \cap Matching(wins, m)
         /\ \A k \in Instances(prune(wins, m)) : prune(wins, m).kid[k] = m.kid[k]
         /\ Matching(wins, prune(wins, m)) = Matching(wins, m)
<1>1. prune(wins, m) = [root |-> m.root,
                        kid |-> [k \in Instances(m) \cap Matching(wins, m) |-> m.kid[k]]]
  BY DEF prune, Restrict, IsMounts
<1> QED
  BY <1>1 DEF IsMounts, Instances, Matching, Declares, Mounted

\* Reconciling leaves the extensions alone and makes the instances that match.
LEMMA ReconcileFacts ==
  ASSUME NEW wins, NEW m, IsMounts(m)
  PROVE  /\ IsMounts(reconcile(wins, m))
         /\ reconcile(wins, m).root = m.root
         /\ Instances(reconcile(wins, m)) = Matching(wins, m)
         /\ Matching(wins, reconcile(wins, m)) = Matching(wins, m)
         /\ \A k \in Matching(wins, m) :
              k \in Instances(m) => reconcile(wins, m).kid[k] = m.kid[k]
<1>1. reconcile(wins, m) =
        [root |-> m.root,
         kid |-> [k \in Matching(wins, m) |->
                    IF k \in Instances(m) THEN m.kid[k] ELSE NewKid]]
  BY DEF reconcile, IsMounts
<1> QED
  BY <1>1 DEF IsMounts, Instances, Matching, Declares, Mounted

LEMMA MatchingKids ==
  ASSUME NEW wins, NEW m
  PROVE  Matching(wins, m) \subseteq Kids
BY DEF Matching

\* An invocation changes what those it concerns were shown, and no lifetimes.
LEMMA InvokeFacts ==
  ASSUME NEW t, IsTx(t), NEW delivered, NEW answer
  PROVE  LET u == Invoke(t, delivered, answer)
         IN /\ IsTx(u) /\ IsMounts(u.mounts)
            /\ Mounted(u.mounts) = Mounted(t.mounts)
            /\ Instances(u.mounts) = Instances(t.mounts)
            /\ \A e \in Mounted(t.mounts) :
                 IF e \in DOMAIN answer
                 THEN u.mounts.root[e].view = View(t.context, Recorded(e))
                 ELSE u.mounts.root[e] = t.mounts.root[e]
            /\ \A k \in Instances(t.mounts) :
                 IF k \in DOMAIN answer
                 THEN ~u.mounts.kid[k].pending
                 ELSE u.mounts.kid[k] = t.mounts.kid[k]
            /\ u.context = t.context /\ u.before = t.before /\ u.dirty = t.dirty
            /\ u.forced = t.forced /\ u.stage = t.stage /\ u.todo = t.todo
<1> DEFINE u == Invoke(t, delivered, answer)
           m == [root |-> [e \in Mounted(t.mounts) |->
                    IF e \in DOMAIN answer
                    THEN [value |-> answer[e].value, rule |-> answer[e].rule,
                          view |-> View(t.context, Recorded(e))]
                    ELSE t.mounts.root[e]],
                 kid |-> [k \in Instances(t.mounts) |->
                    IF k \in DOMAIN answer
                    THEN [value |-> answer[k].value, pending |-> FALSE]
                    ELSE t.mounts.kid[k]]]
<1>1. /\ IsTx(u) /\ u.mounts = m
      /\ u.context = t.context /\ u.before = t.before /\ u.dirty = t.dirty
      /\ u.forced = t.forced /\ u.stage = t.stage /\ u.todo = t.todo
  BY DEF Invoke, IsTx, TxFields
<1>2. /\ IsMounts(m) /\ Mounted(m) = Mounted(t.mounts) /\ Instances(m) = Instances(t.mounts)
  BY DEF IsMounts, Mounted, Instances
<1>3. \A e \in Mounted(t.mounts) :
        IF e \in DOMAIN answer
        THEN m.root[e].view = View(t.context, Recorded(e))
        ELSE m.root[e] = t.mounts.root[e]
  OBVIOUS
<1>4. \A k \in Instances(t.mounts) :
        IF k \in DOMAIN answer
        THEN ~m.kid[k].pending
        ELSE m.kid[k] = t.mounts.kid[k]
  OBVIOUS
<1> HIDE DEF u, m
<1> QED
  BY <1>1, <1>2, <1>3, <1>4 DEF u

\* A reconciliation remakes the instances and the context.
LEMMA ReconciledFacts ==
  ASSUME NEW t, IsTx(t), IsMounts(t.mounts), NEW invoked
  PROVE  LET u == Reconciled(t, invoked)
         IN /\ IsTx(u)
            /\ u.mounts = reconcile(windows, t.mounts)
            /\ u.context = materialize(windows, u.mounts)
            /\ \A k \in Instances(u.mounts) : k \notin Instances(t.mounts) => k \in u.revised
            /\ u.before = t.before /\ u.dirty = t.dirty
            /\ u.forced = t.forced /\ u.stage = t.stage /\ u.todo = t.todo
<1> DEFINE u == Reconciled(t, invoked)
           m == reconcile(windows, t.mounts)
<1>1. /\ IsTx(u) /\ u.mounts = m /\ u.context = materialize(windows, m)
      /\ u.revised = Revised(t.mounts, m, invoked)
      /\ u.before = t.before /\ u.dirty = t.dirty
      /\ u.forced = t.forced /\ u.stage = t.stage /\ u.todo = t.todo
  BY DEF Reconciled, IsTx, TxFields
<1> HIDE DEF u, m
<1> QED
  BY <1>1 DEF u, m, Revised

LEMMA ContextFacts ==
  ASSUME NEW wins, NEW m
  PROVE  materialize(wins, m)["windows"] = wins
BY DEF materialize, Keys

LEMMA ReadKeys ==
  \A e \in Roots : Recorded(e) \subseteq Keys
BY TransactionAssumption DEF Recorded

-----------------------------------------------------------------------------
(* Each step keeps the invariant. *)

\* The three loops, the next round: a step inside a transaction.
Inside == UNCHANGED <<windows, mounts, effective, pending, repaired>>

\* While a transaction runs nothing of what was accepted changes.
LEMMA InsideKeeps ==
  ASSUME IInv, Inside, TxInv'
  PROVE  IInv'
BY DEF IInv, Inside, IsMounts, ViewsFollow, RulesHold, Mounted, Instances, Recorded,
       Restated, Matching, Declares

LEMMA RootsStep ==
  ASSUME IInv, InvokeRoots
  PROVE  IInv'
<1> DEFINE due == DueRoots(tx)
           delivered == [e \in due |-> IF tx.event \in Private /\ e \notin tx.forced
                                       THEN "change" ELSE tx.event]
<1>1. /\ IsTx(tx) /\ IsMounts(tx.mounts)
      /\ tx.stage = "roots"
      /\ tx.todo \in Seq(Range(Admission))
      /\ Mounted(tx.mounts) \subseteq Roots /\ Instances(tx.mounts) \subseteq Kids
      /\ tx.context = tx.before
      /\ ViewsFollow(tx.mounts, tx.before, tx.dirty, tx.forced)
  BY DEF IInv, TxInv, InvokeRoots, RoundViews
<1>2. PICK answer \in Answers(delivered) :
        tx' = [Reconciled(Invoke(tx, delivered, answer), due)
                 EXCEPT !.stage = "kids", !.invoked = due]
  BY DEF InvokeRoots
<1>3. DOMAIN answer = due
  BY <1>2 DEF Answers
<1> DEFINE t == Invoke(tx, delivered, answer)
           u == Reconciled(t, due)
<1> HIDE DEF due, delivered, t, u
<1>4. /\ IsTx(t) /\ IsMounts(t.mounts)
      /\ Mounted(t.mounts) = Mounted(tx.mounts)
      /\ \A e \in Mounted(tx.mounts) :
           IF e \in due
           THEN t.mounts.root[e].view = View(tx.context, Recorded(e))
           ELSE t.mounts.root[e] = tx.mounts.root[e]
      /\ t.before = tx.before /\ t.todo = tx.todo
  BY <1>1, <1>3, InvokeFacts DEF t
<1>5. /\ IsTx(u) /\ u.mounts = reconcile(windows, t.mounts)
      /\ u.before = tx.before /\ u.todo = tx.todo
  BY <1>4, ReconciledFacts DEF u
<1>6. /\ IsMounts(u.mounts) /\ u.mounts.root = t.mounts.root
      /\ Mounted(u.mounts) \subseteq Roots /\ Instances(u.mounts) \subseteq Kids
  BY <1>1, <1>4, <1>5, ReconcileFacts, MatchingKids DEF Mounted
<1>7. ViewsFollow(u.mounts, u.before, {}, {})
  <2> SUFFICES ASSUME NEW e \in Mounted(u.mounts) \ Range(Admission), NEW key \in Recorded(e)
               PROVE  \/ u.mounts.root[e].view[key] = u.before[key]
                      \/ repaired /\ key \notin Restated
    BY DEF ViewsFollow
  <2>1. e \in Mounted(tx.mounts) \ Range(Admission)
    BY <1>4, <1>6 DEF Mounted
  <2>2. CASE e \in due
    <3>1. t.mounts.root[e].view = View(tx.context, Recorded(e))
      BY <2>1, <2>2, <1>4
    <3>2. u.mounts.root[e].view[key] = tx.context[key]
      BY <3>1, <1>6 DEF View
    <3> QED BY <3>2, <1>1, <1>5
  <2>3. CASE e \notin due
    <3>1. e \notin tx.forced /\ key \notin tx.dirty
      BY <2>1, <2>3 DEF due, DueRoots, Recorded
    <3> QED
      BY <3>1, <2>1, <2>3, <1>1, <1>4, <1>5, <1>6 DEF ViewsFollow
  <2> QED
    BY <2>2, <2>3
<1>8. /\ IsTx(tx') /\ tx'.mounts = u.mounts /\ tx'.before = u.before
      /\ tx'.stage = "kids" /\ tx'.todo = u.todo
  BY <1>2, <1>5 DEF IsTx, TxFields, u, t
<1>9. repaired' = repaired
  BY DEF InvokeRoots
<1>10. TxInv'
  BY <1>1, <1>5, <1>6, <1>7, <1>8, <1>9
     DEF TxInv, RoundViews, RoundKids, ViewsFollow, Mounted, Instances, Recorded, Restated
<1> QED
  BY <1>10, InsideKeeps DEF InvokeRoots, Inside

LEMMA KidsStep ==
  ASSUME IInv, InvokeKids
  PROVE  IInv'
<1> DEFINE due == DueKids(tx)
           event(k) == CASE tx.mounts.kid[k].pending -> "mount"
                       [] ~tx.mounts.kid[k].pending /\ (tx.event = "key" \/
                            (tx.event \in Private /\ k \notin tx.forced)) -> "change"
                       [] OTHER -> tx.event
           delivered == [k \in due |-> Delivery(tx, k, event(k))]
<1>1. /\ IsTx(tx) /\ IsMounts(tx.mounts)
      /\ tx.stage = "kids"
      /\ Mounted(tx.mounts) \subseteq Roots /\ Instances(tx.mounts) \subseteq Kids
      /\ ViewsFollow(tx.mounts, tx.before, {}, {})
  BY DEF IInv, TxInv, InvokeKids, RoundViews
<1>2. PICK answer \in Answers(delivered) :
        LET t == Reconciled(Invoke(tx, delivered, answer), {})
        IN tx' = [t EXCEPT !.stage = "admission", !.forced = t.revised,
                           !.todo = Admission, !.invoked = {}]
  BY DEF InvokeKids
<1>3. DOMAIN answer = due
  BY <1>2 DEF Answers
<1> DEFINE t == Invoke(tx, delivered, answer)
           u == Reconciled(t, {})
<1> HIDE DEF due, delivered, t, u
<1>4. /\ IsTx(t) /\ IsMounts(t.mounts)
      /\ Mounted(t.mounts) = Mounted(tx.mounts)
      /\ Instances(t.mounts) = Instances(tx.mounts)
      /\ \A e \in Mounted(tx.mounts) :
           IF e \in due
           THEN t.mounts.root[e].view = View(tx.context, Recorded(e))
           ELSE t.mounts.root[e] = tx.mounts.root[e]
      /\ \A k \in Instances(tx.mounts) :
           IF k \in due
           THEN ~t.mounts.kid[k].pending
           ELSE t.mounts.kid[k] = tx.mounts.kid[k]
      /\ t.before = tx.before
  BY <1>1, <1>3, InvokeFacts DEF t
<1>5. /\ IsTx(u) /\ u.mounts = reconcile(windows, t.mounts)
      /\ \A k \in Instances(u.mounts) : k \notin Instances(t.mounts) => k \in u.revised
      /\ u.before = tx.before
  BY <1>4, ReconciledFacts DEF u
<1>6. /\ IsMounts(u.mounts) /\ u.mounts.root = t.mounts.root
      /\ Instances(u.mounts) = Matching(windows, t.mounts)
      /\ Mounted(u.mounts) \subseteq Roots /\ Instances(u.mounts) \subseteq Kids
      /\ \A k \in Instances(u.mounts) :
           k \in Instances(t.mounts) => u.mounts.kid[k] = t.mounts.kid[k]
  BY <1>1, <1>4, <1>5, ReconcileFacts, MatchingKids DEF Mounted
\* No extension is a rule instance.
<1>7. ViewsFollow(u.mounts, u.before, {}, {})
  <2> SUFFICES ASSUME NEW e \in Mounted(u.mounts) \ Range(Admission), NEW key \in Recorded(e)
               PROVE  \/ u.mounts.root[e].view[key] = u.before[key]
                      \/ repaired /\ key \notin Restated
    BY DEF ViewsFollow
  <2>1. e \in Mounted(tx.mounts) \ Range(Admission)
    BY <1>4, <1>6 DEF Mounted
  <2>2. e \notin due
    BY <2>1, <1>1, TransactionAssumption DEF due, DueKids, Kids
  <2> QED
    BY <2>1, <2>2, <1>1, <1>4, <1>5, <1>6 DEF ViewsFollow
<1>8. \A k \in Instances(u.mounts) : u.mounts.kid[k].pending => k \in u.revised
  <2> SUFFICES ASSUME NEW k \in Instances(u.mounts), u.mounts.kid[k].pending,
                      k \in Instances(t.mounts)
               PROVE  FALSE
    BY <1>5
  <2>1. k \in Instances(tx.mounts) /\ t.mounts.kid[k].pending
    BY <1>4, <1>6
  <2>2. k \notin due /\ tx.mounts.kid[k].pending
    BY <2>1, <1>4
  <2> QED
    BY <2>1, <2>2 DEF due, DueKids
<1>9. /\ IsTx(tx') /\ tx'.mounts = u.mounts /\ tx'.before = u.before
      /\ tx'.stage = "admission" /\ tx'.todo = Admission /\ tx'.forced = u.revised
  BY <1>2, <1>5 DEF IsTx, TxFields, u, t
<1>10. repaired' = repaired
  BY DEF InvokeKids
<1>11. Admission \in Seq(Range(Admission))
  BY TransactionAssumption DEF Range
<1>12. TxInv'
  BY <1>1, <1>6, <1>7, <1>8, <1>9, <1>10, <1>11
     DEF TxInv, RoundViews, RoundKids, ViewsFollow, Mounted, Instances, Recorded, Restated
<1> QED
  BY <1>12, InsideKeeps DEF InvokeKids, Inside

LEMMA AdmissionStep ==
  ASSUME IInv, InvokeAdmission
  PROVE  IInv'
<1> DEFINE e == Head(tx.todo)
           event == IF tx.initial.event \in Private /\ e \notin tx.initial.force
                    THEN "change" ELSE tx.initial.event
           delivered == [s \in {e} |-> Delivery(tx, e, event)]
           next == [tx EXCEPT !.todo = Tail(tx.todo)]
<1>1. /\ IsTx(tx) /\ IsMounts(tx.mounts)
      /\ tx.stage = "admission"
      /\ tx.todo \in Seq(Range(Admission)) /\ tx.todo # <<>>
      /\ Mounted(tx.mounts) \subseteq Roots /\ Instances(tx.mounts) \subseteq Kids
      /\ ViewsFollow(tx.mounts, tx.before, {}, {})
      /\ \A k \in Instances(tx.mounts) : tx.mounts.kid[k].pending => k \in tx.forced
  BY DEF IInv, TxInv, InvokeAdmission, RoundViews, RoundKids
<1>2. e \in Range(Admission) /\ Tail(tx.todo) \in Seq(Range(Admission))
  BY <1>1
<1>3. e \in Roots
  BY <1>2, TransactionAssumption DEF Range
<1>4. /\ IsTx(next) /\ next.mounts = tx.mounts /\ next.todo = Tail(tx.todo)
      /\ next.before = tx.before /\ next.stage = tx.stage /\ next.forced = tx.forced
  BY <1>1 DEF IsTx, TxFields
<1>5. repaired' = repaired
  BY DEF InvokeAdmission
<1> HIDE DEF next, delivered
<1>6. TxInv'
  <2>1. CASE tx' = next
    BY <2>1, <1>1, <1>2, <1>4, <1>5
       DEF TxInv, RoundViews, RoundKids, ViewsFollow, Mounted, Instances, Recorded, Restated
  <2>2. CASE \E answer \in Answers(delivered) :
               LET t == Invoke(next, delivered, answer)
               IN tx' = [t EXCEPT !.context = materialize(windows, t.mounts),
                                  !.invoked = @ \cup {e}]
    <3>1. PICK answer \in Answers(delivered) :
            LET t == Invoke(next, delivered, answer)
            IN tx' = [t EXCEPT !.context = materialize(windows, t.mounts),
                               !.invoked = @ \cup {e}]
      BY <2>2
    <3>2. DOMAIN answer = {e}
      BY <3>1 DEF Answers, delivered
    <3> DEFINE t == Invoke(next, delivered, answer)
    <3> HIDE DEF t, e
    <3>3. /\ IsTx(t) /\ IsMounts(t.mounts)
          /\ Mounted(t.mounts) = Mounted(tx.mounts)
          /\ Instances(t.mounts) = Instances(tx.mounts)
          /\ \A r \in Mounted(tx.mounts) :
               r # e => t.mounts.root[r] = tx.mounts.root[r]
          /\ \A k \in Instances(tx.mounts) :
               k # e => t.mounts.kid[k] = tx.mounts.kid[k]
          /\ t.before = tx.before /\ t.stage = tx.stage /\ t.forced = tx.forced
          /\ t.todo = Tail(tx.todo)
      BY <1>4, <3>2, InvokeFacts DEF t
    <3>4. \A k \in Instances(tx.mounts) : k # e
      BY <1>1, <1>3, TransactionAssumption DEF Kids
    <3>5. /\ IsTx(tx') /\ tx'.mounts = t.mounts /\ tx'.before = t.before
          /\ tx'.stage = t.stage /\ tx'.todo = t.todo /\ tx'.forced = t.forced
      BY <3>1, <3>3 DEF IsTx, TxFields, t
    <3>6. ViewsFollow(t.mounts, t.before, {}, {})
      BY <1>1, <1>2, <3>3 DEF ViewsFollow
    <3> QED
      BY <1>1, <1>2, <1>5, <3>3, <3>4, <3>5, <3>6
         DEF TxInv, RoundViews, RoundKids, ViewsFollow, Mounted, Instances, Recorded, Restated
  <2> QED
    BY <2>1, <2>2 DEF InvokeAdmission, next, delivered
<1> QED
  BY <1>6, InsideKeeps DEF InvokeAdmission, Inside

LEMMA NextRoundStep ==
  ASSUME IInv, NextRound
  PROVE  IInv'
<1> DEFINE t == Reconciled(tx, tx.invoked)
<1>1. /\ IsTx(tx) /\ IsMounts(tx.mounts) /\ tx.todo = <<>>
      /\ tx.stage = "admission"
      /\ Mounted(tx.mounts) \subseteq Roots
      /\ ViewsFollow(tx.mounts, tx.before, {}, {})
  BY DEF IInv, TxInv, NextRound, RoundViews
<1>2. tx' = [t EXCEPT !.dirty = changed_keys(t.before, t.context), !.before = t.context,
                      !.forced = t.forced \cup t.revised, !.event = "change",
                      !.stage = "roots", !.round = @ + 1, !.invoked = {}, !.revised = {}]
  BY DEF NextRound
<1> HIDE DEF t
<1>3. /\ IsTx(t) /\ t.mounts = reconcile(windows, tx.mounts)
      /\ t.before = tx.before /\ t.todo = tx.todo
  BY <1>1, ReconciledFacts DEF t
<1>4. /\ IsMounts(t.mounts) /\ t.mounts.root = tx.mounts.root
      /\ Instances(t.mounts) \subseteq Kids
  BY <1>1, <1>3, ReconcileFacts, MatchingKids
<1>5. /\ IsTx(tx') /\ tx'.mounts = t.mounts
      /\ tx'.before = t.context /\ tx'.context = t.context
      /\ tx'.dirty = changed_keys(t.before, t.context)
      /\ tx'.stage = "roots" /\ tx'.todo = t.todo
  BY <1>2, <1>3 DEF IsTx, TxFields
<1>6. ViewsFollow(t.mounts, t.context, changed_keys(t.before, t.context), tx'.forced)
  <2> SUFFICES ASSUME NEW e \in Mounted(t.mounts) \ Range(Admission), NEW key \in Recorded(e)
               PROVE  \/ t.mounts.root[e].view[key] = t.context[key]
                      \/ key \in changed_keys(t.before, t.context)
                      \/ repaired /\ key \notin Restated
    BY DEF ViewsFollow
  <2>1. e \in Mounted(tx.mounts) \ Range(Admission) /\ key \in Keys
    BY <1>1, <1>4, ReadKeys DEF Mounted
  <2> QED
    BY <2>1, <1>1, <1>3, <1>4 DEF ViewsFollow, changed_keys
<1>7. repaired' = repaired /\ <<>> \in Seq(Range(Admission))
  BY DEF NextRound
<1>8. TxInv'
  BY <1>1, <1>3, <1>4, <1>5, <1>6, <1>7
     DEF TxInv, RoundViews, RoundKids, ViewsFollow, Mounted, Instances, Recorded, Restated
<1> QED
  BY <1>8, InsideKeeps DEF NextRound, Inside

LEMMA CommitStep ==
  ASSUME IInv, Commit
  PROVE  IInv'
<1> DEFINE t == Reconciled(tx, tx.invoked)
<1>1. /\ IsTx(tx) /\ IsMounts(tx.mounts)
      /\ tx.stage = "admission"
      /\ Mounted(tx.mounts) \subseteq Roots
      /\ ViewsFollow(tx.mounts, tx.before, {}, {})
      /\ \A k \in Instances(tx.mounts) : tx.mounts.kid[k].pending => k \in tx.forced
  BY DEF IInv, TxInv, Commit, RoundViews, RoundKids
<1>2. /\ changed_keys(t.before, t.context) = {} /\ t.forced \cup t.revised = {}
      /\ mounts' = prune(windows, t.mounts) /\ effective' = t.context
      /\ pending' = {} /\ tx' = None /\ windows' = windows /\ repaired' = repaired
  BY DEF Commit, Settled
<1> HIDE DEF t
<1>3. /\ IsTx(t) /\ t.mounts = reconcile(windows, tx.mounts)
      /\ t.context = materialize(windows, t.mounts)
      /\ \A k \in Instances(t.mounts) : k \notin Instances(tx.mounts) => k \in t.revised
      /\ t.before = tx.before /\ t.forced = tx.forced
  BY <1>1, ReconciledFacts DEF t
<1>4. /\ IsMounts(t.mounts) /\ t.mounts.root = tx.mounts.root
      /\ Instances(t.mounts) = Matching(windows, tx.mounts)
      /\ Matching(windows, t.mounts) = Matching(windows, tx.mounts)
      /\ \A k \in Instances(t.mounts) :
           k \in Instances(tx.mounts) => t.mounts.kid[k] = tx.mounts.kid[k]
  BY <1>1, <1>3, ReconcileFacts
<1>5. /\ IsMounts(mounts') /\ mounts'.root = tx.mounts.root
      /\ Instances(mounts') = Instances(t.mounts)
      /\ Matching(windows, mounts') = Matching(windows, t.mounts)
      /\ \A k \in Instances(mounts') : mounts'.kid[k] = t.mounts.kid[k]
  BY <1>2, <1>4, PruneFacts
<1>6. Mounted(mounts') \subseteq Roots /\ Instances(mounts') \subseteq Kids
  BY <1>1, <1>4, <1>5, MatchingKids DEF Mounted
<1>7. ViewsFollow(mounts', effective', {}, {})
  <2> SUFFICES ASSUME NEW e \in Mounted(mounts') \ Range(Admission), NEW key \in Recorded(e)
               PROVE  \/ mounts'.root[e].view[key] = effective'[key]
                      \/ repaired /\ key \notin Restated
    BY DEF ViewsFollow
  <2>1. e \in Mounted(tx.mounts) \ Range(Admission) /\ key \in Keys
    BY <1>1, <1>5, ReadKeys DEF Mounted
  <2>2. t.before[key] = t.context[key]
    BY <2>1, <1>2 DEF changed_keys
  <2> QED
    BY <2>1, <2>2, <1>1, <1>2, <1>3, <1>5 DEF ViewsFollow
<1>8. \A k \in Instances(mounts') : ~mounts'.kid[k].pending
  BY <1>1, <1>2, <1>3, <1>4, <1>5
<1>9. effective'["windows"] = windows'
  BY <1>2, <1>3, ContextFacts
<1>10. ViewsFollow(mounts, effective, pending, {})'
  BY <1>2, <1>7 DEF ViewsFollow, Mounted, Recorded, Restated
<1>11. RulesHold'
  BY <1>2, <1>4, <1>5, <1>8 DEF RulesHold, Instances, Matching, Declares, Mounted
<1> QED
  BY <1>2, <1>5, <1>6, <1>9, <1>10, <1>11 DEF IInv, TxInv, IsMounts, Mounted, Instances

LEMMA FailStep ==
  ASSUME IInv, Fail
  PROVE  IInv'
<1> DEFINE context == materialize(windows, mounts)
<1>1. tx' = None /\ windows' = windows
  BY DEF Fail
<1>2. TxInv'
  BY <1>1 DEF TxInv
<1>3. CASE UNCHANGED <<mounts, effective, pending, repaired>>
  BY <1>1, <1>2, <1>3 DEF IInv, IsMounts, ViewsFollow, RulesHold, Mounted, Instances, Recorded,
       Restated, Matching, Declares
<1>4. CASE pending' = Recover(context) /\ UNCHANGED <<mounts, effective, repaired>>
  <2>1. pending \subseteq pending'
    BY <1>4 DEF Recover
  <2> QED
    BY <2>1, <1>1, <1>2, <1>4 DEF IInv, IsMounts, ViewsFollow, RulesHold, Mounted, Instances,
       Recorded, Restated, Matching, Declares
<1>5. CASE /\ pending' = Recover(context) /\ mounts' = prune(windows, mounts)
           /\ effective' = context /\ repaired' = TRUE
  <2>1. /\ pending \subseteq pending'
        /\ \A key \in RecoveredKeys : context[key] # effective[key] => key \in pending'
    BY <1>5 DEF Recover
  <2>2. IsMounts(mounts) /\ Mounted(mounts) \subseteq Roots /\ Instances(mounts) \subseteq Kids
    BY DEF IInv
  <2>3. /\ IsMounts(mounts') /\ mounts'.root = mounts.root
        /\ Instances(mounts') = Instances(mounts) \cap Matching(windows, mounts)
        /\ \A k \in Instances(mounts') : mounts'.kid[k] = mounts.kid[k]
        /\ Matching(windows, mounts') = Matching(windows, mounts)
    BY <2>2, <1>5, PruneFacts
  <2>4. effective'["windows"] = windows
    BY <1>5, ContextFacts
  <2>5. ViewsFollow(mounts, effective, pending, {})'
    <3> SUFFICES ASSUME NEW e \in Mounted(mounts) \ Range(Admission), NEW key \in Recorded(e),
                        key \in Restated
                 PROVE  \/ mounts.root[e].view[key] = effective'[key]
                        \/ key \in pending'
      BY <2>3, <1>5 DEF ViewsFollow, Mounted, Recorded, Restated
    <3>1. mounts.root[e].view[key] = effective[key] \/ key \in pending
      BY DEF IInv, ViewsFollow
    <3>2. CASE key \in RecoveredKeys
      BY <3>1, <3>2, <2>1, <1>5
    <3>3. CASE key = "windows"
      BY <3>1, <3>3, <2>1, <2>4 DEF IInv
    <3> QED
      BY <3>2, <3>3 DEF Restated
  <2>6. RulesHold'
    BY <2>1, <2>3, <1>1 DEF IInv, RulesHold, Instances, Matching, Declares, Mounted
  <2> QED
    BY <2>1, <2>2, <2>3, <2>4, <2>5, <2>6, <1>1, <1>2 DEF IInv, IsMounts, Mounted, Instances
<1> QED
  BY <1>3, <1>4, <1>5 DEF Fail

\* A transaction starts with mounts that differ from the accepted ones only in
\* extensions it is forced to invoke, and takes up what is pending.
LEMMA StartStep ==
  ASSUME IInv,
         NEW by, NEW wins, NEW m, NEW pend, NEW event, NEW changed, NEW force,
         Start(by, wins, m, pend, event, changed, force),
         IsMounts(m), Mounted(m) \subseteq Roots, m.kid = mounts.kid,
         \A e \in Mounted(m) :
           e \notin force => e \in Mounted(mounts) /\ m.root[e] = mounts.root[e],
         pending \subseteq pend, wins # windows => "windows" \in pend
  PROVE  IInv'
<1> DEFINE candidate == prune(wins, m)
           context == materialize(wins, candidate)
           t == Begin(by, wins, m, pend, event, changed, force)
<1>1. /\ tx' = t /\ windows' = wins /\ pending' = pend
      /\ UNCHANGED <<mounts, effective, repaired>>
  BY DEF Start
<1>2. /\ IsTx(t) /\ t.mounts = candidate /\ t.context = context /\ t.before = context
      /\ t.dirty = pend \cup changed \cup changed_keys(effective, context)
      /\ t.forced = force /\ t.stage = "roots" /\ t.todo = <<>>
  BY DEF Begin, IsTx, TxFields, InitialDirty
<1>3. /\ IsMounts(candidate) /\ candidate.root = m.root
      /\ Instances(candidate) \subseteq Kids
  BY PruneFacts, MatchingKids
<1> HIDE DEF candidate, context, t
<1>4. ViewsFollow(candidate, context, t.dirty, force)
  <2> SUFFICES ASSUME NEW e \in Mounted(candidate) \ Range(Admission), NEW key \in Recorded(e),
                      e \notin force
               PROVE  \/ candidate.root[e].view[key] = context[key]
                      \/ key \in t.dirty
                      \/ repaired /\ key \notin Restated
    BY DEF ViewsFollow
  <2>1. /\ e \in Mounted(mounts) \ Range(Admission)
        /\ candidate.root[e] = mounts.root[e] /\ key \in Keys
    BY <1>3, ReadKeys DEF Mounted
  <2>2. \/ mounts.root[e].view[key] = effective[key]
        \/ key \in pending
        \/ repaired /\ key \notin Restated
    BY <2>1 DEF IInv, ViewsFollow
  <2>3. effective[key] = context[key] \/ key \in t.dirty
    BY <2>1, <1>2 DEF changed_keys
  <2> QED
    BY <2>1, <2>2, <2>3, <1>2
<1>5. TxInv'
  BY <1>1, <1>2, <1>3, <1>4
     DEF TxInv, RoundViews, RoundKids, ViewsFollow, Mounted, Instances, Recorded, Restated
<1>6. RulesHold'
  BY <1>1 DEF IInv, RulesHold, Instances, Matching, Declares, Mounted
<1>7. ViewsFollow(mounts, effective, pending, {})'
  BY <1>1 DEF IInv, ViewsFollow, Mounted, Recorded, Restated
<1> QED
  BY <1>1, <1>5, <1>6, <1>7 DEF IInv, IsMounts, Mounted, Instances

LEMMA HappensStep ==
  ASSUME IInv, Happens
  PROVE  IInv'
<1>1. /\ IsMounts(mounts) /\ Mounted(mounts) \subseteq Roots
  BY DEF IInv
<1>2. ASSUME NEW w \in Windows, WindowEvent(w) PROVE IInv'
  <2> DEFINE wins == IF w \in windows THEN windows \ {w} ELSE windows \cup {w}
  <2>1. Start("event", wins, mounts, pending \cup {"windows"}, "window", {"windows"}, {})
    BY <1>2 DEF WindowEvent
  <2> HIDE DEF wins
  <2> QED
    BY <2>1, <1>1, StartStep
<1>3. CASE KeyEvent
  BY <1>1, <1>3, StartStep DEF KeyEvent
<1>4. ASSUME NEW s \in Scopes, PrivateEvent(s) PROVE IInv'
  BY <1>1, <1>4, StartStep DEF PrivateEvent
<1>5. ASSUME NEW e \in Roots, Mount(e) PROVE IInv'
  <2> DEFINE with == [r \in Mounted(mounts) \cup {e} |->
                        IF r = e THEN Fresh ELSE mounts.root[r]]
             m == [mounts EXCEPT !.root = with]
  <2>1. m = [root |-> with, kid |-> mounts.kid]
    BY <1>1 DEF IsMounts
  <2>2. /\ IsMounts(m) /\ Mounted(m) = Mounted(mounts) \cup {e} /\ m.kid = mounts.kid
        /\ \A r \in Mounted(m) : r # e => m.root[r] = mounts.root[r]
    BY <2>1 DEF IsMounts, Mounted
  <2>3. Start("request", windows, m, pending, "mount", {}, {e})
    BY <1>5 DEF Mount
  <2> HIDE DEF m, with
  <2> QED
    BY <2>2, <2>3, <1>1, StartStep
<1>6. ASSUME NEW e \in Roots, Unmount(e) PROVE IInv'
  <2> DEFINE m == [mounts EXCEPT !.root = Restrict(@, DOMAIN @ \ {e})]
  <2>1. m = [root |-> [r \in Mounted(mounts) \ {e} |-> mounts.root[r]], kid |-> mounts.kid]
    BY <1>1 DEF IsMounts, Restrict, Mounted
  <2>2. /\ IsMounts(m) /\ Mounted(m) = Mounted(mounts) \ {e} /\ m.kid = mounts.kid
        /\ \A r \in Mounted(m) : m.root[r] = mounts.root[r]
    BY <2>1 DEF IsMounts, Mounted
  <2>3. Start("request", windows, m, pending, "unmount", {}, {})
    BY <1>6 DEF Unmount
  <2> HIDE DEF m
  <2> QED
    BY <2>2, <2>3, <1>1, StartStep
<1> QED
  BY <1>2, <1>3, <1>4, <1>5, <1>6 DEF Happens

-----------------------------------------------------------------------------
(* The theorems. *)

THEOREM Invariant == Spec => []IInv
<1>1. Init => IInv
  <2> SUFFICES ASSUME Init PROVE IInv
    OBVIOUS
  <2>1. Mounted(mounts) = {} /\ Instances(mounts) = {} /\ IsMounts(mounts)
    BY DEF Init, Nobody, Mounted, Instances, IsMounts
  <2>2. Matching(windows, mounts) = {}
    BY <2>1 DEF Matching, Declares
  <2> QED
    BY <2>1, <2>2, ContextFacts DEF Init, IInv, ViewsFollow, RulesHold, TxInv
<1>2. IInv /\ [Next]_vars => IInv'
  <2> SUFFICES ASSUME IInv, [Next]_vars PROVE IInv'
    OBVIOUS
  <2>1. CASE Happens
    BY <2>1, HappensStep
  <2>2. CASE InvokeRoots
    BY <2>2, RootsStep
  <2>3. CASE InvokeKids
    BY <2>3, KidsStep
  <2>4. CASE InvokeAdmission
    BY <2>4, AdmissionStep
  <2>5. CASE NextRound
    BY <2>5, NextRoundStep
  <2>6. CASE Commit
    BY <2>6, CommitStep
  <2>7. CASE Fail
    BY <2>7, FailStep
  <2>8. CASE UNCHANGED vars
    <3>1. Inside /\ tx' = tx
      BY <2>8 DEF vars, Inside
    <3>2. TxInv'
      BY <3>1 DEF IInv, TxInv, RoundViews, RoundKids, ViewsFollow, Mounted, Instances, Recorded,
         Restated, Inside, IsTx, IsMounts
    <3> QED
      BY <3>1, <3>2, InsideKeeps
  <2> QED
    BY <2>1, <2>2, <2>3, <2>4, <2>5, <2>6, <2>7, <2>8 DEF Next
<1> QED
  BY <1>1, <1>2, PTL DEF Spec

\* Whatever fails on the way, an accepted extension was shown what it reads as it
\* is now, or the next transaction invokes it for the difference.
THEOREM ViewsStayCurrent == Spec => []ViewsAreCurrent
<1>1. IInv => ViewsAreCurrent
  <2> SUFFICES ASSUME IInv, NEW e \in Mounted(mounts) \ Range(Admission),
                      NEW key \in Recorded(e)
               PROVE  \/ mounts.root[e].view[key] = Now[key]
                      \/ key \in Outstanding
                      \/ repaired /\ key \notin Restated
    BY DEF ViewsAreCurrent
  <2>1. key \in Keys
    BY ReadKeys DEF IInv
  <2> QED
    BY <2>1 DEF IInv, ViewsFollow, Outstanding, changed_keys
<1> QED
  BY <1>1, Invariant, PTL

\* Between transactions there is one instance for each declared rule and each
\* window it matches, and it was invoked, unless windows came or went in a
\* transaction that failed.
THEOREM RulesStayMatched == Spec => []InstancesMatchRules
<1>1. IInv => InstancesMatchRules
  BY DEF IInv, RulesHold, InstancesMatchRules
<1> QED
  BY <1>1, Invariant, PTL

-----------------------------------------------------------------------------
(* Commands. *)

\* The context of a transaction is that of its mounts, and the commands it has
\* gathered are of scopes it has, asked for by what they said last.
Gathered(t) ==
  /\ t.context = materialize(windows, t.mounts)
  /\ t.commands \subseteq Present(t.mounts)
  /\ \A s \in t.commands : Admitted(s) => s \in t.asked

CommandsHold == tx # None => Gathered(tx)

\* An invocation replaces what an admission scope asked for.
LEMMA InvokeCommands ==
  ASSUME NEW t, IsTx(t), Gathered(t), NEW delivered, NEW answer,
         DOMAIN answer \subseteq Present(t.mounts)
  PROVE  LET u == Invoke(t, delivered, answer)
         IN /\ u.commands \subseteq Present(u.mounts)
            /\ \A s \in u.commands : Admitted(s) => s \in u.asked
<1> DEFINE u == Invoke(t, delivered, answer)
<1>1. /\ u.commands = Commands(t.commands, answer)
      /\ u.asked = {s \in t.asked : s \notin DOMAIN answer}
                   \cup {s \in DOMAIN answer : Admitted(s) /\ answer[s].command}
  BY DEF Invoke, IsTx, TxFields
<1>2. Present(u.mounts) = Present(t.mounts)
  BY InvokeFacts DEF Present
<1> HIDE DEF u
<1>3. u.commands \subseteq Present(t.mounts)
  BY <1>1 DEF Commands, Gathered
<1>4. ASSUME NEW s \in u.commands, Admitted(s) PROVE s \in u.asked
  <2>1. CASE s \in DOMAIN answer
    BY <1>1, <1>4, <2>1 DEF Commands
  <2>2. CASE s \notin DOMAIN answer
    BY <1>1, <1>4, <2>2 DEF Commands, Gathered
  <2> QED BY <2>1, <2>2
<1> QED BY <1>2, <1>3, <1>4 DEF u

\* A reconciliation drops the commands of the instances it drops.
LEMMA ReconciledCommands ==
  ASSUME NEW t, IsTx(t), IsMounts(t.mounts), NEW invoked,
         t.commands \subseteq Present(t.mounts),
         \A s \in t.commands : Admitted(s) => s \in t.asked
  PROVE  LET u == Reconciled(t, invoked)
         IN Gathered(u) /\ u.commands \subseteq t.commands /\ u.asked = t.asked
<1> DEFINE u == Reconciled(t, invoked)
<1>1. /\ u.commands = t.commands \ (Instances(t.mounts) \ Instances(u.mounts))
      /\ u.asked = t.asked
  BY DEF Reconciled, IsTx, TxFields
<1>2. u.mounts = reconcile(windows, t.mounts) /\ u.context = materialize(windows, u.mounts)
  BY ReconciledFacts
<1> HIDE DEF u
<1>3. Mounted(u.mounts) = Mounted(t.mounts)
  BY <1>2, ReconcileFacts DEF Mounted
<1>4. u.commands \subseteq Present(u.mounts)
  BY <1>1, <1>3 DEF Present
<1> QED BY <1>1, <1>2, <1>4 DEF Gathered, u

\* A context of mounts whose instances are those there should be is that of the
\* mounts before.
LEMMA SameContext ==
  ASSUME NEW m, IsMounts(m), Instances(reconcile(windows, m)) \subseteq Instances(m)
  PROVE  materialize(windows, reconcile(windows, m)) = materialize(windows, m)
<1> DEFINE r == reconcile(windows, m)
<1>1. /\ IsMounts(r) /\ r.root = m.root /\ Instances(r) = Matching(windows, m)
      /\ Matching(windows, r) = Matching(windows, m)
      /\ \A k \in Matching(windows, m) : k \in Instances(m) => r.kid[k] = m.kid[k]
  BY ReconcileFacts
<1> HIDE DEF r
<1>2. prune(windows, r) = [root |-> r.root, kid |-> [k \in Instances(r) \cap Matching(windows, r) |-> r.kid[k]]]
  BY <1>1 DEF prune, Restrict, IsMounts
<1>3. prune(windows, m) = [root |-> m.root, kid |-> [k \in Instances(m) \cap Matching(windows, m) |-> m.kid[k]]]
  BY DEF prune, Restrict, IsMounts
<1>4. Instances(r) \subseteq Instances(m)
  BY DEF r
<1>5. Instances(r) \cap Matching(windows, r) = Instances(m) \cap Matching(windows, m)
  BY <1>1, <1>4
<1>6. prune(windows, r) = prune(windows, m)
  BY <1>1, <1>2, <1>3, <1>5
<1>7. materialize(windows, r) = materialize(windows, m)
  BY <1>6 DEF materialize
<1> QED BY <1>7 DEF r

\* A transaction starts without commands.
LEMMA StartCommands ==
  ASSUME NEW by, NEW wins, NEW m, NEW pend, NEW event, NEW changed, NEW force,
         Start(by, wins, m, pend, event, changed, force), IsMounts(m)
  PROVE  CommandsHold' /\ ran' = {}
<1> DEFINE t == Begin(by, wins, m, pend, event, changed, force)
<1>1. tx' = t /\ windows' = wins /\ ran' = {}
  BY DEF Start
<1>2. /\ t.commands = {} /\ t.mounts = prune(wins, m)
      /\ t.context = materialize(wins, prune(wins, m))
  BY DEF Begin
<1> HIDE DEF t
<1>3. materialize(windows, tx.mounts)' = materialize(wins, t.mounts)
  BY <1>1 DEF materialize, Contributions, prune, Matching, Declares, Mounted, Instances
<1> QED BY <1>1, <1>2, <1>3 DEF CommandsHold, Gathered

\* Nor does a step inside one change the windows its context is made of.
LEMMA InsideGathers ==
  ASSUME Inside, tx' # None => Gathered(tx')
  PROVE  CommandsHold'
<1>1. windows' = windows
  BY DEF Inside
<1>2. materialize(windows, tx.mounts)' = materialize(windows, tx'.mounts)
  BY <1>1 DEF materialize, Contributions, prune, Matching, Declares, Mounted, Instances
<1> QED BY <1>2 DEF CommandsHold, Gathered

\* What was gathered does not depend on where the round is.
LEMMA SameGathered ==
  ASSUME NEW t, NEW u, Gathered(t), u.mounts = t.mounts, u.context = t.context,
         u.commands = t.commands, u.asked = t.asked
  PROVE  Gathered(u)
BY DEF Gathered

LEMMA RootsGather ==
  ASSUME IInv, CommandsHold, InvokeRoots
  PROVE  CommandsHold' /\ ran' = ran
<1> DEFINE due == DueRoots(tx)
           delivered == [e \in due |-> IF tx.event \in Private /\ e \notin tx.forced
                                       THEN "change" ELSE tx.event]
<1>1. tx # None /\ IsTx(tx) /\ Gathered(tx) /\ ran' = ran /\ Inside
  BY DEF IInv, TxInv, CommandsHold, InvokeRoots, Inside
<1>2. PICK answer \in Answers(delivered) :
        tx' = [Reconciled(Invoke(tx, delivered, answer), due)
                 EXCEPT !.stage = "kids", !.invoked = due]
  BY DEF InvokeRoots
<1>3. DOMAIN answer \subseteq Present(tx.mounts)
  BY <1>2 DEF Answers, DueRoots, Present
<1> DEFINE t == Invoke(tx, delivered, answer)
           u == Reconciled(t, due)
<1> HIDE DEF due, delivered, t, u
<1>4. /\ IsTx(t) /\ IsMounts(t.mounts) /\ t.commands \subseteq Present(t.mounts)
      /\ \A s \in t.commands : Admitted(s) => s \in t.asked
  BY <1>1, <1>3, InvokeFacts, InvokeCommands DEF t
<1>5. IsTx(u) /\ Gathered(u)
  BY <1>4, ReconciledFacts, ReconciledCommands DEF u
<1>6. /\ tx'.mounts = u.mounts /\ tx'.context = u.context
      /\ tx'.commands = u.commands /\ tx'.asked = u.asked
  BY <1>2, <1>5 DEF IsTx, TxFields, u, t
<1>7. Gathered(tx')
  BY <1>5, <1>6, SameGathered
<1> QED BY <1>1, <1>7, InsideGathers

LEMMA KidsGather ==
  ASSUME IInv, CommandsHold, InvokeKids
  PROVE  CommandsHold' /\ ran' = ran
<1> DEFINE due == DueKids(tx)
           event(k) == CASE tx.mounts.kid[k].pending -> "mount"
                       [] ~tx.mounts.kid[k].pending /\ (tx.event = "key" \/
                            (tx.event \in Private /\ k \notin tx.forced)) -> "change"
                       [] OTHER -> tx.event
           delivered == [k \in due |-> Delivery(tx, k, event(k))]
<1>1. tx # None /\ IsTx(tx) /\ Gathered(tx) /\ ran' = ran /\ Inside
  BY DEF IInv, TxInv, CommandsHold, InvokeKids, Inside
<1>2. PICK answer \in Answers(delivered) :
        LET t == Reconciled(Invoke(tx, delivered, answer), {})
        IN tx' = [t EXCEPT !.stage = "admission", !.forced = t.revised,
                           !.todo = Admission, !.invoked = {}]
  BY DEF InvokeKids
<1>3. DOMAIN answer \subseteq Present(tx.mounts)
  BY <1>2 DEF Answers, DueKids, Present
<1> DEFINE t == Invoke(tx, delivered, answer)
           u == Reconciled(t, {})
<1> HIDE DEF due, delivered, t, u
<1>4. /\ IsTx(t) /\ IsMounts(t.mounts) /\ t.commands \subseteq Present(t.mounts)
      /\ \A s \in t.commands : Admitted(s) => s \in t.asked
  BY <1>1, <1>3, InvokeFacts, InvokeCommands DEF t
<1>5. IsTx(u) /\ Gathered(u)
  BY <1>4, ReconciledFacts, ReconciledCommands DEF u
<1>6. /\ tx'.mounts = u.mounts /\ tx'.context = u.context
      /\ tx'.commands = u.commands /\ tx'.asked = u.asked
  BY <1>2, <1>5 DEF IsTx, TxFields, u, t
<1>7. Gathered(tx')
  BY <1>5, <1>6, SameGathered
<1> QED BY <1>1, <1>7, InsideGathers

LEMMA AdmissionGathers ==
  ASSUME IInv, CommandsHold, InvokeAdmission
  PROVE  CommandsHold' /\ ran' = ran
<1> DEFINE e == Head(tx.todo)
           event == IF tx.initial.event \in Private /\ e \notin tx.initial.force
                    THEN "change" ELSE tx.initial.event
           delivered == [s \in {e} |-> Delivery(tx, e, event)]
           next == [tx EXCEPT !.todo = Tail(tx.todo)]
<1>1. tx # None /\ IsTx(tx) /\ Gathered(tx) /\ ran' = ran /\ Inside
  BY DEF IInv, TxInv, CommandsHold, InvokeAdmission, Inside
<1>2. /\ IsTx(next) /\ next.mounts = tx.mounts /\ next.context = tx.context
      /\ next.commands = tx.commands /\ next.asked = tx.asked
  BY <1>1 DEF IsTx, TxFields
<1> HIDE DEF next, delivered
<1>3. Gathered(next)
  BY <1>1, <1>2, SameGathered
<1>4. CASE ~IsDueAdmission(tx, e)
  <2>1. tx' = next
    BY <1>4 DEF InvokeAdmission, next
  <2> QED BY <1>1, <1>3, <2>1, InsideGathers
<1>5. CASE IsDueAdmission(tx, e)
  <2>1. PICK answer \in Answers(delivered) :
          LET t == Invoke(next, delivered, answer)
          IN tx' = [t EXCEPT !.context = materialize(windows, t.mounts),
                             !.invoked = @ \cup {e}]
    BY <1>5 DEF InvokeAdmission, next, delivered
  <2>2. DOMAIN answer \subseteq Present(next.mounts)
    BY <1>2, <1>5, <2>1 DEF Answers, delivered, IsDueAdmission, Present
  <2> DEFINE t == Invoke(next, delivered, answer)
  <2> HIDE DEF t, e
  <2>3. /\ IsTx(t) /\ t.commands \subseteq Present(t.mounts)
        /\ \A s \in t.commands : Admitted(s) => s \in t.asked
    BY <1>2, <1>3, <2>2, InvokeFacts, InvokeCommands DEF t
  <2>4. /\ tx'.mounts = t.mounts /\ tx'.context = materialize(windows, t.mounts)
        /\ tx'.commands = t.commands /\ tx'.asked = t.asked
    BY <2>1, <2>3 DEF IsTx, TxFields, t
  <2>5. Gathered(tx')
    BY <2>3, <2>4 DEF Gathered
  <2> QED BY <1>1, <2>5, InsideGathers
<1> QED BY <1>4, <1>5

LEMMA RoundGathers ==
  ASSUME IInv, CommandsHold, NextRound
  PROVE  CommandsHold' /\ ran' = ran
<1> DEFINE t == Reconciled(tx, tx.invoked)
<1>1. tx # None /\ IsTx(tx) /\ IsMounts(tx.mounts) /\ Gathered(tx) /\ ran' = ran /\ Inside
  BY DEF IInv, TxInv, CommandsHold, NextRound, Inside
<1>2. tx' = [t EXCEPT !.dirty = changed_keys(t.before, t.context), !.before = t.context,
                      !.forced = t.forced \cup t.revised, !.event = "change",
                      !.stage = "roots", !.round = @ + 1, !.invoked = {}, !.revised = {}]
  BY DEF NextRound
<1> HIDE DEF t
<1>3. IsTx(t) /\ Gathered(t)
  BY <1>1, ReconciledFacts, ReconciledCommands DEF t, Gathered
<1>4. /\ tx'.mounts = t.mounts /\ tx'.context = t.context
      /\ tx'.commands = t.commands /\ tx'.asked = t.asked
  BY <1>2, <1>3 DEF IsTx, TxFields
<1>5. Gathered(tx')
  BY <1>3, <1>4, SameGathered
<1> QED BY <1>1, <1>5, InsideGathers

LEMMA HappensGathers ==
  ASSUME IInv, Happens
  PROVE  CommandsHold' /\ ran' = {}
<1>1. IsMounts(mounts)
  BY DEF IInv
<1>2. ASSUME NEW w \in Windows, WindowEvent(w) PROVE CommandsHold' /\ ran' = {}
  <2> DEFINE wins == IF w \in windows THEN windows \ {w} ELSE windows \cup {w}
  <2>1. Start("event", wins, mounts, pending \cup {"windows"}, "window", {"windows"}, {})
    BY <1>2 DEF WindowEvent
  <2> HIDE DEF wins
  <2> QED BY <1>1, <2>1, StartCommands
<1>3. CASE KeyEvent
  BY <1>1, <1>3, StartCommands DEF KeyEvent
<1>4. ASSUME NEW s \in Scopes, PrivateEvent(s) PROVE CommandsHold' /\ ran' = {}
  BY <1>1, <1>4, StartCommands DEF PrivateEvent
<1>5. ASSUME NEW e \in Roots, Mount(e) PROVE CommandsHold' /\ ran' = {}
  <2>1. PICK with : Start("request", windows, [mounts EXCEPT !.root = with], pending, "mount", {}, {e})
    BY <1>5 DEF Mount
  <2>2. IsMounts([mounts EXCEPT !.root = with])
    BY <1>1 DEF IsMounts
  <2> QED BY <2>1, <2>2, StartCommands
<1>6. ASSUME NEW e \in Roots, Unmount(e) PROVE CommandsHold' /\ ran' = {}
  <2> DEFINE with == Restrict(mounts.root, DOMAIN mounts.root \ {e})
  <2>1. Start("request", windows, [mounts EXCEPT !.root = with], pending, "unmount", {}, {})
    BY <1>6 DEF Unmount
  <2> HIDE DEF with
  <2>2. IsMounts([mounts EXCEPT !.root = with])
    BY <1>1 DEF IsMounts
  <2> QED BY <2>1, <2>2, StartCommands
<1> QED BY <1>2, <1>3, <1>4, <1>5, <1>6 DEF Happens

\* The commit runs the commands of scopes that stay, in the context they saw.
LEMMA CommitRuns ==
  ASSUME IInv, CommandsHold, Commit
  PROVE  /\ tx # None /\ tx' = None /\ effective' = tx.context
         /\ ran' \subseteq Present(mounts')
         /\ \A s \in ran' : Admitted(s) => s \in tx.asked
<1> DEFINE t == Reconciled(tx, tx.invoked)
<1>1. tx # None /\ IsTx(tx) /\ IsMounts(tx.mounts) /\ Gathered(tx)
  BY DEF IInv, TxInv, CommandsHold, Commit
<1>2. /\ t.forced \cup t.revised = {}
      /\ mounts' = prune(windows, t.mounts) /\ effective' = t.context /\ ran' = t.commands
      /\ tx' = None
  BY DEF Commit, Settled
<1> HIDE DEF t
<1>3. /\ t.mounts = reconcile(windows, tx.mounts) /\ t.context = materialize(windows, t.mounts)
      /\ \A k \in Instances(t.mounts) : k \notin Instances(tx.mounts) => k \in t.revised
  BY <1>1, ReconciledFacts DEF t
<1>4. Gathered(t) /\ t.commands \subseteq tx.commands
  BY <1>1, ReconciledCommands DEF t, Gathered
<1>5. t.context = tx.context
  BY <1>1, <1>2, <1>3, SameContext DEF Gathered
<1>6. /\ IsMounts(t.mounts) /\ Instances(t.mounts) = Matching(windows, t.mounts)
  BY <1>1, <1>3, ReconcileFacts
<1>7. Present(mounts') = Present(t.mounts)
  <2>1. /\ mounts'.root = t.mounts.root
        /\ Instances(mounts') = Instances(t.mounts) \cap Matching(windows, t.mounts)
    BY <1>2, <1>6, PruneFacts
  <2> QED BY <1>6, <2>1 DEF Present, Mounted
<1> QED BY <1>1, <1>2, <1>4, <1>5, <1>7 DEF Gathered

\* Commands run once their transaction is committed, for scopes it kept, and never
\* those of a proposal that a later one replaced.
THEOREM AcceptedCommandsOnly == Spec => OnlyAcceptedCommandsRun
<1>1. Init => CommandsHold
  BY DEF Init, CommandsHold
<1>2. IInv /\ CommandsHold /\ [Next]_vars => CommandsHold'
  <2> SUFFICES ASSUME IInv, CommandsHold, [Next]_vars PROVE CommandsHold'
    OBVIOUS
  <2>1. CASE Commit \/ Fail
    BY <2>1 DEF Commit, Fail, CommandsHold
  <2>2. CASE UNCHANGED vars
    <3>1. Inside /\ tx' = tx
      BY <2>2 DEF vars, Inside
    <3> QED BY <3>1, InsideGathers DEF CommandsHold
  <2> QED BY <2>1, <2>2, HappensGathers, RootsGather, KidsGather, AdmissionGathers, RoundGathers
          DEF Next
<1>3. ASSUME IInv, CommandsHold, [Next]_vars, ran' # {}, ran' # ran
      PROVE  /\ tx # None /\ tx' = None /\ effective' = tx.context
             /\ ran' \subseteq Present(mounts')
             /\ \A s \in ran' : Admitted(s) => s \in tx.asked
  <2>1. ~Fail /\ ~UNCHANGED vars
    BY <1>3 DEF Fail, vars
  <2>2. Commit
    BY <1>3, <2>1, HappensGathers, RootsGather, KidsGather, AdmissionGathers, RoundGathers DEF Next
  <2> QED BY <1>3, <2>2, CommitRuns
<1>4. IInv /\ CommandsHold /\ [Next]_vars =>
        [ran' # {} /\ ran' # ran =>
           /\ tx # None /\ tx' = None /\ effective' = tx.context
           /\ ran' \subseteq Present(mounts')
           /\ \A s \in ran' : Admitted(s) => s \in tx.asked]_vars
  BY <1>3
<1> QED BY <1>1, <1>2, <1>4, Invariant, PTL DEF Spec, OnlyAcceptedCommandsRun
=============================================================================
