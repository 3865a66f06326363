----------------------------- MODULE LockProofs -----------------------------
(***************************************************************************)
(* Machine-checked proofs about SessionLock: due frames are drawn, a       *)
(* locked session is covered and a dark screen is dark, for any number of  *)
(* screens and of page flips the kernel owes.                              *)
(***************************************************************************)
EXTENDS SessionLock, TLAPS

-----------------------------------------------------------------------------
(* The inductive invariant. *)

Record ==
  [there : BOOLEAN, enabled : BOOLEAN, off : BOOLEAN, needs : BOOLEAN,
   pending : BOOLEAN, idle : BOOLEAN, flip : BOOLEAN, owed : Nat,
   shown : {"none", "open", "locked"}, missed : BOOLEAN]

\* What a handler that waits is.
Calls == [kind : {"none", "frame", "off", "apply"}, on : SUBSET Screens]

FrameOf(x) == [kind |-> "frame", on |-> {x}]
OffOf(x)   == [kind |-> "off", on |-> {x}]

\* A handler waits only while the seat is there.
Types ==
  /\ screen \in [Screens -> Record]
  /\ seat \in BOOLEAN /\ holder \in BOOLEAN /\ told \in BOOLEAN
  /\ lock \in {"unlocked", "waiting", "locking", "locked"}
  /\ call \in Calls
  /\ drawn \in SUBSET Screens
  /\ call # Idle => seat

\* Only an output that is there is enabled, and a handler waits for a screen
\* that is lit, or being powered off.
Handler(x) ==
  /\ screen[x].enabled => screen[x].there
  /\ call = FrameOf(x) => Lit(screen[x])
  /\ call = OffOf(x) => screen[x].off /\ screen[x].there

\* A screen that is lit, or whose powering off may still fail.
Shines(x) == x \in Active(screen) /\ (screen[x].off => call = OffOf(x))

\* What is dark was cleared, unless powering it off is under way.
Dark(x) ==
  seat /\ (~screen[x].enabled \/ (screen[x].off /\ call # OffOf(x))) => screen[x].shown = "none"

\* A flip that is pending has its event coming, and what waits for a frame waits
\* for a flip or an idle callback.
Flips(x) ==
  /\ screen[x].flip => screen[x].owed > 0 /\ seat
  /\ Shines(x) /\ seat /\ screen[x].pending => screen[x].flip
  /\ Shines(x) /\ screen[x].needs /\ ~screen[x].missed => screen[x].idle \/ screen[x].pending

Due(x) == screen[x].needs \/ screen[x].missed \/ call = FrameOf(x)

\* A screen the lock waits for has a frame due, one that was drawn is covered,
\* and when the lock is confirmed all are, or were excused and have a frame due.
Covered(x) ==
  Shines(x) =>
    /\ lock = "locked" /\ seat /\ screen[x].shown = "open" => x \in excused /\ Due(x)
    /\ lock = "locking" /\ x \notin drawn => Due(x)
    /\ lock = "locking" /\ seat /\ x \in drawn => screen[x].shown # "open"

Sound(x) == Handler(x) /\ Dark(x) /\ Flips(x) /\ Covered(x)

IInv == Types /\ \A x \in Screens : Sound(x)

-----------------------------------------------------------------------------
(* What the operators do to the record of a screen. *)

\* q is the same output, admitted and powered as r is.
SameOutput(q, r) == q \in Record /\ q.there = r.there /\ q.enabled = r.enabled /\ q.off = r.off

\* q has the flips and the content of r.
SameFlips(q, r) == q.flip = r.flip /\ q.owed = r.owed /\ q.shown = r.shown

\* Scheduling a frame.
LEMMA ScheduledRecord ==
  ASSUME NEW r \in Record
  PROVE  LET q == Scheduled(r) IN
         /\ SameOutput(q, r) /\ SameFlips(q, r) /\ q.pending = r.pending
         /\ q.needs /\ ~q.missed /\ (q.idle \/ q.pending)
BY DEF Scheduled, Record, SameOutput, SameFlips

\* Forgetting the pending frame, which schedules another.
LEMMA RestartedRecord ==
  ASSUME NEW r \in Record
  PROVE  LET q == Restarted(r) IN
         /\ SameOutput(q, r) /\ SameFlips(q, r)
         /\ ~q.pending /\ q.needs /\ ~q.missed /\ q.idle
BY DEF Restarted, Scheduled, Record, SameOutput, SameFlips

\* A commit of a buffer, which does nothing while the seat is away.
LEMMA CommittedRecord ==
  ASSUME NEW r \in Record, NEW l \in {"open", "locked"}
  PROVE  LET q == Committed(r, l) IN
         /\ SameOutput(q, r)
         /\ q.pending /\ q.needs = r.needs /\ q.idle = r.idle /\ q.missed = r.missed
         /\ seat => q.flip /\ q.owed > 0 /\ q.shown = l
         /\ ~seat => SameFlips(q, r)
<1>1. CASE seat
  <2>1. r.owed \in Nat
    BY DEF Record
  <2> DEFINE n == r.owed + 1
  <2>2. n \in Nat /\ n > 0
    BY <2>1
  <2>3. Committed(r, l) = [r EXCEPT !.pending = TRUE, !.flip = TRUE, !.owed = n, !.shown = l]
    BY <1>1 DEF Committed
  <2> HIDE DEF n
  <2> QED BY <1>1, <2>2, <2>3 DEF Record, SameOutput
<1>2. CASE ~seat
  BY <1>2 DEF Committed, Record, SameOutput, SameFlips
<1> QED BY <1>1, <1>2

\* What became of a frame that was drawn.
LEMMA FinishedRecord ==
  ASSUME NEW r \in Record, NEW l \in {"open", "locked"}, NEW ok \in BOOLEAN, NEW moving \in BOOLEAN
  PROVE  LET q == Finished(r, ok, l, moving) IN
         /\ SameOutput(q, r)
         /\ ~ok => SameFlips(q, r) /\ q.pending = r.pending /\ q.missed
         /\ ok => /\ q.pending
                  /\ seat => q.flip /\ q.owed > 0 /\ q.shown = l
                  /\ ~seat => SameFlips(q, r)
<1>1. CASE ~ok
  BY <1>1 DEF Finished, Missed, Record, SameOutput, SameFlips
<1>2. CASE ok /\ ~moving
  BY <1>2, CommittedRecord DEF Finished
<1>3. CASE ok /\ moving
  <2>1. Finished(r, ok, l, moving) = Scheduled(Committed(r, l))
    BY <1>3 DEF Finished
  <2>2. Committed(r, l) \in Record
    BY CommittedRecord DEF SameOutput
  <2> DEFINE c == Committed(r, l)
  <2>3. SameOutput(Scheduled(c), c) /\ SameFlips(Scheduled(c), c) /\ Scheduled(c).pending = c.pending
    BY <2>2, ScheduledRecord
  <2>4. /\ SameOutput(c, r) /\ c.pending
        /\ seat => c.flip /\ c.owed > 0 /\ c.shown = l
        /\ ~seat => SameFlips(c, r)
    BY CommittedRecord
  <2> HIDE DEF c
  <2> QED BY <1>3, <2>1, <2>3, <2>4 DEF c, SameOutput, SameFlips
<1> QED BY <1>1, <1>2, <1>3

\* A frame that a flip or an idle callback sends.
LEMMA SentRecord ==
  ASSUME NEW r \in Record, NEW l \in {"open", "locked"}, NEW ok \in BOOLEAN, NEW moving \in BOOLEAN,
         ok => Draws(r)
  PROVE  LET q == Sent(r, ok, l, moving) IN
         /\ SameOutput(q, r)
         /\ ~ok => SameFlips(q, r) /\ ~q.pending /\ (q.needs => q.missed)
                   /\ (r.needs \/ r.missed => q.needs \/ q.missed)
         /\ ok => /\ q.pending
                  /\ seat => q.flip /\ q.owed > 0 /\ q.shown = l
                  /\ ~seat => SameFlips(q, r)
<1>1. CASE Draws(r)
  <2>1. /\ Sent(r, ok, l, moving) = Finished(Started(r), ok, l, moving)
        /\ SameOutput(Started(r), r) /\ SameFlips(Started(r), r) /\ ~Started(r).pending
    BY <1>1 DEF Sent, Started, Record, SameOutput, SameFlips
  <2>2. Started(r) \in Record
    BY <2>1 DEF SameOutput
  <2> DEFINE d == Started(r)
             q == Sent(r, ok, l, moving)
  <2>3. /\ SameOutput(q, d)
        /\ ~ok => SameFlips(q, d) /\ q.pending = d.pending /\ q.missed
        /\ ok => /\ q.pending
                 /\ seat => q.flip /\ q.owed > 0 /\ q.shown = l
                 /\ ~seat => SameFlips(q, d)
    BY <2>1, <2>2, FinishedRecord
  <2> HIDE DEF d, q
  <2>4. SameOutput(d, r) /\ SameFlips(d, r) /\ ~d.pending
    BY <2>1 DEF d
  <2>5. SameOutput(q, r) /\ (SameFlips(q, d) => SameFlips(q, r))
    BY <2>3, <2>4 DEF SameOutput, SameFlips
  <2> QED BY <2>3, <2>4, <2>5 DEF q
<1>2. CASE ~Draws(r) /\ Lit(r)
  BY <1>2 DEF Sent, Draws, Record, SameOutput, SameFlips
<1>3. CASE ~Draws(r) /\ ~Lit(r)
  BY <1>3 DEF Sent, Draws, Record, SameOutput, SameFlips
<1> QED BY <1>1, <1>2, <1>3

-----------------------------------------------------------------------------
(* A frame, drawn or not. *)

\* What the lock does when a frame of x was drawn, as a screen y that is lit, or
\* may be again, sees it.
LEMMA DrawSeen ==
  ASSUME Types, NEW x \in Screens, NEW y \in Screens, NEW ok \in BOOLEAN, Draw(x, ok),
         y \in Active(screen)', screen'[y].off => y # x
  PROVE  /\ ~ok \/ lock # "locking" => UNCHANGED <<lock, drawn, excused>>
         /\ ok /\ lock = "locking" =>
              \/ lock' = "locking" /\ drawn' = drawn \cup {x}
              \/ lock' = "locked" /\ (y \in excused' <=> y \notin drawn \cup {x})
<1>1. CASE ~ok \/ lock # "locking"
  BY <1>1 DEF Draw, Rendered, lockVars
<1>2. CASE ok /\ lock = "locking"
  <2>1. Rendered(x)
    BY <1>2 DEF Draw
  <2>2. CASE Awaited(screen', drawn \cup {x}) = {}
    <3>1. Confirm(screen', holder, drawn \cup {x})
      BY <1>2, <2>1, <2>2 DEF Rendered
    <3>2. lock' = "locked" /\ excused' = Active(screen') \ (drawn \cup {x})
      BY <1>2, <3>1 DEF Confirm
    <3>3. Active(screen') = Active(screen)'
      BY DEF Active
    <3> QED BY <1>2, <3>2, <3>3
  <2>3. CASE Awaited(screen', drawn \cup {x}) # {}
    BY <1>2, <2>1, <2>3 DEF Rendered
  <2> QED BY <2>2, <2>3
<1> QED BY <1>1, <1>2

\* The types of the lock's variables.
LEMMA DrawTypes ==
  ASSUME Types, NEW x \in Screens, NEW ok \in BOOLEAN, Draw(x, ok)
  PROVE  /\ holder' \in BOOLEAN /\ told' \in BOOLEAN
         /\ lock' \in {"unlocked", "waiting", "locking", "locked"}
         /\ drawn' \in SUBSET Screens
BY DEF Types, Draw, Rendered, Confirm, lockVars

\* A frame of x, which leaves it the record q, keeps the invariant.
LEMMA DrawKeeps ==
  ASSUME IInv, NEW x \in Screens, NEW q, NEW ok \in BOOLEAN, Draw(x, ok),
         screen' = [screen EXCEPT ![x] = q], SameOutput(q, screen[x]),
         seat' = seat, call' = call \/ (call = FrameOf(x) /\ call' = Idle),
         q.flip => q.owed > 0 /\ seat,
         Shines(x) /\ seat /\ q.pending => q.flip,
         Shines(x) /\ q.needs /\ ~q.missed => q.idle \/ q.pending,
         ok => Lit(screen[x]) /\ (seat => q.shown = look),
         ~ok => q.shown = screen[x].shown,
         ~ok /\ Due(x) => q.needs \/ q.missed \/ call' = FrameOf(x)
  PROVE  IInv'
<1>1. Types'
  <2>1. Idle \in Calls
    BY DEF Idle, Calls
  <2>2. screen' \in [Screens -> Record]
    BY DEF IInv, Types, SameOutput
  <2> QED BY <2>1, <2>2, DrawTypes DEF IInv, Types
<1>2. ASSUME NEW y \in Screens PROVE Sound(y)'
  <2>1. screen'[y] = IF y = x THEN q ELSE screen[y]
    BY DEF IInv, Types
  <2>2. /\ screen'[y].there = screen[y].there /\ screen'[y].enabled = screen[y].enabled
        /\ screen'[y].off = screen[y].off
    BY <2>1 DEF SameOutput
  <2>3. /\ call' = OffOf(y) <=> call = OffOf(y)
        /\ call' # Idle => call # Idle
        /\ call' = FrameOf(y) => call = FrameOf(y)
        /\ y # x => (call' = FrameOf(y) <=> call = FrameOf(y))
    BY DEF Idle, OffOf, FrameOf
  <2>4. Sound(y)
    BY DEF IInv
  <2>5. Handler(y)'
    BY <2>2, <2>3, <2>4 DEF Sound, Handler, Lit, FrameOf, OffOf
  <2>6. Shines(y)' <=> Shines(y)
    BY <2>2, <2>3 DEF Shines, Active, OffOf
  <2>7. Dark(y)'
    <3>1. CASE y # x
      BY <2>1, <2>3, <2>4, <3>1 DEF Sound, Dark, OffOf
    <3>2. CASE y = x /\ ok
      BY <2>2, <3>2 DEF Dark, Lit
    <3>3. CASE y = x /\ ~ok
      BY <2>1, <2>2, <2>3, <2>4, <3>3 DEF Sound, Dark, OffOf
    <3> QED BY <3>1, <3>2, <3>3
  <2>8. Flips(y)'
    <3>1. CASE y # x
      BY <2>1, <2>4, <2>6, <3>1 DEF Sound, Flips
    <3>2. CASE y = x
      BY <2>1, <2>6, <3>2 DEF Flips
    <3> QED BY <3>1, <3>2
  <2>9. Covered(y)'
    <3> SUFFICES ASSUME Shines(y)'
                 PROVE  /\ (lock = "locked" /\ seat /\ screen[y].shown = "open")' => y \in excused' /\ Due(y)'
                        /\ lock' = "locking" /\ y \notin drawn' => Due(y)'
                        /\ lock' = "locking" /\ seat' /\ y \in drawn' => screen'[y].shown # "open"
      BY DEF Covered
    <3>1. Covered(y) /\ Shines(y)
      BY <2>4, <2>6 DEF Sound
    <3>2. y # x => screen'[y] = screen[y] /\ (Due(y)' <=> Due(y))
      BY <2>1, <2>3 DEF Due, FrameOf
    <3>3. ~ok /\ y = x => screen'[y].shown = screen[y].shown /\ (Due(y) => Due(y)')
      BY <2>1 DEF Due, FrameOf
    <3>4. ok /\ y = x /\ seat => screen'[y].shown = look
      BY <2>1
    <3>5. ok /\ y = x => ~screen'[y].off
      BY <2>2 DEF Lit
    <3>6. CASE ~ok \/ lock # "locking"
      <4>1. UNCHANGED <<lock, drawn, excused>>
        BY <3>6 DEF Draw, Rendered, lockVars
      <4>2. ok => (lock = "locked" => look = "locked")
        BY DEF look, LockActive
      <4> QED BY <3>1, <3>2, <3>3, <3>4, <3>6, <4>1, <4>2 DEF Covered
    <3>7. CASE ok /\ lock = "locking"
      <4>1. look = "locked"
        BY <3>7 DEF look, LockActive
      <4>2. y \in Active(screen)'
        BY DEF Shines
      <4>3. CASE screen'[y].off => y # x
        <5>1. \/ lock' = "locking" /\ drawn' = drawn \cup {x}
              \/ lock' = "locked" /\ (y \in excused' <=> y \notin drawn \cup {x})
          BY <3>7, <4>2, <4>3, DrawSeen DEF IInv
        <5> QED BY <3>1, <3>2, <3>4, <3>7, <4>1, <5>1 DEF Covered
      <4> QED BY <3>5, <3>7, <4>3
    <3> QED BY <3>6, <3>7
  <2> QED BY <2>5, <2>7, <2>8, <2>9 DEF Sound
<1> QED BY <1>1, <1>2 DEF IInv

\* page_flip, of a flip that is pending or forgotten.
LEMMA PageFlipKeeps ==
  ASSUME IInv, NEW x \in Screens, NEW ok \in BOOLEAN, NEW moving \in BOOLEAN,
         PageFlip(x, ok, moving, look), Draw(x, ok)
  PROVE  IInv'
<1> DEFINE r == [screen[x] EXCEPT !.owed = @ - 1]
           done == [r EXCEPT !.flip = FALSE]
           q == screen'[x]
<1>1. look \in {"open", "locked"} /\ screen[x] \in Record /\ screen[x].owed > 0
  BY DEF look, IInv, Types, PageFlip
<1>2. /\ SameOutput(done, screen[x]) /\ ~done.flip
      /\ done.shown = screen[x].shown /\ done.pending = screen[x].pending
      /\ done.needs = screen[x].needs /\ done.missed = screen[x].missed
      /\ done.idle = screen[x].idle /\ r.flip = screen[x].flip
  <2>1. screen[x].owed - 1 \in Nat
    BY <1>1 DEF Record
  <2> QED BY <1>1, <2>1 DEF Record, SameOutput
<1>3. /\ UNCHANGED <<seat, call>>
      /\ IF r.flip /\ seat THEN Outcome(done, ok, moving) ELSE ~ok /\ ~moving
      /\ screen' = [screen EXCEPT ![x] = IF r.flip /\ seat THEN Sent(done, ok, look, moving) ELSE done]
  BY DEF PageFlip
<1> HIDE DEF r, done
<1>4. /\ Flips(x) /\ screen' = [screen EXCEPT ![x] = q]
      /\ q = IF r.flip /\ seat THEN Sent(done, ok, look, moving) ELSE done
  BY <1>3 DEF IInv, Types, Sound
<1>5. CASE r.flip /\ seat
  <2>1. ok => Draws(done)
    BY <1>3, <1>5 DEF Outcome
  <2>2. /\ SameOutput(q, done)
        /\ ~ok => SameFlips(q, done) /\ ~q.pending /\ (q.needs => q.missed)
                  /\ (done.needs \/ done.missed => q.needs \/ q.missed)
        /\ ok => /\ q.pending
                 /\ seat => q.flip /\ q.owed > 0 /\ q.shown = look
    <3>1. done \in Record
      BY <1>2 DEF SameOutput
    <3>2. q = Sent(done, ok, look, moving)
      BY <1>4, <1>5
    <3> QED BY <1>1, <2>1, <3>1, <3>2, SentRecord
  <2>3. ok => Lit(screen[x])
    BY <1>2, <2>1 DEF Draws, Lit, SameOutput
  <2>4. SameOutput(q, screen[x])
    BY <1>2, <2>2 DEF SameOutput
  <2>5. /\ q.flip => q.owed > 0 /\ seat
        /\ seat /\ q.pending => q.flip
        /\ q.needs /\ ~q.missed => q.idle \/ q.pending
    BY <1>2, <1>5, <2>2 DEF SameFlips
  <2>6. ~ok => q.shown = screen[x].shown /\ (Due(x) => q.needs \/ q.missed \/ call' = FrameOf(x))
    BY <1>2, <1>3, <2>2 DEF Due, SameFlips
  <2> HIDE DEF q
  <2> QED BY <1>3, <1>4, <2>2, <2>3, <2>4, <2>5, <2>6, DrawKeeps
<1>6. CASE ~(r.flip /\ seat)
  <2>1. ~ok /\ q = done
    BY <1>3, <1>4, <1>6
  <2> HIDE DEF q
  <2> QED BY <1>2, <1>3, <1>4, <1>6, <2>1, DrawKeeps DEF Due, Flips
<1> QED BY <1>5, <1>6

\* idle_frame, when its commit waits for nothing.
LEMMA IdleFrameKeeps ==
  ASSUME IInv, NEW x \in Screens, NEW ok \in BOOLEAN, NEW moving \in BOOLEAN,
         IdleFrame(x, ok, moving, look), Draw(x, ok)
  PROVE  IInv'
<1> DEFINE r == [screen[x] EXCEPT !.idle = FALSE]
           q == screen'[x]
<1>1. look \in {"open", "locked"} /\ screen[x] \in Record
  BY DEF look, IInv, Types
<1>2. /\ SameOutput(r, screen[x]) /\ SameFlips(r, screen[x]) /\ r.pending = screen[x].pending
      /\ r.needs = screen[x].needs /\ r.missed = screen[x].missed
  BY <1>1 DEF Record, SameOutput, SameFlips
<1>3. /\ UNCHANGED <<seat, call>>
      /\ IF r.pending THEN ~ok /\ ~moving ELSE Outcome(r, ok, moving)
      /\ screen' = [screen EXCEPT ![x] = IF r.pending THEN r ELSE Sent(r, ok, look, moving)]
  BY DEF IdleFrame
<1> HIDE DEF r
<1>4. /\ Flips(x) /\ screen' = [screen EXCEPT ![x] = q]
      /\ q = IF r.pending THEN r ELSE Sent(r, ok, look, moving)
  BY <1>3 DEF IInv, Types, Sound
<1>5. CASE ~r.pending
  <2>1. ok => Draws(r)
    BY <1>3, <1>5 DEF Outcome
  <2>2. /\ SameOutput(q, r)
        /\ ~ok => SameFlips(q, r) /\ ~q.pending /\ (q.needs => q.missed)
                  /\ (r.needs \/ r.missed => q.needs \/ q.missed)
        /\ ok => /\ q.pending
                 /\ seat => q.flip /\ q.owed > 0 /\ q.shown = look
                 /\ ~seat => SameFlips(q, r)
    <3>1. r \in Record
      BY <1>2 DEF SameOutput
    <3>2. q = Sent(r, ok, look, moving)
      BY <1>4, <1>5
    <3> HIDE DEF q
    <3> QED BY <1>1, <2>1, <3>1, <3>2, SentRecord
  <2>3. ok => Lit(screen[x])
    BY <1>2, <2>1 DEF Draws, Lit, SameOutput
  <2>4. SameOutput(q, screen[x])
    BY <1>2, <2>2 DEF SameOutput
  <2>5. q.flip => q.owed > 0 /\ seat
    BY <1>2, <1>4, <2>2 DEF Flips, SameFlips
  <2> HIDE DEF q
  <2> QED BY <1>2, <1>3, <1>4, <1>5, <2>2, <2>3, <2>4, <2>5, DrawKeeps DEF Due, SameFlips
<1>6. CASE r.pending
  <2>1. ~ok /\ q = r
    BY <1>3, <1>4, <1>6
  <2> HIDE DEF q
  <2> QED BY <1>2, <1>3, <1>4, <1>6, <2>1, DrawKeeps DEF Due, Flips, SameFlips
<1> QED BY <1>5, <1>6

\* The commit that waited for a flip.
LEMMA IdleFrameFinishKeeps ==
  ASSUME IInv, NEW x \in Screens, NEW ok \in BOOLEAN, NEW moving \in BOOLEAN,
         IdleFrameFinish(x, ok, moving, look), Draw(x, ok)
  PROVE  IInv'
<1> DEFINE r == screen[x]
           q == screen'[x]
<1>1. look \in {"open", "locked"} /\ r \in Record /\ Flips(x) /\ Lit(r) /\ seat
  BY DEF look, IInv, Types, Sound, Handler, IdleFrameFinish, FrameOf, Idle
<1>2. /\ call = FrameOf(x) /\ call' = Idle /\ seat' = seat
      /\ screen' = [screen EXCEPT ![x] = q] /\ q = Finished(r, ok, look, moving)
  BY DEF IdleFrameFinish, FrameOf, IInv, Types
<1>3. /\ SameOutput(q, r)
      /\ ~ok => SameFlips(q, r) /\ q.pending = r.pending /\ q.missed
      /\ ok => q.pending /\ (seat => q.flip /\ q.owed > 0 /\ q.shown = look)
  BY <1>1, <1>2, FinishedRecord
<1> HIDE DEF q
<1> QED BY <1>1, <1>2, <1>3, DrawKeeps DEF Due, Flips, SameFlips

-----------------------------------------------------------------------------
(* Steps that draw nothing. *)

\* What the screen y keeps of the frames it has due and of what it shows.
Kept(y) ==
  /\ Due(y)' \/ (Shines(y) /\ (Due(y) => Due(y)'))
  /\ seat' => \/ screen'[y].shown \in {"none", look}
              \/ Shines(y) /\ seat /\ screen'[y].shown = screen[y].shown

\* A screen that keeps these is covered as before.
LEMMA KeptIsCovered ==
  ASSUME NEW y \in Screens, Covered(y), lock' = lock,
         Shines(y)' => Kept(y) /\ (y \in drawn' <=> y \in drawn) /\ (y \in excused' <=> y \in excused)
  PROVE  Covered(y)'
<1> SUFFICES ASSUME Shines(y)'
             PROVE  /\ lock' = "locked" /\ seat' /\ screen'[y].shown = "open" => y \in excused' /\ Due(y)'
                    /\ lock' = "locking" /\ y \notin drawn' => Due(y)'
                    /\ lock' = "locking" /\ seat' /\ y \in drawn' => screen'[y].shown # "open"
  BY DEF Covered
<1>1. lock \in {"locking", "locked"} => look = "locked"
  BY DEF look, LockActive
<1> QED BY <1>1 DEF Kept, Covered

\* The types of the variables of a lock that stays as it is.
LEMMA LockTypes ==
  ASSUME IInv, UNCHANGED lockVars
  PROVE  /\ holder' \in BOOLEAN /\ told' \in BOOLEAN
         /\ lock' \in {"unlocked", "waiting", "locking", "locked"}
         /\ drawn' \in SUBSET Screens
BY DEF IInv, Types, lockVars

\* Before and after a step, no handler waits for a screen but x.
WaitsFor(x) ==
  \A y \in Screens \ {x} : {call, call'} \cap {FrameOf(y), OffOf(y)} = {}

\* A step that leaves the lock alone and of the screens changes x alone.
LEMMA OneKeeps ==
  ASSUME IInv, UNCHANGED lockVars, NEW x \in Screens, NEW q \in Record,
         screen' = [screen EXCEPT ![x] = q], seat' = seat,
         call' \in Calls,
         WaitsFor(x),
         call' # Idle => seat,
         Handler(x)', Dark(x)', Flips(x)', Shines(x)' => Kept(x)
  PROVE  IInv'
<1>1. Types'
  BY LockTypes DEF IInv, Types
<1>2. ASSUME NEW y \in Screens PROVE Sound(y)'
  <2>1. UNCHANGED <<lock, drawn, excused>> /\ Sound(y)
    BY DEF lockVars, IInv
  <2>2. CASE y = x
    BY <2>1, <2>2, KeptIsCovered DEF Sound
  <2>3. CASE y # x
    <3> /\ call # OffOf(y) /\ call' # OffOf(y) /\ call # FrameOf(y) /\ call' # FrameOf(y)
      BY <2>3 DEF WaitsFor
    <3>1. screen'[y] = screen[y]
      BY <2>3 DEF IInv, Types
    <3>2. Shines(y)' <=> Shines(y)
      BY <2>3, <3>1 DEF Shines, Active
    <3>3. Handler(y)'
      BY <2>1, <2>3, <3>1 DEF Sound, Handler
    <3>4. Dark(y)'
      BY <2>1, <2>3, <3>1 DEF Sound, Dark
    <3>5. Flips(y)'
      BY <2>1, <3>1, <3>2 DEF Sound, Flips
    <3>6. Shines(y)' => Kept(y)
      BY <2>3, <3>1, <3>2 DEF Kept, Due
    <3>7. Covered(y)'
      BY <2>1, <3>6, KeptIsCovered DEF Sound
    <3> QED BY <3>3, <3>4, <3>5, <3>7 DEF Sound
  <2> QED BY <2>2, <2>3
<1> QED BY <1>1, <1>2 DEF IInv

\* The handlers drain_flips waits in.
LEMMA Handlers ==
  ASSUME NEW x \in Screens, NEW y \in Screens
  PROVE  /\ Idle # FrameOf(y) /\ Idle # OffOf(y) /\ FrameOf(x) # OffOf(y)
         /\ x # y => FrameOf(x) # FrameOf(y) /\ OffOf(x) # OffOf(y)
         /\ {Idle, FrameOf(x), OffOf(x)} \subseteq Calls
<1>1. Idle.kind = "none" /\ FrameOf(x).kind = "frame" /\ OffOf(y).kind = "off" /\ FrameOf(y).kind = "frame"
  BY DEF Idle, FrameOf, OffOf
<1>2. x # y => FrameOf(x).on # FrameOf(y).on /\ OffOf(x).on # OffOf(y).on
  BY DEF FrameOf, OffOf
<1>3. {Idle, FrameOf(x), OffOf(x)} \subseteq Calls
  BY DEF Idle, FrameOf, OffOf, Calls
<1> QED BY <1>1, <1>2, <1>3

\* idle_frame, with a flip to wait for.
LEMMA IdleFrameStartKeeps ==
  ASSUME IInv, NEW x \in Screens, IdleFrameStart(x), UNCHANGED lockVars
  PROVE  IInv'
<1> DEFINE r == [screen[x] EXCEPT !.idle = FALSE]
           q == Started(r)
<1>1. screen[x] \in Record /\ Sound(x)
  BY DEF IInv, Types
<1>2. /\ SameOutput(q, screen[x]) /\ SameFlips(q, screen[x]) /\ ~q.pending /\ ~q.needs
      /\ r.flip = screen[x].flip /\ r.enabled = screen[x].enabled /\ r.off = screen[x].off
  BY <1>1 DEF Record, SameOutput, SameFlips, Started
<1>3. call = Idle /\ call' = FrameOf(x) /\ r.flip /\ Lit(r) /\ seat' = seat /\ screen' = [screen EXCEPT ![x] = q]
  BY DEF IdleFrameStart, FrameOf, Draws
<1> HIDE DEF r, q
<1>4. screen'[x] = q /\ seat /\ Lit(q) /\ Lit(screen[x])
  BY <1>1, <1>2, <1>3 DEF IInv, Types, Sound, Flips, Lit, SameOutput
<1>5. Handler(x)'
  BY <1>1, <1>2, <1>3, <1>4, Handlers DEF Sound, Handler, SameOutput
<1>6. Dark(x)'
  BY <1>4 DEF Dark, Lit
<1>7. Flips(x)'
  BY <1>1, <1>2, <1>3, <1>4 DEF Sound, Flips, SameFlips
<1>8. Shines(x)' => Kept(x)
  <2>1. Due(x)'
    BY <1>3 DEF Due, FrameOf
  <2>2. Shines(x)' => Shines(x)
    BY <1>2, <1>4 DEF Shines, Active, Lit, SameOutput
  <2> QED BY <1>2, <1>4, <2>1, <2>2 DEF Kept, SameFlips
<1>9. WaitsFor(x)
  BY <1>3, Handlers DEF WaitsFor
<1> QED BY <1>2, <1>3, <1>4, <1>5, <1>6, <1>7, <1>8, <1>9, Handlers, OneKeeps DEF SameOutput

\* Something to draw on x.
LEMMA DamageKeeps ==
  ASSUME IInv, NEW x \in Screens, Damage(x), UNCHANGED lockVars
  PROVE  IInv'
<1> DEFINE q == Scheduled(screen[x])
<1>1. screen[x] \in Record /\ Sound(x)
  BY DEF IInv, Types
<1>2. call = Idle /\ call' = call /\ seat' = seat /\ screen' = [screen EXCEPT ![x] = q]
  BY DEF Damage
<1>3. /\ SameOutput(q, screen[x]) /\ SameFlips(q, screen[x]) /\ q.pending = screen[x].pending
      /\ q.needs /\ ~q.missed /\ (q.idle \/ q.pending)
  BY <1>1, ScheduledRecord
<1> HIDE DEF q
<1>4. screen'[x] = q
  BY <1>2 DEF IInv, Types
<1>5. Shines(x)' <=> Shines(x)
  BY <1>2, <1>3, <1>4 DEF Shines, Active, SameOutput
<1>6. Handler(x)' /\ Dark(x)'
  BY <1>1, <1>2, <1>3, <1>4 DEF Sound, Handler, Dark, Lit, SameOutput, SameFlips
<1>7. Flips(x)'
  BY <1>1, <1>2, <1>3, <1>4, <1>5 DEF Sound, Flips, SameFlips
<1>8. Shines(x)' => Kept(x)
  BY <1>2, <1>3, <1>4, <1>5 DEF Kept, Due, SameFlips
<1>9. WaitsFor(x)
  BY <1>2, Handlers DEF WaitsFor
<1> QED BY <1>2, <1>3, <1>6, <1>7, <1>8, <1>9, Handlers, OneKeeps DEF SameOutput

\* output_power, on: a screen that was dark has a frame due.
LEMMA PowerOnKeeps ==
  ASSUME IInv, NEW x \in Screens, PowerOn(x), UNCHANGED lockVars
  PROVE  IInv'
<1> DEFINE r == [screen[x] EXCEPT !.off = FALSE]
           q == Restarted(r)
<1>1. screen[x] \in Record /\ Sound(x)
  BY DEF IInv, Types
<1>2. call = Idle /\ call' = call /\ seat' = seat /\ screen' = [screen EXCEPT ![x] = q] /\ screen[x].off
  BY DEF PowerOn
<1>3. /\ r \in Record /\ SameFlips(r, screen[x]) /\ ~r.off
      /\ r.there = screen[x].there /\ r.enabled = screen[x].enabled
  BY <1>1 DEF Record, SameFlips
<1> HIDE DEF r
<1>4. SameOutput(q, r) /\ SameFlips(q, r) /\ ~q.pending /\ q.needs /\ ~q.missed /\ q.idle
  BY <1>3, RestartedRecord
<1> HIDE DEF q
<1>5. screen'[x] = q
  BY <1>2 DEF IInv, Types
<1>6. seat => q.shown = "none"
  BY <1>1, <1>2, <1>3, <1>4, Handlers DEF Sound, Dark, SameFlips
<1>7. Handler(x)'
  BY <1>1, <1>2, <1>3, <1>4, <1>5, Handlers DEF Sound, Handler, Lit, SameOutput
<1>8. Dark(x)'
  BY <1>2, <1>5, <1>6 DEF Dark
<1>9. Flips(x)'
  BY <1>1, <1>2, <1>3, <1>4, <1>5 DEF Sound, Flips, SameFlips
<1>10. Shines(x)' => Kept(x)
  BY <1>2, <1>4, <1>5, <1>6 DEF Kept, Due
<1>11. WaitsFor(x)
  BY <1>2, Handlers DEF WaitsFor
<1> QED BY <1>2, <1>4, <1>7, <1>8, <1>9, <1>10, <1>11, Handlers, OneKeeps DEF SameOutput

\* output_power, off: the screen is dark at once, or when its flip was waited for.
LEMMA PowerOffKeeps ==
  ASSUME IInv, NEW x \in Screens, PowerOff(x), UNCHANGED lockVars
  PROVE  IInv'
<1> DEFINE q == [screen[x] EXCEPT !.off = TRUE]
<1>1. screen[x] \in Record /\ Sound(x)
  BY DEF IInv, Types
<1>2. /\ call = Idle /\ call' = (IF seat THEN OffOf(x) ELSE Idle) /\ seat' = seat
      /\ screen' = [screen EXCEPT ![x] = q] /\ ~screen[x].off /\ screen[x].there
  BY DEF PowerOff, OffOf
<1>3. /\ q \in Record /\ SameFlips(q, screen[x]) /\ q.off
      /\ q.there = screen[x].there /\ q.enabled = screen[x].enabled
      /\ q.pending = screen[x].pending /\ q.needs = screen[x].needs
      /\ q.missed = screen[x].missed /\ q.idle = screen[x].idle
  BY <1>1 DEF Record, SameFlips
<1> HIDE DEF q
<1>4. screen'[x] = q
  BY <1>2 DEF IInv, Types
<1>5. Shines(x)' => Shines(x)
  BY <1>2, <1>3, <1>4 DEF Shines, Active
<1>6. Handler(x)'
  BY <1>1, <1>2, <1>3, <1>4, Handlers DEF Sound, Handler
<1>7. Dark(x)'
  BY <1>1, <1>2, <1>3, <1>4 DEF Sound, Dark, SameFlips
<1>8. Flips(x)'
  BY <1>1, <1>2, <1>3, <1>4, <1>5 DEF Sound, Flips, SameFlips
<1>9. Shines(x)' => Kept(x)
  BY <1>2, <1>3, <1>4, <1>5, Handlers DEF Kept, Due, SameFlips
<1>10. WaitsFor(x)
  BY <1>2, Handlers DEF WaitsFor
<1>11. call' \in Calls /\ (call' # Idle => seat)
  BY <1>2, Handlers
<1> QED BY <1>2, <1>3, <1>6, <1>7, <1>8, <1>9, <1>10, <1>11, OneKeeps

\* The commit that clears the CRTC, or fails and leaves the screen lit.
LEMMA PowerOffFinishKeeps ==
  ASSUME IInv, NEW x \in Screens, NEW ok \in BOOLEAN, PowerOffFinish(x, ok), UNCHANGED lockVars
  PROVE  IInv'
<1> DEFINE q == IF ok THEN Unlit(screen[x]) ELSE [screen[x] EXCEPT !.off = FALSE]
<1>1. screen[x] \in Record /\ Sound(x)
  BY DEF IInv, Types
<1>2. /\ call = OffOf(x) /\ call' = Idle /\ seat' = seat /\ screen' = [screen EXCEPT ![x] = q]
  BY DEF PowerOffFinish, OffOf
<1>3. /\ q \in Record /\ q.there = screen[x].there /\ q.enabled = screen[x].enabled
      /\ q.pending = screen[x].pending /\ q.needs = screen[x].needs
      /\ q.missed = screen[x].missed /\ q.idle = screen[x].idle
      /\ ok => q.off = screen[x].off /\ q.shown = "none" /\ ~q.flip
      /\ ~ok => ~q.off /\ SameFlips(q, screen[x])
  BY <1>1 DEF Record, SameFlips, Unlit
<1>4. seat /\ screen[x].off /\ screen[x].there
  BY <1>1, <1>2, Handlers DEF Sound, Handler, IInv, Types
<1> HIDE DEF q
<1>5. screen'[x] = q
  BY <1>2 DEF IInv, Types
<1>6. Handler(x)'
  BY <1>1, <1>2, <1>3, <1>5, Handlers DEF Sound, Handler
<1>7. Dark(x)'
  BY <1>1, <1>2, <1>3, <1>4, <1>5 DEF Sound, Dark, SameFlips
<1>8. Shines(x)' => ~ok /\ Shines(x)
  BY <1>2, <1>3, <1>4, <1>5, Handlers DEF Shines, Active
<1>9. Flips(x)'
  BY <1>1, <1>2, <1>3, <1>4, <1>5, <1>8 DEF Sound, Flips, SameFlips
<1>10. Shines(x)' => Kept(x)
  BY <1>2, <1>3, <1>4, <1>5, <1>8, Handlers DEF Kept, Due, SameFlips
<1>11. WaitsFor(x)
  BY <1>2, Handlers DEF WaitsFor
<1> QED BY <1>2, <1>3, <1>6, <1>7, <1>9, <1>10, <1>11, Handlers, OneKeeps

-----------------------------------------------------------------------------
(* Steps that change every screen. *)

\* schedule_scene, seen from one screen.
LEMMA SceneRecord ==
  ASSUME NEW f \in [Screens -> Record], NEW y \in Screens
  PROVE  LET q == SceneScheduled(f)[y] IN
         /\ SameOutput(q, f[y]) /\ SameFlips(q, f[y]) /\ q.pending = f[y].pending
         /\ IF y \in Active(f) THEN q.needs /\ ~q.missed /\ (q.idle \/ q.pending) ELSE q = f[y]
<1>1. SceneScheduled(f)[y] = IF y \in Active(f) THEN Scheduled(f[y]) ELSE f[y]
  BY DEF SceneScheduled
<1>2. CASE y \in Active(f)
  BY <1>1, <1>2, ScheduledRecord
<1>3. CASE y \notin Active(f)
  BY <1>1, <1>3 DEF SameOutput, SameFlips
<1> QED BY <1>2, <1>3

\* schedule_scene makes a frame due on every output and disturbs nothing else.
LEMMA SceneKeeps ==
  ASSUME IInv, UNCHANGED <<seat, call>>, screen' = SceneScheduled(screen)
  PROVE  /\ screen' \in [Screens -> Record]
         /\ \A y \in Screens :
              /\ Handler(y)' /\ Dark(y)' /\ Flips(y)'
              /\ Shines(y)' <=> Shines(y)
              /\ Shines(y) => Due(y)' /\ screen'[y].shown = screen[y].shown
<1>1. ASSUME NEW y \in Screens
      PROVE  /\ SameOutput(screen'[y], screen[y]) /\ SameFlips(screen'[y], screen[y])
             /\ screen'[y].pending = screen[y].pending
             /\ IF y \in Active(screen)
                THEN screen'[y].needs /\ ~screen'[y].missed /\ (screen'[y].idle \/ screen'[y].pending)
                ELSE screen'[y] = screen[y]
  BY SceneRecord DEF IInv, Types
<1>2. screen' \in [Screens -> Record]
  BY <1>1 DEF SceneScheduled, SameOutput
<1>3. ASSUME NEW y \in Screens
      PROVE  /\ Handler(y)' /\ Dark(y)' /\ Flips(y)'
             /\ Shines(y)' <=> Shines(y)
             /\ Shines(y) => Due(y)' /\ screen'[y].shown = screen[y].shown
  <2>1. Sound(y)
    BY DEF IInv
  <2>2. Shines(y)' <=> Shines(y)
    BY <1>1 DEF Shines, Active, SameOutput
  <2>3. Handler(y)'
    BY <1>1, <2>1 DEF Sound, Handler, Lit, SameOutput
  <2>4. Dark(y)'
    BY <1>1, <2>1 DEF Sound, Dark, SameOutput, SameFlips
  <2>5. Flips(y)'
    BY <1>1, <2>1, <2>2 DEF Sound, Flips, SameFlips
  <2>6. Shines(y) => Due(y)' /\ screen'[y].shown = screen[y].shown
    BY <1>1 DEF Shines, Due, SameFlips
  <2> QED BY <2>2, <2>3, <2>4, <2>5, <2>6
<1> QED BY <1>2, <1>3

\* A configuration, seen from one screen.
LEMMA ConfiguredRecord ==
  ASSUME NEW r \in Record, NEW on \in BOOLEAN, NEW l \in {"open", "locked"}, seat
  PROVE  LET q == Configured(r, on, l) IN
         /\ q \in Record /\ q.there = r.there /\ q.off = r.off /\ q.enabled = on
         /\ q.needs = r.needs /\ q.missed = r.missed /\ q.idle = r.idle
         /\ on => q.pending
         /\ IF on /\ ~r.off THEN q.flip /\ q.owed > 0 /\ q.shown = l ELSE ~q.flip /\ q.shown = "none"
<1>1. CASE ~on
  BY <1>1 DEF Configured, Unlit, Record
<1>2. CASE on /\ r.off
  BY <1>2 DEF Configured, Unlit, Record
<1>3. CASE on /\ ~r.off
  <2> DEFINE c == Committed(r, l)
  <2>1. /\ SameOutput(c, r) /\ c.pending /\ c.needs = r.needs /\ c.idle = r.idle /\ c.missed = r.missed
        /\ c.flip /\ c.owed > 0 /\ c.shown = l
    BY CommittedRecord
  <2>2. Configured(r, on, l) = [c EXCEPT !.enabled = TRUE]
    BY <1>3 DEF Configured
  <2> HIDE DEF c
  <2> QED BY <1>3, <2>1, <2>2 DEF Record, SameOutput
<1> QED BY <1>1, <1>2, <1>3

\* What the screens are configured to, each admitted or not.
Outcomes(f, on) ==
  [x \in Screens |-> IF f[x].there THEN Configured(f[x], x \in on, look) ELSE f[x]]

\* A configuration leaves the handler that waited for it; what it lights shows
\* what frames are drawn with.
LEMMA ConfiguredKeeps ==
  ASSUME IInv, call.kind = "apply", NEW on, NEW y \in Screens
  PROVE  LET q == Outcomes(screen, on)[y] IN
         /\ q \in Record /\ q.there = screen[y].there /\ q.off = screen[y].off
         /\ q.enabled => q.there
         /\ q.enabled <=> y \in on /\ q.there
         /\ q.needs = screen[y].needs /\ q.missed = screen[y].missed
         /\ ~q.enabled \/ q.off => q.shown = "none"
         /\ q.flip => q.owed > 0
         /\ q.enabled => q.pending
         /\ q.enabled /\ ~q.off => q.flip /\ q.shown = look
<1> DEFINE q == Outcomes(screen, on)[y]
<1>1. seat /\ screen[y] \in Record /\ Sound(y) /\ call # OffOf(y) /\ look \in {"open", "locked"}
  BY DEF IInv, Types, Sound, Handler, Idle, OffOf, look
<1>2. q = IF screen[y].there THEN Configured(screen[y], y \in on, look) ELSE screen[y]
  BY DEF Outcomes
<1> HIDE DEF q
<1>3. CASE screen[y].there
  <2>1. q = IF y \in on THEN Configured(screen[y], TRUE, look) ELSE Configured(screen[y], FALSE, look)
    <3>1. CASE y \in on
      <4>1. (y \in on) = TRUE
        BY <3>1
      <4> QED BY <1>2, <1>3, <3>1, <4>1
    <3>2. CASE y \notin on
      <4>1. (y \in on) = FALSE
        BY <3>2
      <4> QED BY <1>2, <1>3, <3>2, <4>1
    <3> QED BY <3>1, <3>2
  <2>2. /\ q \in Record /\ q.there = screen[y].there /\ q.off = screen[y].off /\ (q.enabled <=> y \in on)
        /\ q.needs = screen[y].needs /\ q.missed = screen[y].missed
        /\ y \in on => q.pending
        /\ IF y \in on /\ ~screen[y].off THEN q.flip /\ q.owed > 0 /\ q.shown = look
           ELSE ~q.flip /\ q.shown = "none"
    <3>1. CASE y \in on
      <4>1. q = Configured(screen[y], TRUE, look)
        BY <2>1, <3>1
      <4> QED BY <1>1, <3>1, <4>1, ConfiguredRecord
    <3>2. CASE y \notin on
      <4>1. q = Configured(screen[y], FALSE, look)
        BY <2>1, <3>2
      <4> QED BY <1>1, <3>2, <4>1, ConfiguredRecord
    <3> QED BY <3>1, <3>2
  <2> QED BY <1>3, <2>2 DEF q
<1>4. CASE ~screen[y].there
  <2>1. q = screen[y]
    BY <1>2, <1>4
  <2>2. ~q.enabled /\ q.shown = "none" /\ (q.flip => q.owed > 0)
    BY <1>1, <1>4, <2>1 DEF Sound, Handler, Dark, Flips
  <2> QED BY <1>1, <1>4, <2>1, <2>2 DEF q
<1> QED BY <1>3, <1>4

\* The commit of a configuration, which schedules the scene.
LEMMA ApplyFinishKeeps ==
  ASSUME IInv, ApplyFinish(look), UNCHANGED lockVars
  PROVE  IInv'
<1> DEFINE g == Outcomes(screen, call.on)
<1>1. call.kind = "apply" /\ call' = Idle /\ seat' = seat /\ screen' = SceneScheduled(g) /\ seat
  BY DEF ApplyFinish, Outcomes, IInv, Types, Idle
<1>2. g \in [Screens -> Record]
  BY <1>1, ConfiguredKeeps DEF Outcomes
<1>3. ASSUME NEW y \in Screens
      PROVE  /\ SameOutput(screen'[y], g[y]) /\ SameFlips(screen'[y], g[y]) /\ screen'[y].pending = g[y].pending
             /\ IF y \in Active(g)
                THEN screen'[y].needs /\ ~screen'[y].missed /\ (screen'[y].idle \/ screen'[y].pending)
                ELSE screen'[y] = g[y]
  BY <1>1, <1>2, SceneRecord
<1>4. Types'
  <2>1. screen' \in [Screens -> Record]
    BY <1>1, <1>3 DEF SceneScheduled, SameOutput
  <2>2. Idle \in Calls
    BY DEF Idle, Calls
  <2> QED BY <1>1, <2>1, <2>2, LockTypes DEF IInv, Types
<1>5. ASSUME NEW y \in Screens PROVE Sound(y)'
  <2>1. UNCHANGED <<lock, drawn, excused>> /\ Sound(y)
    BY DEF lockVars, IInv
  <2> DEFINE q == g[y]
  <2>2. /\ q.enabled => q.there
        /\ ~q.enabled \/ q.off => q.shown = "none"
        /\ q.flip => q.owed > 0
        /\ q.enabled /\ ~q.off => q.flip /\ q.shown = look
    BY <1>1, ConfiguredKeeps
  <2> HIDE DEF g
  <2>3. Shines(y)' => q.enabled /\ q.there /\ ~q.off
    BY <1>1, <1>3, Handlers DEF Shines, Active, SameOutput
  <2>4. Handler(y)' /\ Dark(y)'
    BY <1>1, <1>3, <2>2, Handlers DEF Handler, Dark, SameOutput, SameFlips
  <2>5. y \in Active(g) <=> q.there /\ q.enabled
    BY DEF Active
  <2>6. Flips(y)'
    BY <1>1, <1>3, <2>2, <2>3, <2>5 DEF Flips, SameFlips
  <2>7. Shines(y)' => Kept(y)
    BY <1>1, <1>3, <2>2, <2>3, <2>5 DEF Kept, Due, SameFlips
  <2>8. Covered(y)'
    BY <2>1, <2>7, KeptIsCovered DEF Sound
  <2> QED BY <2>4, <2>6, <2>8 DEF Sound
<1> QED BY <1>4, <1>5 DEF IInv

\* The configuration before it is committed again, and no frame is due that was not.
LEMMA ApplyRestoreKeeps ==
  ASSUME IInv, ApplyRestore(look), UNCHANGED lockVars
  PROVE  IInv'
<1> DEFINE on == {x \in Screens : screen[x].enabled}
           g  == Outcomes(screen, on)
<1>1. /\ call.kind = "apply" /\ call' = Idle /\ seat' = seat /\ seat
      /\ screen' = g
  <2>1. \A x \in Screens : Configured(screen[x], screen[x].enabled, look) = Configured(screen[x], x \in on, look)
    BY DEF IInv, Types, Record
  <2> QED BY <2>1 DEF ApplyRestore, Outcomes, IInv, Types, Idle
<1>2. Types'
  <2>1. screen' \in [Screens -> Record]
    BY <1>1, ConfiguredKeeps DEF Outcomes
  <2>2. Idle \in Calls
    BY DEF Idle, Calls
  <2> QED BY <1>1, <2>1, <2>2, LockTypes DEF IInv, Types
<1>3. ASSUME NEW y \in Screens PROVE Sound(y)'
  <2>1. UNCHANGED <<lock, drawn, excused>> /\ Sound(y) /\ call # FrameOf(y) /\ call # OffOf(y)
    BY <1>1 DEF lockVars, IInv, FrameOf, OffOf
  <2> DEFINE q == g[y]
  <2>2. /\ q.there = screen[y].there /\ q.off = screen[y].off
        /\ q.enabled => q.there
        /\ q.enabled <=> screen[y].enabled /\ q.there
        /\ q.needs = screen[y].needs /\ q.missed = screen[y].missed
        /\ ~q.enabled \/ q.off => q.shown = "none"
        /\ q.flip => q.owed > 0
        /\ q.enabled => q.pending
        /\ q.enabled /\ ~q.off => q.flip /\ q.shown = look
    BY <1>1, ConfiguredKeeps
  <2> HIDE DEF g
  <2>3. Shines(y)' => Shines(y) /\ q.enabled /\ ~q.off
    BY <1>1, <2>2, Handlers DEF Shines, Active
  <2>4. Handler(y)' /\ Dark(y)'
    BY <1>1, <2>2, Handlers DEF Handler, Dark
  <2>5. Flips(y)'
    BY <1>1, <2>2, <2>3 DEF Flips
  <2>6. Shines(y)' => Kept(y)
    BY <1>1, <2>1, <2>2, <2>3 DEF Kept, Due
  <2>7. Covered(y)'
    BY <2>1, <2>6, KeptIsCovered DEF Sound
  <2> QED BY <2>4, <2>5, <2>7 DEF Sound
<1> QED BY <1>2, <1>3 DEF IInv

\* A configuration waits for the flips.
LEMMA ApplyStartKeeps ==
  ASSUME IInv, NEW on \in SUBSET Present(screen), ApplyStart(on), UNCHANGED lockVars
  PROVE  IInv'
<1>1. /\ call = Idle /\ call' = [kind |-> "apply", on |-> on] /\ seat /\ UNCHANGED <<screen, seat>>
      /\ UNCHANGED <<lock, drawn, excused>>
  BY DEF ApplyStart, lockVars
<1>2. call' \in Calls
  BY <1>1 DEF Present, Calls
<1>3. Types'
  BY <1>1, <1>2, LockTypes DEF IInv, Types
<1>4. ASSUME NEW y \in Screens PROVE Sound(y)'
  <2>1. Sound(y) /\ call # OffOf(y) /\ call # FrameOf(y) /\ call' # OffOf(y) /\ call' # FrameOf(y)
    BY <1>1, Handlers DEF IInv, OffOf, FrameOf
  <2>2. Shines(y)' <=> Shines(y)
    BY <1>1, <2>1 DEF Shines, Active
  <2> QED BY <1>1, <2>1, <2>2 DEF Sound, Handler, Dark, Flips, Covered, Due
<1> QED BY <1>3, <1>4 DEF IInv

\* Every output is disabled while the seat is away.
LEMMA ApplyAwayKeeps ==
  ASSUME IInv, ApplyAway, UNCHANGED lockVars
  PROVE  IInv'
<1>1. /\ call = Idle /\ ~seat /\ UNCHANGED <<seat, call>>
      /\ screen' = [x \in Screens |-> [screen[x] EXCEPT !.enabled = FALSE]]
  BY DEF ApplyAway
<1>2. ASSUME NEW y \in Screens
      PROVE  screen'[y] \in Record /\ ~screen'[y].enabled /\ screen'[y].flip = screen[y].flip
  BY <1>1 DEF IInv, Types, Record
<1>3. Types'
  BY <1>1, <1>2, LockTypes DEF IInv, Types
<1>4. ASSUME NEW y \in Screens PROVE Sound(y)'
  <2>1. Sound(y) /\ ~Shines(y)'
    BY <1>1, <1>2 DEF IInv, Shines, Active
  <2> QED BY <1>1, <1>2, <2>1, Handlers DEF Sound, Handler, Dark, Flips, Covered
<1> QED BY <1>3, <1>4 DEF IInv

\* The seat is taken away, and with it the flips.
LEMMA PauseKeeps ==
  ASSUME IInv, Pause, UNCHANGED lockVars
  PROVE  IInv'
<1>1. /\ call = Idle /\ call' = call /\ seat' = FALSE
      /\ screen' = [x \in Screens |-> [screen[x] EXCEPT !.flip = FALSE]]
  BY DEF Pause
<1>2. ASSUME NEW y \in Screens
      PROVE  /\ SameOutput(screen'[y], screen[y]) /\ ~screen'[y].flip
             /\ screen'[y].pending = screen[y].pending /\ screen'[y].needs = screen[y].needs
             /\ screen'[y].missed = screen[y].missed /\ screen'[y].idle = screen[y].idle
  BY <1>1 DEF IInv, Types, Record, SameOutput
<1>3. Types'
  BY <1>1, <1>2, LockTypes DEF IInv, Types, SameOutput
<1>4. ASSUME NEW y \in Screens PROVE Sound(y)'
  <2>1. UNCHANGED <<lock, drawn, excused>> /\ Sound(y)
    BY DEF IInv, lockVars
  <2>2. Shines(y)' <=> Shines(y)
    BY <1>1, <1>2 DEF Shines, Active, SameOutput
  <2>3. Handler(y)' /\ Dark(y)'
    BY <1>1, <1>2, <2>1, Handlers DEF Sound, Handler, Dark, SameOutput
  <2>4. Flips(y)'
    BY <1>1, <1>2, <2>1, <2>2 DEF Sound, Flips
  <2>5. Shines(y)' => Kept(y)
    BY <1>1, <1>2, <2>2 DEF Kept, Due
  <2>6. Covered(y)'
    BY <2>1, <2>5, KeptIsCovered DEF Sound
  <2> QED BY <2>3, <2>4, <2>6 DEF Sound
<1> QED BY <1>3, <1>4 DEF IInv

-----------------------------------------------------------------------------
(* Outputs that come and go. *)

\* scan_connectors, seen from one connector.
LEMMA ScannedRecord ==
  ASSUME NEW f \in [Screens -> Record], NEW y \in Screens, NEW gone, NEW bad, NEW fresh,
         y \notin bad \/ y \notin gone \cup fresh
  PROVE  LET q == Scanned(f, gone, bad, fresh)[y] IN
         IF y \in gone \cup fresh
         THEN q \in Record /\ ~q.enabled /\ ~q.off /\ ~q.flip /\ q.shown = "none"
         ELSE /\ SameOutput(q, f[y]) /\ SameFlips(q, f[y]) /\ (q.pending => f[y].pending)
              /\ \/ q = f[y]
                 \/ q.needs /\ ~q.missed /\ (q.idle \/ q.pending)
<1> DEFINE left  == [x \in Screens |-> IF x \in gone THEN Absent ELSE f[x]]
           scene == IF gone = {} THEN left ELSE SceneScheduled(left)
           q     == Scanned(f, gone, bad, fresh)[y]
<1>1. Absent \in Record /\ ~Absent.enabled /\ ~Absent.off /\ ~Absent.flip /\ Absent.shown = "none"
  BY DEF Absent, Record
<1>2. left \in [Screens -> Record] /\ left[y] = IF y \in gone THEN Absent ELSE f[y]
  BY <1>1
<1>3. q = IF y \in bad THEN Restarted(scene[y])
          ELSE IF y \in fresh THEN [Absent EXCEPT !.there = TRUE, !.owed = f[y].owed]
          ELSE scene[y]
  BY DEF Scanned
<1> HIDE DEF left
<1>4. /\ SameOutput(scene[y], left[y]) /\ SameFlips(scene[y], left[y]) /\ scene[y].pending = left[y].pending
      /\ \/ scene[y] = left[y]
         \/ scene[y].needs /\ ~scene[y].missed /\ (scene[y].idle \/ scene[y].pending)
  <2>1. CASE gone = {}
    BY <1>2, <2>1 DEF SameOutput, SameFlips
  <2>2. CASE gone # {}
    BY <1>2, <2>2, SceneRecord
  <2> QED BY <2>1, <2>2
<1> HIDE DEF scene, q
<1>5. CASE y \in bad
  <2>1. q = Restarted(scene[y]) /\ left[y] = f[y] /\ y \notin gone \cup fresh
    BY <1>2, <1>3, <1>5
  <2>2. /\ SameOutput(q, scene[y]) /\ SameFlips(q, scene[y])
        /\ ~q.pending /\ q.needs /\ ~q.missed /\ q.idle
    BY <1>4, <2>1, RestartedRecord DEF SameOutput
  <2> QED BY <1>4, <2>1, <2>2 DEF q, SameOutput, SameFlips
<1>6. CASE y \notin bad /\ y \in fresh
  <2>1. q = [Absent EXCEPT !.there = TRUE, !.owed = f[y].owed]
    BY <1>3, <1>6
  <2>2. f[y].owed \in Nat
    BY DEF Record
  <2>3. q \in Record /\ ~q.enabled /\ ~q.off /\ ~q.flip /\ q.shown = "none"
    BY <2>1, <2>2 DEF Absent, Record
  <2> QED BY <1>6, <2>3 DEF q
<1>7. CASE y \notin bad /\ y \notin fresh
  <2>1. q = scene[y]
    BY <1>3, <1>7
  <2>2. CASE y \in gone
    BY <1>1, <1>2, <1>4, <2>1, <2>2 DEF q, SameOutput, SameFlips
  <2>3. CASE y \notin gone
    BY <1>2, <1>4, <1>7, <2>1, <2>3 DEF q, SameOutput, SameFlips
  <2> QED BY <2>2, <2>3
<1> QED BY <1>5, <1>6, <1>7

\* What a scan finds: a link is bad only where a lit output stays.
ScanArgs(gone, bad, fresh) ==
  /\ gone \in SUBSET Present(screen)
  /\ bad \in SUBSET (MayBeBad \ gone)
  /\ fresh \in SUBSET (MayBeFresh \cup gone)

\* The lock forgets what is gone.
LEMMA ForgottenKeeps ==
  ASSUME IInv, NEW gone, Forgotten(gone)
  PROVE  /\ lock' = lock /\ holder' \in BOOLEAN /\ told' \in BOOLEAN /\ drawn' \in SUBSET Screens
         /\ lock' \in {"unlocked", "waiting", "locking", "locked"}
         /\ \A y \in Screens \ gone : (y \in drawn' <=> y \in drawn) /\ (y \in excused' <=> y \in excused)
BY DEF IInv, Types, Forgotten

\* A scan while the seat is there.
LEMMA HotplugKeeps ==
  ASSUME IInv, NEW gone, NEW bad, NEW fresh, ScanArgs(gone, bad, fresh),
         Hotplug(gone, bad, fresh), Forgotten(gone)
  PROVE  IInv'
<1>1. /\ call = Idle /\ call' = call /\ seat' = seat
      /\ screen' = Scanned(screen, gone, bad, fresh)
  BY DEF Hotplug
<1>2. ASSUME NEW y \in Screens
      PROVE  LET q == screen'[y] IN
             IF y \in gone \cup fresh
             THEN q \in Record /\ ~q.enabled /\ ~q.off /\ ~q.flip /\ q.shown = "none"
             ELSE /\ SameOutput(q, screen[y]) /\ SameFlips(q, screen[y]) /\ (q.pending => screen[y].pending)
                  /\ \/ q = screen[y]
                     \/ q.needs /\ ~q.missed /\ (q.idle \/ q.pending)
  <2>1. y \notin bad \/ y \notin gone \cup fresh
    BY DEF ScanArgs, MayBeBad, MayBeFresh, Active, Present
  <2> QED BY <1>1, <2>1, ScannedRecord DEF IInv, Types
<1>3. Types'
  <2>1. screen' \in [Screens -> Record]
    BY <1>1, <1>2 DEF Scanned, SameOutput
  <2> QED BY <1>1, <2>1, ForgottenKeeps DEF IInv, Types
<1>4. ASSUME NEW y \in Screens PROVE Sound(y)'
  <2>1. Sound(y)
    BY DEF IInv
  <2>2. CASE y \in gone \cup fresh
    <3>1. ~screen'[y].enabled /\ ~screen'[y].flip /\ screen'[y].shown = "none" /\ ~Shines(y)'
      BY <1>2, <2>2 DEF Shines, Active
    <3> QED BY <1>1, <3>1, Handlers DEF Sound, Handler, Dark, Flips, Covered
  <2>3. CASE y \notin gone \cup fresh
    <3>1. /\ SameOutput(screen'[y], screen[y]) /\ SameFlips(screen'[y], screen[y])
          /\ screen'[y].pending => screen[y].pending
          /\ \/ screen'[y] = screen[y]
             \/ screen'[y].needs /\ ~screen'[y].missed /\ (screen'[y].idle \/ screen'[y].pending)
      BY <1>2, <2>3
    <3>2. Shines(y)' <=> Shines(y)
      BY <1>1, <3>1 DEF Shines, Active, SameOutput
    <3>3. Handler(y)' /\ Dark(y)'
      BY <1>1, <2>1, <3>1 DEF Sound, Handler, Dark, Lit, SameOutput, SameFlips
    <3>4. Flips(y)'
      BY <1>1, <2>1, <3>1, <3>2 DEF Sound, Flips, SameFlips
    <3>5. Shines(y)' => Kept(y)
      BY <1>1, <3>1, <3>2 DEF Kept, Due, SameFlips
    <3>6. Covered(y)'
      BY <2>1, <2>3, <3>5, KeptIsCovered, ForgottenKeeps DEF Sound
    <3> QED BY <3>3, <3>4, <3>6 DEF Sound
  <2> QED BY <2>2, <2>3
<1> QED BY <1>3, <1>4 DEF IInv

\* enable_seat: what is lit was cleared, and has a frame due.
LEMMA ResumeKeeps ==
  ASSUME IInv, NEW gone, NEW bad, NEW fresh, ScanArgs(gone, bad, fresh),
         Resume(gone, bad, fresh), Forgotten(gone)
  PROVE  IInv'
<1> DEFINE dark == [x \in Screens |-> [screen[x] EXCEPT !.shown = "none"]]
           scan == Scanned(dark, gone, bad, fresh)
<1>1. /\ call = Idle /\ call' = call /\ seat' = TRUE /\ ~seat
      /\ screen' = [x \in Screens |-> IF x \in Active(scan) THEN Restarted(scan[x]) ELSE scan[x]]
  BY DEF Resume
<1>2. dark \in [Screens -> Record] /\ \A y \in Screens :
        SameOutput(dark[y], screen[y]) /\ dark[y].shown = "none" /\ ~dark[y].flip
  <2>1. ASSUME NEW y \in Screens
        PROVE  /\ SameOutput(dark[y], screen[y]) /\ dark[y].shown = "none"
               /\ dark[y].flip = screen[y].flip
    <3>1. screen[y] \in Record /\ dark[y] = [screen[y] EXCEPT !.shown = "none"]
      BY DEF IInv, Types
    <3> HIDE DEF dark
    <3> QED BY <3>1 DEF Record, SameOutput
  <2>2. \A y \in Screens : ~screen[y].flip
    BY <1>1 DEF IInv, Sound, Flips
  <2> QED BY <2>1, <2>2 DEF SameOutput
<1>3. ASSUME NEW y \in Screens
      PROVE  LET q == screen'[y] IN
             /\ q \in Record /\ ~q.flip /\ q.shown = "none" /\ (q.enabled => q.there)
             /\ q.there /\ q.enabled => y \notin gone /\ ~q.pending /\ q.needs /\ ~q.missed /\ q.idle
  <2>1. y \notin bad \/ y \notin gone \cup fresh
    BY DEF ScanArgs, MayBeBad, MayBeFresh, Active, Present
  <2> DEFINE p == scan[y]
             q == screen'[y]
  <2>2. q = IF y \in Active(scan) THEN Restarted(p) ELSE p
    BY <1>1
  <2>3. IF y \in gone \cup fresh
        THEN p \in Record /\ ~p.enabled /\ ~p.off /\ ~p.flip /\ p.shown = "none"
        ELSE SameOutput(p, dark[y]) /\ SameFlips(p, dark[y])
    BY <1>2, <2>1, ScannedRecord
  <2>4. y \in Active(scan) <=> p.there /\ p.enabled
    BY DEF Active
  <2>5. screen[y].enabled => screen[y].there
    BY DEF IInv, Sound, Handler
  <2> HIDE DEF scan, dark
  <2>6. /\ p \in Record /\ ~p.flip /\ p.shown = "none" /\ (p.enabled => p.there)
        /\ p.there /\ p.enabled => y \notin gone
    BY <1>2, <2>3, <2>5 DEF SameOutput, SameFlips
  <2> HIDE DEF p, q
  <2>7. CASE y \in Active(scan)
    <3>1. SameOutput(q, p) /\ SameFlips(q, p) /\ ~q.pending /\ q.needs /\ ~q.missed /\ q.idle
      BY <2>2, <2>6, <2>7, RestartedRecord
    <3> QED BY <2>4, <2>6, <2>7, <3>1 DEF q, SameOutput, SameFlips
  <2>8. CASE y \notin Active(scan)
    BY <2>2, <2>4, <2>6, <2>8 DEF q
  <2> QED BY <2>7, <2>8
<1>4. Types'
  BY <1>1, <1>3, ForgottenKeeps DEF IInv, Types
<1>5. ASSUME NEW y \in Screens PROVE Sound(y)'
  <2>1. Sound(y) /\ call' # OffOf(y) /\ call' # FrameOf(y)
    BY <1>1, Handlers DEF IInv
  <2>2. Handler(y)' /\ Dark(y)'
    BY <1>1, <1>3, <2>1 DEF Handler, Dark
  <2>3. Shines(y)' => Kept(y)
    BY <1>1, <1>3 DEF Kept, Due, Shines, Active
  <2>4. Flips(y)'
    BY <1>1, <1>3 DEF Flips, Shines, Active
  <2>5. Covered(y)'
    <3>1. Shines(y)' => y \notin gone
      BY <1>3 DEF Shines, Active
    <3> QED BY <2>1, <2>3, <3>1, KeptIsCovered, ForgottenKeeps DEF Sound
  <2> QED BY <2>2, <2>4, <2>5 DEF Sound
<1> QED BY <1>4, <1>5 DEF IInv

-----------------------------------------------------------------------------
(* The lock's own operations. *)

\* A step that schedules the scene, and moves the lock in a way each lit screen
\* may find it moved, keeps the invariant.
LEMMA SceneStepKeeps ==
  ASSUME IInv, UNCHANGED <<seat, call>>, screen' = SceneScheduled(screen),
         holder' \in BOOLEAN, told' \in BOOLEAN, drawn' \in SUBSET Screens,
         lock' \in {"unlocked", "waiting", "locking", "locked"},
         \/ lock' = lock /\ UNCHANGED <<drawn, excused>>
         \/ lock' \in {"unlocked", "waiting"}
         \/ lock' = "locking" /\ drawn' = {}
         \/ lock' = "locked" /\ excused' = Active(screen)
  PROVE  IInv'
<1>1. Types'
  BY SceneKeeps DEF IInv, Types
<1>2. ASSUME NEW y \in Screens PROVE Sound(y)'
  <2>1. /\ Handler(y)' /\ Dark(y)' /\ Flips(y)'
        /\ Shines(y)' <=> Shines(y)
        /\ Shines(y) => Due(y)' /\ screen'[y].shown = screen[y].shown
    BY SceneKeeps
  <2>2. Sound(y)
    BY DEF IInv
  <2>3. Covered(y)'
    <3>1. CASE lock' = lock /\ UNCHANGED <<drawn, excused>>
      BY <2>1, <2>2, <3>1, KeptIsCovered DEF Sound, Kept
    <3>2. CASE lock' # lock \/ drawn' # drawn \/ excused' # excused
      BY <2>1, <3>2 DEF Covered, Shines
    <3> QED BY <3>1, <3>2
  <2> QED BY <2>1, <2>3 DEF Sound
<1> QED BY <1>1, <1>2 DEF IInv

\* begin_locking, of a lock that waits.
LEMMA BeginKeeps ==
  ASSUME IInv, UNCHANGED <<seat, call>>, NEW held \in BOOLEAN,
         lock = "waiting", Begin(screen, held),
         holder' \in BOOLEAN, told' \in BOOLEAN
  PROVE  IInv'
<1>1. screen' = SceneScheduled(screen)
  BY DEF Begin
<1>2. CASE Awaited(screen, {}) = {}
  <2>1. Confirm(screen, held, {})
    BY <1>2 DEF Begin
  <2>2. lock' = "locked" /\ drawn' = {} /\ excused' = Active(screen)
    BY <2>1 DEF Confirm
  <2> QED BY <1>1, <2>2, SceneStepKeeps
<1>3. CASE Awaited(screen, {}) # {}
  BY <1>1, <1>3, SceneStepKeeps DEF Begin
<1> QED BY <1>2, <1>3

\* A client takes the lock, or takes it over.
LEMMA LockKeeps ==
  ASSUME IInv, Lock
  PROVE  IInv'
<1>1. UNCHANGED <<screen, seat, call>> /\ holder' = TRUE
  BY DEF Lock
<1>2. /\ told' \in BOOLEAN /\ drawn' \in SUBSET Screens
      /\ \/ lock' = "waiting"
         \/ /\ LockActive /\ lock' = "locked"
            /\ excused' = IF lock = "locked" THEN excused ELSE Active(screen) \ drawn
  BY DEF Lock, Confirm, IInv, Types
<1>3. Types'
  BY <1>1, <1>2 DEF IInv, Types
<1>4. ASSUME NEW y \in Screens PROVE Sound(y)'
  <2>1. Sound(y) /\ (Shines(y)' <=> Shines(y)) /\ (Due(y)' <=> Due(y))
    BY <1>1 DEF IInv, Shines, Active, Due
  <2>2. Covered(y)'
    BY <1>1, <1>2, <2>1 DEF Sound, Covered, LockActive, Shines
  <2> QED BY <1>1, <2>1, <2>2 DEF Sound, Handler, Dark, Flips
<1> QED BY <1>3, <1>4 DEF IInv

\* The other requests of a client, its death, the deadline and the main loop.
LEMMA ClientKeeps ==
  ASSUME IInv, Client \/ Deadline \/ LockRefresh
  PROVE  IInv'
<1>1. CASE Lock
  BY <1>1, LockKeeps
<1>2. CASE Unlock
  BY <1>2, SceneStepKeeps DEF Unlock, IInv, Types
<1>3. CASE LockerGone
  <2>1. UNCHANGED <<seat, call>> /\ holder' = FALSE /\ told' = FALSE
    BY <1>3 DEF LockerGone
  <2>2. CASE lock = "waiting"
    BY <1>3, <2>1, <2>2, BeginKeeps DEF LockerGone
  <2>3. CASE lock # "waiting" /\ cover # {}
    BY <1>3, <2>1, <2>3, SceneStepKeeps DEF LockerGone, IInv, Types
  <2>4. CASE lock # "waiting" /\ cover = {}
    <3>1. UNCHANGED <<screen, lock, drawn, excused>>
      BY <1>3, <2>4 DEF LockerGone
    <3> QED BY <2>1, <3>1 DEF IInv, Types, Sound, Handler, Dark, Flips, Covered, Shines, Active, Due
  <2> QED BY <2>2, <2>3, <2>4
<1>4. CASE \E x \in Screens : CommitLockSurface(x)
  <2>1. PICK x \in Screens : CommitLockSurface(x)
    BY <1>4
  <2>2. CASE lock = "waiting" /\ Ready(screen, cover')
    BY <2>1, <2>2, BeginKeeps DEF CommitLockSurface, Begin, Confirm, IInv, Types
  <2>3. CASE ~(lock = "waiting" /\ Ready(screen, cover'))
    BY <2>1, <2>3, SceneStepKeeps DEF CommitLockSurface, IInv, Types
  <2> QED BY <2>2, <2>3
<1>5. CASE \E x \in Screens : DestroyLockSurface(x)
  BY <1>5, SceneStepKeeps DEF DestroyLockSurface, IInv, Types
<1>6. CASE Deadline
  BY <1>6, BeginKeeps DEF Deadline, Begin, Confirm, IInv, Types
<1>7. CASE LockRefresh
  BY <1>7, BeginKeeps DEF LockRefresh, Begin, Confirm, IInv, Types
<1> QED BY <1>1, <1>2, <1>3, <1>4, <1>5, <1>6, <1>7 DEF Client

-----------------------------------------------------------------------------
(* The specification. *)

\* No connector has an output yet.
LEMMA InitSound == Init => IInv
<1> SUFFICES ASSUME Init PROVE IInv
  OBVIOUS
<1>1. /\ screen = [x \in Screens |-> Absent] /\ seat = TRUE /\ call = Idle
      /\ lock = "unlocked" /\ holder = FALSE /\ told = FALSE /\ drawn = {}
  BY DEF Init, ScreensInit, LockInit
<1>2. Absent \in Record /\ ~Absent.there /\ ~Absent.enabled /\ ~Absent.flip /\ Absent.shown = "none"
  BY DEF Absent, Record
<1>3. Types
  <2>1. Idle \in Calls
    BY DEF Idle, Calls
  <2> QED BY <1>1, <1>2, <2>1 DEF Types
<1>4. ASSUME NEW y \in Screens PROVE Sound(y)
  <2>1. screen[y] = Absent
    BY <1>1
  <2> QED BY <1>1, <1>2, <2>1, Handlers DEF Sound, Handler, Dark, Flips, Covered, Shines, Active
<1> QED BY <1>3, <1>4 DEF IInv

\* Every step keeps the invariant.
LEMMA NextSound == IInv /\ [Next]_vars => IInv'
<1> SUFFICES ASSUME IInv, [Next]_vars PROVE IInv'
  OBVIOUS
<1>1. CASE \E x \in Screens : Frame(x)
  <2>1. PICK x \in Screens, ok \in BOOLEAN, moving \in BOOLEAN :
          /\ \/ PageFlip(x, ok, moving, look)
             \/ IdleFrame(x, ok, moving, look)
             \/ IdleFrameFinish(x, ok, moving, look)
          /\ Draw(x, ok)
    BY <1>1 DEF Frame
  <2> QED BY <2>1, PageFlipKeeps, IdleFrameKeeps, IdleFrameFinishKeeps
<1>2. CASE Display /\ UNCHANGED lockVars
  <2>1. CASE \E x \in Screens : IdleFrameStart(x)
    BY <1>2, <2>1, IdleFrameStartKeeps
  <2>2. CASE \E x \in Screens : Damage(x)
    BY <1>2, <2>2, DamageKeeps
  <2>3. CASE \E x \in Screens : Power(x)
    BY <1>2, <2>3, PowerOnKeeps, PowerOffKeeps, PowerOffFinishKeeps DEF Power
  <2>4. CASE Apply
    BY <1>2, <2>4, ApplyStartKeeps, ApplyFinishKeeps, ApplyRestoreKeeps, ApplyAwayKeeps DEF Apply
  <2>5. CASE Pause
    BY <1>2, <2>5, PauseKeeps
  <2> QED BY <1>2, <2>1, <2>2, <2>3, <2>4, <2>5 DEF Display
<1>3. CASE Scan
  <2>1. PICK gone \in SUBSET Present(screen) :
        \E bad \in SUBSET (MayBeBad \ gone), fresh \in SUBSET (MayBeFresh \cup gone) :
          /\ Hotplug(gone, bad, fresh) \/ Resume(gone, bad, fresh)
          /\ Forgotten(gone)
    BY <1>3 DEF Scan
  <2> QED BY <2>1, HotplugKeeps, ResumeKeeps DEF ScanArgs
<1>4. CASE Client \/ Deadline \/ LockRefresh
  BY <1>4, ClientKeeps
<1>5. CASE UNCHANGED vars
  BY <1>5 DEF vars, screenVars, lockVars, IInv, Types, Sound, Handler, Dark, Flips, Covered,
              Shines, Active, Due
<1> QED BY <1>1, <1>2, <1>3, <1>4, <1>5 DEF Next

\* In no order of page flips, idle callbacks, configurations, power changes,
\* hotplugs and seat switches does a lit screen wait for a frame that no coming
\* event draws.
THEOREM DueFramesCome == Spec => []FramesAreComing
<1>1. IInv => FramesAreComing
  BY DEF IInv, Sound, Flips, Shines, FramesAreComing, Active
<1> QED BY InitSound, NextSound, <1>1, PTL DEF Spec

\* Once the lock is confirmed no lit screen shows the session but those confirm
\* did not wait for, and until it is each has a locked frame due.
THEOREM LockCovers == Spec => []LockedIsCovered
<1>1. IInv => LockedIsCovered
  BY DEF IInv, Sound, Covered, Shines, Due, FrameOf, Rests, Awaited, LockedIsCovered, Active
<1> QED BY InitSound, NextSound, <1>1, PTL DEF Spec

\* What is powered off or disabled shows nothing.
THEOREM OffIsDark == Spec => []DarkIsDark
<1>1. IInv => DarkIsDark
  BY Handlers DEF IInv, Sound, Dark, DarkIsDark
<1> QED BY InitSound, NextSound, <1>1, PTL DEF Spec
=============================================================================
