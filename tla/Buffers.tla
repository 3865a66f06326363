------------------------------ MODULE Buffers ------------------------------
(***************************************************************************)
(* Buffers (base.c, buffer.c) and who uses them: the surface they are      *)
(* attached to (surface.c), the texture made of them (render.c), the       *)
(* frames they are read for or shown as (output.c, space.c), and the       *)
(* output's scanout (kms.c); with the release points of explicit           *)
(* synchronization and presentation feedback.  There is one surface,       *)
(* whose commits are applied as they are made, and one output.             *)
(***************************************************************************)
EXTENDS Integers, FiniteSets

CONSTANTS
  Shm, Gpu,    \* the client's buffers: in shared memory and dmabufs
  RingBuffers,       \* the output's own buffers (RING_SLOTS, and those of a ring before)
  RingSlots,   \* RING_SLOTS
  MaxApplied,  \* bound: commits that attach a buffer
  MaxHeld,     \* bound: frames that read the surface and are not released
  None         \* no buffer

ASSUME BuffersAssumption ==
  /\ Shm \cap Gpu = {} /\ RingBuffers \cap (Shm \cup Gpu) = {} /\ None \notin Shm \cup Gpu \cup RingBuffers
  /\ "copy" \notin Shm \cup Gpu \cup RingBuffers \cup {None}
  /\ RingSlots \in Nat \ {0} /\ MaxApplied \in Nat /\ MaxHeld \in Nat

VARIABLES
  pool,   \* buffers, release points and the frames that hold either
  win,    \* the surface
  output  \* the output and its connector

Buffers == Shm \cup Gpu \cup RingBuffers
Points == 1 .. MaxApplied
Holders == 1 .. MaxHeld

\* A buffer exists; has its wl_buffer (a slot: is in the ring); was dropped; n_locks.
NoBuffer == [made |-> FALSE, resource |-> FALSE, dropped |-> FALSE, locks |-> 0]

\* refs counts a release point's struct release; signalled are the points reached.
\* A hold is a struct release_hold: its name, on the release of which buffer it
\* waits, the point it refers to (0 for none) and the buffer it locks.
\* The surface: number counts the buffers applied, pending its attached buffer
\* with whether a release point came with it, kept its surface->buffer, texture
\* the buffer behind the texture ("copy" for one with its own pixels), release
\* its current point.  drawn is what a buffer that is queued or shown has of the
\* surface: number, buffer and point.  feedback, current and asked are feedbacks
\* (wp_presentation_feedback), by the number of the commit they are for.
Blank == [number |-> 0, read |-> None, point |-> 0]

BuffersInit ==
  /\ pool = [buf |-> [b \in Buffers |-> NoBuffer], refs |-> [p \in Points |-> 0],
             signalled |-> {}, holds |-> {}]
  /\ win = [number |-> 0, pending |-> None, attached |-> FALSE, sync |-> FALSE,
            kept |-> None, texture |-> None, release |-> 0, feedback |-> FALSE, current |-> {}]
  /\ output = [queued |-> None, current |-> None, flip |-> FALSE, presented |-> <<None, None>>,
               drawn |-> [b \in Buffers |-> Blank], asked |-> {}]

(***************************************************************************)
(* Locks and references.  s is the pool, the result what it becomes.       *)
(***************************************************************************)
buffer_lock(s, b) == IF b = None THEN s ELSE [s EXCEPT !.buf[b].locks = @ + 1]

release_unref(s, p) ==
  IF p = 0 THEN s
  ELSE [s EXCEPT !.refs[p] = @ - 1,
                 !.signalled = IF s.refs[p] = 1 THEN @ \cup {p} ELSE @]

\* How many of the holds hs lock a buffer, or refer to a release point.
LockedBy(hs, b) == Cardinality({h \in hs : h.buffer = b})
ReferredBy(hs, p) == Cardinality({h \in hs : h.point = p})

\* Of the buffers B, those that were dropped and that nobody locks are destroyed.
buffer_consider(s, B) ==
  [s EXCEPT !.buf = [b \in Buffers |-> IF b \in B /\ s.buf[b].dropped /\ s.buf[b].locks = 0
                                     THEN NoBuffer ELSE s.buf[b]]]

\* The holds on buffers B let go of their points and their buffers.
hold_released(s, B) ==
  LET gone == {h \in s.holds : h.on \in B}
  IN [buf |-> [b \in Buffers |-> [s.buf[b] EXCEPT !.locks = @ - LockedBy(gone, b)]],
      refs |-> [p \in Points |-> s.refs[p] - ReferredBy(gone, p)],
      signalled |-> s.signalled \cup
                     {p \in Points : ReferredBy(gone, p) > 0 /\ s.refs[p] = ReferredBy(gone, p)},
      holds |-> s.holds \ gone]

\* The last lock's end is announced: to the client, and to the holds on the buffer.
\* These may hold the last locks of others, that are announced in turn; the holds on
\* a buffer that is locked by a hold lock none (surface_release_after).
buffer_unlock(s, b) ==
  IF b = None THEN s
  ELSE LET unlocked == [s EXCEPT !.buf[b].locks = @ - 1]
           first == {x \in {b} : unlocked.buf[x].locks = 0}
           announced == hold_released(unlocked, first)
           second == {x \in Buffers : unlocked.buf[x].locks > 0 /\ announced.buf[x].locks = 0}
       IN buffer_consider(hold_released(announced, second), {b} \cup second)

\* Buffers B are dropped, and their wl_buffers or their places in the ring are gone.
buffer_drop(s, B) ==
  buffer_consider([s EXCEPT !.buf = [b \in Buffers |->
                     IF b \in B THEN [s.buf[b] EXCEPT !.dropped = TRUE, !.resource = FALSE]
                                 ELSE s.buf[b]]], B)

\* A name that no hold of the pool has.
Unheld(s) == {i \in Holders : \A h \in s.holds : h.id # i}

\* Mutant: the release point is shared without being counted.
surface_release_after_Uncounted(s, consumer) ==
  LET read == IF win.release = 0 /\ win.kept \in Gpu /\ win.kept # consumer THEN win.kept ELSE None
  IN IF win.release = 0 /\ read = None THEN s
     ELSE [buffer_lock(s, read) EXCEPT
             !.holds = @ \cup {[id |-> CHOOSE i \in Unheld(s) : TRUE, on |-> consumer,
                               point |-> win.release, buffer |-> read]}]

\* The surface's content is read for a buffer that will be shown.
surface_release_after(s, consumer) ==
  LET read == IF win.release = 0 /\ win.kept \in Gpu /\ win.kept # consumer THEN win.kept ELSE None
      counted == IF win.release = 0 THEN s ELSE [s EXCEPT !.refs[win.release] = @ + 1]
  IN IF win.release = 0 /\ read = None THEN s
     ELSE [buffer_lock(counted, read) EXCEPT
             !.holds = @ \cup {[id |-> CHOOSE i \in Unheld(s) : TRUE, on |-> consumer,
                               point |-> win.release, buffer |-> read]}]

(***************************************************************************)
(* The client.                                                             *)
(***************************************************************************)
CreateBuffer(b) ==
  /\ ~pool.buf[b].made
  /\ pool' = [pool EXCEPT !.buf[b] = [NoBuffer EXCEPT !.made = TRUE, !.resource = TRUE]]
  /\ UNCHANGED <<win, output>>

DestroyResource(b) ==
  /\ pool.buf[b].resource
  /\ pool' = buffer_drop(pool, {b})
  /\ UNCHANGED <<win, output>>

\* Attach a buffer or none, a dmabuf with or without sync points.
surface_attach(b, sync) ==
  /\ b # None => pool.buf[b].resource
  /\ sync => b \in Gpu
  /\ pool' = buffer_unlock(buffer_lock(pool, b), win.pending)
  /\ win' = [win EXCEPT !.pending = b, !.attached = TRUE, !.sync = sync]
  /\ UNCHANGED output

presentation_feedback ==
  /\ ~win.feedback
  /\ win' = [win EXCEPT !.feedback = TRUE]
  /\ UNCHANGED <<pool, output>>

\* What apply_buffer does with a buffer and its point; the upload may fail.
Textured(b, ok) == IF ~ok THEN None ELSE IF b \in Gpu THEN b ELSE "copy"
Owned(texture) == IF texture = "copy" THEN None ELSE texture

apply_buffer(s, b, point, ok) ==
  LET released == release_unref(s, win.release)
      texture == IF b = None THEN None ELSE Textured(b, ok)
      kept == IF b \in Gpu THEN b ELSE None
      relocked == buffer_lock(buffer_unlock(buffer_unlock(buffer_lock(released, Owned(texture)),
                                                          Owned(win.texture)), win.kept), kept)
  IN IF point = 0 THEN relocked ELSE [relocked EXCEPT !.refs[point] = 1]

CommitBuffer(ok) ==
  LET b == win.pending
      number == IF win.attached THEN win.number + 1 ELSE win.number
      point == IF win.attached /\ win.sync THEN number ELSE 0
  IN /\ number <= MaxApplied
     /\ win.attached \/ win.feedback
     /\ pool' = IF win.attached THEN buffer_unlock(apply_buffer(pool, b, point, ok), b) ELSE pool
     /\ win' = [win EXCEPT
                  !.number = number, !.pending = None, !.attached = FALSE, !.sync = FALSE,
                  !.kept = IF ~win.attached THEN @ ELSE IF b \in Gpu THEN b ELSE None,
                  !.texture = IF ~win.attached THEN @ ELSE IF b = None THEN None ELSE Textured(b, ok),
                  !.release = IF win.attached THEN point ELSE @,
                  !.feedback = FALSE,
                  !.current = IF win.feedback THEN {number} ELSE {}]
     /\ UNCHANGED output

\* The surface goes, and a new one takes its place.
SurfaceGoes ==
  /\ win.number > 0
  /\ pool' = buffer_unlock(buffer_unlock(buffer_unlock(release_unref(pool, win.release),
                                                       win.pending), Owned(win.texture)), win.kept)
  /\ win' = [win EXCEPT !.pending = None, !.attached = FALSE, !.sync = FALSE, !.kept = None,
                        !.texture = None, !.release = 0, !.feedback = FALSE, !.current = {}]
  /\ UNCHANGED output

(***************************************************************************)
(* Frames.                                                                 *)
(***************************************************************************)
InRing == {b \in RingBuffers : pool.buf[b].resource}

\* A free buffer of the ring, or a new one while a place is empty.
ring_acquire(b) ==
  \/ b \in InRing /\ pool.buf[b].locks = 0
  \/ /\ \A x \in InRing : pool.buf[x].locks > 0
     /\ Cardinality(InRing) < RingSlots /\ ~pool.buf[b].made

Drawn == [number |-> win.number, read |-> win.texture, point |-> win.release]

\* Feedbacks a frame took from the surface, bound to the next frame that commits.
surface_presented == output.asked \cup {[number |-> n, committed |-> FALSE] : n \in win.current}

\* The commit of a buffer: what was asked for is answered when it flips.
connector_commit(s, b, asked, presented) ==
  /\ pool' = buffer_unlock(buffer_lock(buffer_unlock(s, output.queued), b), b)
  /\ output' = [output EXCEPT !.queued = b, !.flip = TRUE, !.drawn[b] = Drawn, !.presented = presented,
                              !.asked = {[f EXCEPT !.committed = TRUE] : f \in asked}]

\* A composed frame in a buffer of the ring.  The pass or the commit may fail.
RenderFrame(b, drawn, commits) ==
  /\ ~output.flip /\ b \in RingBuffers /\ ring_acquire(b) /\ Unheld(pool) # {}
  /\ commits => drawn
  /\ LET taken == [pool EXCEPT !.buf[b] = [made |-> TRUE, resource |-> TRUE, dropped |-> FALSE, locks |-> 1]]
         reads == IF win.texture = None THEN taken ELSE surface_release_after(taken, b)
         asked == IF drawn /\ win.texture # None THEN surface_presented ELSE output.asked
         shown == buffer_unlock(buffer_lock(reads, b), output.presented[2])
     IN /\ win' = IF drawn /\ win.texture # None THEN [win EXCEPT !.current = {}] ELSE win
        /\ IF commits THEN connector_commit(shown, b, asked, <<b, output.presented[1]>>)
           ELSE /\ pool' = buffer_unlock(reads, b)
                /\ output' = [output EXCEPT !.asked = asked,
                              !.drawn[b] = IF b \in {output.queued, output.current} THEN Drawn ELSE @]

\* The surface's own buffer is shown, without a frame of the output's.
ScanoutFrame(commits) ==
  LET b == win.kept
  IN /\ ~output.flip /\ b \in Gpu /\ win.texture # None /\ Unheld(pool) # {}
     /\ win' = [win EXCEPT !.current = {}]
     /\ IF commits
        THEN connector_commit(surface_release_after(buffer_lock(pool, b), b), b, surface_presented,
                              output.presented)
        ELSE pool' = pool /\ output' = [output EXCEPT !.asked = surface_presented]

\* The queued buffer is on the screen; feedbacks of its commit are answered.
page_flip ==
  /\ output.flip
  /\ pool' = buffer_unlock(pool, output.current)
  /\ output' = [output EXCEPT !.flip = FALSE, !.current = output.queued, !.queued = None,
                              !.drawn = [b \in Buffers |-> IF b = output.queued THEN @[b] ELSE Blank],
                              !.asked = {f \in @ : ~f.committed}]
  /\ UNCHANGED win

\* The output is switched off.
ConnectorOff ==
  /\ output.queued # None \/ output.current # None
  /\ pool' = buffer_unlock(buffer_unlock(pool, output.queued), output.current)
  /\ output' = [output EXCEPT !.queued = None, !.current = None, !.flip = FALSE,
                              !.drawn = [b \in Buffers |-> Blank]]
  /\ UNCHANGED win

\* Another size: the buffers of the ring are dropped.
ring_finish ==
  /\ ~output.flip /\ InRing # {}
  /\ pool' = buffer_drop(pool, InRing)
  /\ UNCHANGED <<win, output>>

BuffersNext ==
  \/ \E b \in Shm \cup Gpu : CreateBuffer(b) \/ DestroyResource(b)
  \/ \E b \in Shm \cup Gpu \cup {None}, sync \in BOOLEAN : surface_attach(b, sync)
  \/ \E ok \in BOOLEAN : CommitBuffer(ok)
  \/ \E b \in RingBuffers, drawn, commits \in BOOLEAN : RenderFrame(b, drawn, commits)
  \/ \E commits \in BOOLEAN : ScanoutFrame(commits)
  \/ SurfaceGoes \/ presentation_feedback \/ page_flip \/ ConnectorOff \/ ring_finish

(***************************************************************************)
(* Properties.                                                             *)
(***************************************************************************)
One(p) == IF p THEN 1 ELSE 0

\* Who uses a buffer but the holds: the surface, its texture, the output.
Users(b) == One(win.pending = b) + One(win.kept = b) + One(win.texture = b)
            + One(output.queued = b) + One(output.current = b)
            + One(output.presented[1] = b) + One(output.presented[2] = b)

\* n_locks is the number of those who use the buffer, the count of a release point
\* that of those who refer to it, and nobody uses a buffer that was destroyed: the
\* client is told of a release when, and only when, the last user let go.
UsersAreCounted ==
  /\ \A b \in Buffers :
       /\ pool.buf[b].locks = Users(b) + LockedBy(pool.holds, b)
       /\ pool.buf[b].locks > 0 => pool.buf[b].made
  /\ \A p \in Points :
       /\ pool.refs[p] = One(win.release = p) + ReferredBy(pool.holds, p)
       /\ p \in pool.signalled => pool.refs[p] = 0

\* What a frame on the screen, or on its way there, was drawn from is not given back
\* to the client: neither released nor signalled.
ReadersAreDone ==
  \A b \in {output.queued, output.current} \ {None} :
    LET d == output.drawn[b]
    IN d.read \in Gpu => IF d.point = 0 THEN pool.buf[d.read].locks > 0
                         ELSE d.point \notin pool.signalled

\* A client will be told that content is presented only with a frame that has that
\* content or later.
PresentedIsShown ==
  \A f \in output.asked : f.committed /\ output.flip => f.number <= output.drawn[output.queued].number

BuffersAreSafe == UsersAreCounted /\ ReadersAreDone /\ PresentedIsShown
=============================================================================
