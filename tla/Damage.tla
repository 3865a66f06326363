------------------------------- MODULE Damage -------------------------------
(***************************************************************************)
(* Damage tracking (space.c, render.c): an output's frame repaints of its  *)
(* buffer only what changed since that buffer was last painted.  Each      *)
(* frame is first recorded as a list of operations, which is compared with *)
(* the list of the frame before; the differences of the last few frames    *)
(* are kept, and a buffer that is older than they reach is painted whole.  *)
(* The scene is what each region of the output is to look like.            *)
(***************************************************************************)
EXTENDS Naturals, FiniteSets

CONSTANTS
  Regions,   \* the regions of an output
  Paints,     \* what a region may look like
  Ring,      \* the buffers of the ring
  History,   \* how many frames' damage is kept
  MaxFrames, \* bound: frames recorded
  Lost       \* no known look

ASSUME DamageAssumption == History \in Nat \ {0} /\ MaxFrames \in Nat

VARIABLES
  scene,    \* what each region is to look like
  tracking, \* the output: ops, frames, damage
  ring,     \* each buffer: the frame it was painted for, and how it looks
  onscreen     \* how the last frame looks, and how it was to look

Unpainted == [frame |-> 0, looks |-> [r \in Regions |-> Lost]]

DamageInit ==
  /\ scene \in [Regions -> Paints]
  /\ tracking = [ops |-> [r \in Regions |-> Lost], lost |-> FALSE, frames |-> 0,
                 damage |-> [i \in 0 .. History - 1 |-> {}]]
  /\ ring = [b \in Ring |-> Unpainted]
  /\ onscreen = [is |-> scene, was |-> scene]

\* What the two lists differ in; unknown when one is lost.
oplist_damage(lost) ==
  IF lost \/ tracking.lost THEN Regions ELSE {r \in Regions : tracking.ops[r] # scene[r]}

\* Mutant: the history is thought to reach one frame further.
Clip_TooFar(damage, rendered, frame) ==
  IF rendered = 0 \/ frame - rendered > History + 1 THEN Regions
  ELSE UNION {damage[f % History] : f \in rendered + 1 .. frame}

\* What of a buffer painted for the frame `rendered` must be painted again.
Clip(damage, rendered, frame) ==
  IF rendered = 0 \/ frame - rendered > History THEN Regions
  ELSE UNION {damage[f % History] : f \in rendered + 1 .. frame}

\* Record and paint a frame.  The recording may be lost, the pass may not begin,
\* and what it painted may not be submitted.
render_scene_buffer(b, lost, begins, submits) ==
  LET frame == tracking.frames + 1
      damage == [tracking.damage EXCEPT ![frame % History] = oplist_damage(lost)]
      clip == IF lost \/ tracking.lost THEN Regions ELSE Clip(damage, ring[b].frame, frame)
      looks == [r \in Regions |-> IF r \in clip THEN scene[r] ELSE ring[b].looks[r]]
  IN /\ frame <= MaxFrames /\ (submits => begins)
     /\ tracking' = [ops |-> scene, lost |-> lost, frames |-> frame, damage |-> damage]
     /\ ring' = [ring EXCEPT ![b] = IF begins THEN [frame |-> frame, looks |-> looks]
                                    ELSE [@ EXCEPT !.frame = 0]]
     /\ onscreen' = IF begins /\ submits THEN [is |-> looks, was |-> scene] ELSE onscreen
     /\ UNCHANGED scene

\* Another size: the ring starts again.  A frame of a new configuration is painted
\* whole in another ring, which takes its place, and is not recorded.
ring_configure ==
  /\ ring' = [b \in Ring |-> Unpainted]
  /\ UNCHANGED <<scene, tracking, onscreen>>

commit_outputs(b) ==
  /\ ring' = [x \in Ring |-> IF x = b THEN [frame |-> 0, looks |-> scene] ELSE Unpainted]
  /\ onscreen' = [is |-> scene, was |-> scene]
  /\ UNCHANGED <<scene, tracking>>

SceneChanges ==
  /\ \E r \in Regions, look \in Paints : scene' = [scene EXCEPT ![r] = look]
  /\ UNCHANGED <<tracking, ring, onscreen>>

DamageNext ==
  \/ \E b \in Ring, lost, begins, submits \in BOOLEAN : render_scene_buffer(b, lost, begins, submits)
  \/ \E b \in Ring : commit_outputs(b)
  \/ ring_configure \/ SceneChanges

\* Whatever was lost, failed or skipped between the frames that painted a buffer, a
\* frame looks as the scene did when it was painted: no region is left stale.
NothingIsStale == onscreen.is = onscreen.was
=============================================================================
