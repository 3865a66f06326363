---------------------------- MODULE ClientProofs ----------------------------
(***************************************************************************)
(* What is proved of the objects of clients and of how their content       *)
(* reaches the screen: a frame is never left with what the scene no longer *)
(* shows (Damage), a window is told what the policy wants of it (Shell),   *)
(* selections are told and drags are held (Seat), and buffers are given    *)
(* back when the last who uses them lets go (Buffers).  Each part is a     *)
(* specification of its own; a behaviour of MCClients is one of one part.  *)
(***************************************************************************)
EXTENDS Integers, Shell, Damage, Seat, Buffers, FiniteSetTheorems, WellFoundedInduction, TLAPS

(***************************************************************************)
(* Damage.                                                                 *)
(***************************************************************************)
DamageSpec == DamageInit /\ [][DamageNext]_<<scene, tracking, ring, onscreen>>

Looks == [Regions -> Paints \cup {Lost}]

Tracking == [ops : Looks, lost : BOOLEAN, frames : Nat, damage : [0 .. History - 1 -> SUBSET Regions]]

Buffer == [frame : Nat, looks : Looks]

DamageTypes ==
  /\ scene \in [Regions -> Paints]
  /\ tracking \in Tracking
  /\ ring \in [Ring -> Buffer]

\* What was repainted in the frames after the one the buffer was painted for, as far
\* as the history reaches.
Kept(d, from, to) == {r \in Regions : \E f \in from + 1 .. to : r \in d[f % History]}

\* A buffer that the history reaches looks as the last frame did, but for the regions
\* that a later frame repainted.
Behind(b) ==
  LET q == ring[b] IN
  /\ q.frame <= tracking.frames
  /\ q.frame # 0 /\ tracking.frames - q.frame < History =>
       \A r \in Regions : \/ q.looks[r] = tracking.ops[r]
                          \/ r \in Kept(tracking.damage, q.frame, tracking.frames)

DamageInv == DamageTypes /\ NothingIsStale /\ \A b \in Ring : Behind(b)

\* Two frames less than the length of the history apart are kept in different places.
LEMMA OtherPlace ==
  ASSUME NEW f \in Nat, NEW g \in Nat, f < g, g - f < History
  PROVE  f % History # g % History
  <1> DEFINE a == f \div History
             b == g \div History
  <1>0. History \in Nat /\ History > 0 BY DamageAssumption
  <1>1. a \in Int /\ b \in Int BY <1>0
  <1>2. f = History * a + (f % History) /\ g = History * b + (g % History) BY <1>0
  <1>3. f % History \in Int /\ g % History \in Int BY <1>0
  <1> HIDE DEF a, b
  <1>4. SUFFICES ASSUME f % History = g % History PROVE FALSE OBVIOUS
  <1>5. g - f = History * (b - a)
    <2>1. History * b - History * a = History * (b - a) BY <1>0, <1>1
    <2> QED BY <2>1, <1>0, <1>1, <1>2, <1>3, <1>4
  <1>6. b - a > 0
    <2>1. CASE b - a <= 0
      <3>1. History * (b - a) <= 0 BY <1>0, <1>1, <2>1
      <3> QED BY <3>1, <1>5
    <2> QED BY <2>1, <1>1
  <1>7. History * (b - a) >= History BY <1>0, <1>1, <1>6
  <1> QED BY <1>5, <1>7, <1>0

\* What a frame repaints of a buffer it may begin with is all that the buffer lacks.
LEMMA ClipIsKept ==
  ASSUME NEW d \in [0 .. History - 1 -> SUBSET Regions], NEW from \in Nat, NEW to \in Nat, from < to
  PROVE  /\ from = 0 \/ to - from > History => Clip(d, from, to) = Regions
         /\ from # 0 /\ to - from <= History => Clip(d, from, to) = Kept(d, from, to)
  <1>0. History \in Nat /\ History > 0 BY DamageAssumption
  <1>1. ASSUME from # 0, to - from <= History PROVE Clip(d, from, to) = Kept(d, from, to)
    <2>1. \A f \in from + 1 .. to : d[f % History] \subseteq Regions
      <3> TAKE f \in from + 1 .. to
      <3>1. f % History \in 0 .. History - 1 BY <1>0
      <3> QED BY <3>1
    <2>2. Clip(d, from, to) = UNION {d[f % History] : f \in from + 1 .. to} BY <1>0, <1>1 DEF Clip
    <2> QED BY <2>1, <2>2 DEF Kept
  <1> QED BY <1>0, <1>1 DEF Clip

\* At first nothing is painted.
LEMMA DamageStarts == DamageInit => DamageInv
  <1> SUFFICES ASSUME DamageInit PROVE DamageInv OBVIOUS
  <1>1. [r \in Regions |-> Lost] \in Looks BY DEF Looks
  <1>2. tracking \in Tracking
    <2>1. [i \in 0 .. History - 1 |-> {}] \in [0 .. History - 1 -> SUBSET Regions] OBVIOUS
    <2> QED BY <1>1, <2>1 DEF DamageInit, Tracking
  <1>3. Unpainted \in Buffer /\ Unpainted.frame = 0 BY <1>1 DEF Unpainted, Buffer
  <1>4. ring \in [Ring -> Buffer] BY <1>3 DEF DamageInit
  <1>5. \A b \in Ring : Behind(b) BY <1>2, <1>3 DEF DamageInit, Behind, Tracking
  <1> QED BY <1>2, <1>4, <1>5 DEF DamageInit, DamageInv, DamageTypes, NothingIsStale

\* A frame that is recorded.
LEMMA FrameKeeps ==
  ASSUME DamageInv, NEW x \in Ring, NEW lost \in BOOLEAN, NEW begins \in BOOLEAN, NEW submits \in BOOLEAN,
         render_scene_buffer(x, lost, begins, submits)
  PROVE  DamageInv'
  <1> DEFINE to == tracking.frames
             from == ring[x].frame
             new == oplist_damage(lost)
             damage == [tracking.damage EXCEPT ![(to + 1) % History] = new]
             clip == IF lost \/ tracking.lost THEN Regions ELSE Clip(damage, from, to + 1)
             looks == [r \in Regions |-> IF r \in clip THEN scene[r] ELSE ring[x].looks[r]]
  <1>0. History \in Nat /\ History > 0 BY DamageAssumption
  <1>1. DamageTypes /\ NothingIsStale /\ \A b \in Ring : Behind(b) BY DEF DamageInv
  <1>2. scene \in [Regions -> Paints] /\ scene \in Looks BY <1>1 DEF DamageTypes, Looks
  <1>3. to \in Nat /\ tracking.damage \in [0 .. History - 1 -> SUBSET Regions] /\ tracking.ops \in Looks
    BY <1>1 DEF DamageTypes, Tracking
  <1>4. \A b \in Ring : ring[b] \in Buffer /\ ring[b].frame \in Nat /\ ring[b].looks \in Looks
    BY <1>1 DEF DamageTypes, Buffer
  <1>5. new \in SUBSET Regions /\ \A r \in Regions \ new : tracking.ops[r] = scene[r]
    BY DEF oplist_damage
  <1>6. /\ tracking' = [ops |-> scene, lost |-> lost, frames |-> to + 1, damage |-> damage]
        /\ ring' = [ring EXCEPT ![x] = IF begins THEN [frame |-> to + 1, looks |-> looks]
                                       ELSE [ring[x] EXCEPT !.frame = 0]]
        /\ onscreen' = IF begins /\ submits THEN [is |-> looks, was |-> scene] ELSE onscreen
        /\ scene' = scene
    BY DEF render_scene_buffer
  <1>7. \A b \in Ring : ring[b].frame <= to BY <1>1 DEF Behind
  <1> HIDE DEF new
  <1>8. \A b \in Ring : to + 1 - ring[b].frame <= History =>
          Kept(damage, ring[b].frame, to + 1) = new \cup Kept(tracking.damage, ring[b].frame, to)
    <2> TAKE b \in Ring
    <2> HAVE to + 1 - ring[b].frame <= History
    <2> DEFINE rendered == ring[b].frame
               place == (to + 1) % History
    <2>1. rendered \in Nat /\ rendered <= to /\ to + 1 - rendered <= History BY <1>4, <1>7
    <2>2. place \in 0 .. History - 1 BY <1>0, <1>3
    <2>3. \A f \in rendered + 1 .. to : f % History \in 0 .. History - 1 /\ f % History # place
      <3> TAKE f \in rendered + 1 .. to
      <3> DEFINE next == to + 1
      <3>1. f \in Nat /\ next \in Nat /\ f < next /\ next - f < History
        <4>1. f \in Int /\ rendered + 1 <= f /\ f <= to BY <1>3, <2>1
        <4>2. to \in Nat BY <1>3
        <4> HIDE DEF rendered
        <4> QED BY <1>0, <4>1, <4>2, <2>1
      <3> HIDE DEF next
      <3>2. f % History # next % History BY <3>1, OtherPlace
      <3> QED BY <3>1, <3>2, <1>0 DEF next
    <2>4. damage = [tracking.damage EXCEPT ![place] = new] OBVIOUS
    <2> HIDE DEF place, damage, rendered
    <2>5. damage[place] = new BY <1>3, <2>2, <2>4
    <2>6. \A f \in rendered + 1 .. to : damage[f % History] = tracking.damage[f % History]
      BY <1>3, <2>2, <2>3, <2>4
    <2>7. \A f : f \in rendered + 1 .. to + 1 <=> f \in rendered + 1 .. to \/ f = to + 1
      BY <1>3, <2>1
    <2>8. \A r \in Regions : (\E f \in rendered + 1 .. to + 1 : r \in damage[f % History])
                             <=> \/ r \in new
                                 \/ \E f \in rendered + 1 .. to : r \in tracking.damage[f % History]
      <3>1. (to + 1) % History = place BY DEF place
      <3> QED BY <2>5, <2>6, <2>7, <3>1
    <2>9. Kept(damage, rendered, to + 1) = new \cup Kept(tracking.damage, rendered, to)
      BY <1>5, <2>8 DEF Kept
    <2> QED BY <2>9 DEF rendered
  <1>9. damage \in [0 .. History - 1 -> SUBSET Regions]
    <2>1. (to + 1) % History \in 0 .. History - 1 BY <1>0, <1>3
    <2> QED BY <2>1, <1>3, <1>5
  <1> HIDE DEF damage
  \* What is not repainted of the buffer is already as it is to be.
  <1>10. \A b \in Ring : ring[b].frame # 0 /\ to + 1 - ring[b].frame <= History =>
           \A r \in Regions : ring[b].looks[r] = scene[r] \/ r \in Kept(damage, ring[b].frame, to + 1)
    <2> TAKE b \in Ring
    <2> HAVE ring[b].frame # 0 /\ to + 1 - ring[b].frame <= History
    <2> TAKE r \in Regions
    <2>1. to - ring[b].frame < History BY <1>0, <1>3, <1>4
    <2>2. ring[b].looks[r] = tracking.ops[r] \/ r \in Kept(tracking.damage, ring[b].frame, to)
      BY <1>1, <2>1 DEF Behind
    <2> QED BY <2>2, <1>5, <1>8
  <1>11. \A r \in Regions : r \notin clip => ring[x].looks[r] = scene[r]
    <2> TAKE r \in Regions
    <2> HAVE r \notin clip
    <2>1. r \notin Clip(damage, from, to + 1) OBVIOUS
    <2>2. from \in Nat /\ from < to + 1 /\ to + 1 \in Nat BY <1>3, <1>4, <1>7
    <2> HIDE DEF from, to
    <2>3. ~(from = 0 \/ to + 1 - from > History) BY <1>0, <1>3, <1>9, <2>1, <2>2, ClipIsKept
    <2>4. from # 0 /\ to + 1 - from <= History BY <1>0, <1>3, <2>2, <2>3
    <2>5. r \notin Kept(damage, from, to + 1) BY <1>0, <1>3, <1>9, <2>1, <2>2, <2>4, ClipIsKept
    <2> QED BY <2>4, <2>5, <1>10 DEF from, to
  <1> HIDE DEF clip
  <1>12. looks = scene BY <1>2, <1>11
  <1> HIDE DEF looks
  <1>13. NothingIsStale' BY <1>1, <1>6, <1>12 DEF NothingIsStale
  <1>14. tracking' \in Tracking BY <1>2, <1>3, <1>6, <1>9 DEF Tracking
  <1>15. ring' \in [Ring -> Buffer]
    <2>1. [frame |-> to + 1, looks |-> looks] \in Buffer BY <1>2, <1>3, <1>12 DEF Buffer
    <2>2. [ring[x] EXCEPT !.frame = 0] \in Buffer BY <1>4 DEF Buffer
    <2> QED BY <2>1, <2>2, <1>1, <1>6 DEF DamageTypes
  <1>16. ASSUME NEW b \in Ring PROVE Behind(b)'
    <2>1. CASE b = x /\ begins
      <3>1. ring'[b].frame = to + 1 /\ ring'[b].looks = scene BY <1>1, <1>6, <1>12, <2>1 DEF DamageTypes
      <3> QED BY <3>1, <1>3, <1>6 DEF Behind
    <2>2. CASE b = x /\ ~begins
      <3>1. ring'[b] = [ring[x] EXCEPT !.frame = 0] BY <1>1, <1>6, <2>2 DEF DamageTypes
      <3>2. ring'[b].frame = 0 BY <3>1, <1>4 DEF Buffer
      <3> QED BY <3>2, <1>3, <1>6 DEF Behind
    <2>3. CASE b # x
      <3>1. ring'[b] = ring[b] BY <1>1, <1>6, <2>3 DEF DamageTypes
      <3>2. tracking'.frames = to + 1 /\ tracking'.ops = scene /\ tracking'.damage = damage BY <1>6
      <3>3. ring[b].frame <= to + 1 BY <1>3, <1>4, <1>7
      <3>4. ASSUME ring[b].frame # 0, to + 1 - ring[b].frame < History, NEW r \in Regions
            PROVE  ring[b].looks[r] = scene[r] \/ r \in Kept(damage, ring[b].frame, to + 1)
        BY <3>4, <1>0, <1>3, <1>4, <1>10
      <3>5. Behind(b)' <=>
              /\ ring'[b].frame <= tracking'.frames
              /\ ring'[b].frame # 0 /\ tracking'.frames - ring'[b].frame < History =>
                   \A r \in Regions : \/ ring'[b].looks[r] = tracking'.ops[r]
                                      \/ r \in Kept(tracking'.damage, ring'[b].frame, tracking'.frames)
        BY DEF Behind
      <3> QED BY <1>0, <1>3, <1>4, <3>1, <3>2, <3>3, <3>4, <3>5
    <2> QED BY <2>1, <2>2, <2>3
  <1> QED BY <1>2, <1>6, <1>13, <1>14, <1>15, <1>16 DEF DamageInv, DamageTypes

\* A ring that starts again.
LEMMA RingKeeps ==
  ASSUME DamageInv, ring_configure \/ SceneChanges \/ \E b \in Ring : commit_outputs(b)
  PROVE  DamageInv'
  <1>1. DamageTypes /\ NothingIsStale /\ \A b \in Ring : Behind(b) BY DEF DamageInv
  <1>2. [r \in Regions |-> Lost] \in Looks /\ scene \in Looks BY <1>1 DEF DamageTypes, Looks
  <1>3. /\ Unpainted \in Buffer /\ Unpainted.frame = 0
        /\ [frame |-> 0, looks |-> scene] \in Buffer
    BY <1>2 DEF Unpainted, Buffer
  <1>4. tracking.frames \in Nat BY <1>1 DEF DamageTypes, Tracking
  <1>5. CASE SceneChanges
    <2>1. scene' \in [Regions -> Paints] BY <1>1, <1>5 DEF SceneChanges, DamageTypes
    <2> QED BY <1>1, <1>5, <2>1 DEF SceneChanges, DamageInv, DamageTypes, NothingIsStale, Behind
  <1>6. CASE ring_configure \/ \E b \in Ring : commit_outputs(b)
    <2>1. tracking' = tracking /\ scene' = scene BY <1>6 DEF ring_configure, commit_outputs
    <2>2. ring' \in [Ring -> Buffer] /\ \A b \in Ring : ring'[b].frame = 0
      BY <1>3, <1>6 DEF ring_configure, commit_outputs
    <2>3. NothingIsStale' BY <1>1, <1>6 DEF ring_configure, commit_outputs, NothingIsStale
    <2>4. \A b \in Ring : Behind(b)' BY <2>1, <2>2, <1>4 DEF Behind
    <2> QED BY <1>1, <2>1, <2>2, <2>3, <2>4 DEF DamageInv, DamageTypes
  <1> QED BY <1>5, <1>6

\* For any number of buffers, of regions and of frames whose damage is kept, a frame
\* looks as the scene did when it was painted: whatever recordings were lost and passes
\* or submissions failed since its buffer was last painted, the damage of the frames in
\* between, or the whole, is repainted (render.c, space.c).
THEOREM FramesAreFresh == DamageSpec => []NothingIsStale
  <1> DEFINE frames == <<scene, tracking, ring, onscreen>>
  <1>1. DamageInv /\ [DamageNext]_frames => DamageInv'
    <2> SUFFICES ASSUME DamageInv, [DamageNext]_frames PROVE DamageInv' OBVIOUS
    <2>1. CASE \E b \in Ring, lost, begins, submits \in BOOLEAN :
                 render_scene_buffer(b, lost, begins, submits)
      BY <2>1, FrameKeeps
    <2>2. CASE ring_configure \/ SceneChanges \/ \E b \in Ring : commit_outputs(b)
      BY <2>2, RingKeeps
    <2>3. CASE UNCHANGED frames
      BY <2>3 DEF DamageInv, DamageTypes, NothingIsStale, Behind
    <2> QED BY <2>1, <2>2, <2>3 DEF DamageNext
  <1>2. DamageInv => NothingIsStale BY DEF DamageInv
  <1> QED BY <1>1, <1>2, DamageStarts, PTL DEF DamageSpec

(***************************************************************************)
(* xdg-shell and windows.                                                  *)
(***************************************************************************)
ShellSpec == ShellInit /\ [][ShellNext]_<<xdg, focused>>

Wishes == [size : Sizes \cup {Nobody}, full : BOOLEAN, act : BOOLEAN]

Surface ==
  [attached : BOOLEAN, texture : BOOLEAN, mapped : BOOLEAN,
   exists : BOOLEAN, role : BOOLEAN, object : BOOLEAN, parent : XdgSurfaces \cup {Nobody}, stale : BOOLEAN,
   configured : BOOLEAN, initialized : BOOLEAN, idle : BOOLEAN, sent : Seq(BOOLEAN), said : Wishes,
   sched : Wishes, pending : BOOLEAN, current : BOOLEAN,
   admitted : BOOLEAN, known : Sizes \cup {Nobody}, size : Sizes \cup {Nobody}, full : BOOLEAN,
   fullscreen_state : BOOLEAN, decoration : {"none", "untold", "told"}]

ShellTypes == xdg \in [XdgSurfaces -> Surface] /\ focused \in Toplevels \cup {Nobody}

\* A window that was never shown is not focused, and nothing was asked for it; one
\* without its role object is not admitted, and can be configured no more.
Unshown(r, active) ==
  /\ ~r.object => ~r.admitted /\ ~r.initialized
  /\ r.mapped => r.admitted
  /\ ~r.admitted => ~r.full /\ ~r.sched.full /\ ~r.sched.act /\ ~active

\* What is scheduled for a window is what is wanted of it, and is told or to be told.
Told(r, active) ==
  r.initialized =>
    /\ r.idle \/ (r.said = r.sched /\ r.decoration # "untold")
    /\ r.admitted => r.sched.full = r.full /\ r.sched.act = active
    /\ r.mapped /\ r.known # Nobody => r.sched.size = r.known

\* The size a window is known to have been given is its size.
Placed(r) == r.initialized /\ r.mapped /\ r.known # Nobody => r.known = r.size

Wished(r, active) == Unshown(r, active) /\ Told(r, active) /\ Placed(r)

Answered(r) ==
  r.object /\ r.initialized /\ ~r.stale => r.idle \/ r.sent # <<>> \/ r.configured

ShellInv ==
  /\ ShellTypes
  /\ \A x \in Toplevels : Wished(xdg[x], focused = x)
  /\ \A x \in XdgSurfaces : Answered(xdg[x])

\* A surface that is new, or gone.
LEMMA FreshTyped ==
  /\ NoState \in Wishes /\ Fresh \in Surface
  /\ \A active \in BOOLEAN : ~active => Wished(Fresh, active)
  /\ Answered(Fresh)
  <1>1. NoState \in Wishes BY DEF NoState, Wishes
  <1>2. <<>> \in Seq(BOOLEAN) OBVIOUS
  <1>3. Fresh \in Surface BY <1>1, <1>2 DEF Fresh, Surface
  <1>4. \A active \in BOOLEAN : ~active => Wished(Fresh, active)
    BY DEF Wished, Unshown, Told, Placed, Fresh, NoState
  <1>5. Answered(Fresh) BY DEF Answered, Fresh
  <1> QED BY <1>1, <1>3, <1>4, <1>5

\* Scheduling a configure disturbs nothing, and answers.
LEMMA ScheduledKeeps ==
  ASSUME NEW r \in Surface
  PROVE  /\ Scheduled(r) \in Surface /\ Answered(Scheduled(r))
         /\ \A active \in BOOLEAN : Wished(r, active) => Wished(Scheduled(r), active)
  <1>1. Scheduled(r) \in Surface BY DEF Scheduled, Surface
  <1>2. Answered(Scheduled(r)) BY DEF Scheduled, Surface, Answered
  <1>3. \A active \in BOOLEAN : Wished(r, active) => Wished(Scheduled(r), active)
    BY DEF Scheduled, Surface, Wished, Unshown, Told, Placed
  <1> QED BY <1>1, <1>2, <1>3

\* A configure is scheduled that says w.
Asked(r, w) == [r EXCEPT !.sched = w, !.idle = TRUE]

\* The record of a surface of which a configure is scheduled.
LEMMA AskedIs ==
  ASSUME NEW r \in Surface, NEW w \in Wishes
  PROVE  /\ Asked(r, w) \in Surface /\ Asked(r, w).sched = w
         /\ \A v \in Wishes : Asked(Asked(r, w), v) = Asked(r, v)
  <1>1. Asked(r, w) \in Surface /\ Asked(r, w).sched = w BY DEF Asked, Surface
  <1>2. \A v \in Wishes : Asked(Asked(r, w), v) = Asked(r, v) BY DEF Asked, Surface
  <1> QED BY <1>1, <1>2

\* The configures the compositor makes.
LEMMA Makes ==
  ASSUME NEW r \in Surface
  PROVE  /\ \A s \in Sizes \cup {Nobody} :
              Sized(r, s) = Asked(r, [r.sched EXCEPT !.size = s]) /\ [r.sched EXCEPT !.size = s] \in Wishes
         /\ \A b \in BOOLEAN :
              /\ Fullscreened(r, b) = Asked(r, [r.sched EXCEPT !.full = b])
              /\ [r.sched EXCEPT !.full = b] \in Wishes
              /\ Activated(r, b) = Asked(r, [r.sched EXCEPT !.act = b])
              /\ [r.sched EXCEPT !.act = b] \in Wishes
  <1>1. \A s \in Sizes \cup {Nobody} : [r.sched EXCEPT !.size = s] \in Wishes BY DEF Surface, Wishes
  <1>2. \A b \in BOOLEAN : [r.sched EXCEPT !.full = b] \in Wishes /\ [r.sched EXCEPT !.act = b] \in Wishes
    BY DEF Surface, Wishes
  <1>3. \A s \in Sizes \cup {Nobody} : Sized(r, s) = Asked(r, [r.sched EXCEPT !.size = s])
    BY DEF Sized, Scheduled, Asked, Surface
  <1>4. \A b \in BOOLEAN : Fullscreened(r, b) = Asked(r, [r.sched EXCEPT !.full = b])
    BY DEF Fullscreened, Scheduled, Asked, Surface
  <1>5. \A b \in BOOLEAN : Activated(r, b) = Asked(r, [r.sched EXCEPT !.act = b])
    BY DEF Activated, Scheduled, Asked, Surface
  <1> QED BY <1>1, <1>2, <1>3, <1>4, <1>5

\* Records of several changes.
LEMMA SentTyped ==
  ASSUME NEW r \in Surface, NEW w \in Wishes, NEW q \in Seq(BOOLEAN), NEW d \in {"none", "untold", "told"}
  PROVE  [r EXCEPT !.idle = FALSE, !.said = w, !.sent = q, !.decoration = d] \in Surface
  BY DEF Surface

LEMMA WithoutTyped ==
  ASSUME NEW r \in Surface, NEW w \in Wishes
  PROVE  [r EXCEPT !.sched = w, !.pending = FALSE, !.current = FALSE,
                   !.admitted = FALSE, !.known = Nobody, !.size = Nobody, !.full = FALSE,
                   !.fullscreen_state = FALSE, !.decoration = "none"] \in Surface
  BY DEF Surface

LEMMA AppliedTyped ==
  ASSUME NEW r \in Surface, NEW y \in BOOLEAN, NEW z \in BOOLEAN, NEW p \in BOOLEAN
  PROVE  [r EXCEPT !.attached = y, !.texture = z, !.current = p] \in Surface
  BY DEF Surface

\* A configure that is sent says all that is scheduled, and answers.
LEMMA SentKeeps ==
  ASSUME NEW r \in Surface, NEW active \in BOOLEAN
  PROVE  /\ Sent(r) \in Surface /\ Answered(Sent(r))
         /\ Wished(r, active) => Wished(Sent(r), active)
  <1> DEFINE rest == IF Len(r.sent) = Configures THEN Tail(r.sent) ELSE r.sent
             sent == Append(rest, r.sched.full)
             told == IF r.decoration = "none" THEN "none" ELSE "told"
  <1>1. r.sent \in Seq(BOOLEAN) /\ r.sched.full \in BOOLEAN /\ r.sched \in Wishes
    BY DEF Surface, Wishes
  <1>2. rest \in Seq(BOOLEAN)
    <2>1. CASE Len(r.sent) = Configures
      <3> DEFINE q == r.sent
      <3>1. q \in Seq(BOOLEAN) /\ q # <<>> BY <1>1, <2>1, ShellAssumption
      <3> HIDE DEF q
      <3>2. Tail(q) \in Seq(BOOLEAN) BY <3>1
      <3> QED BY <3>2, <2>1 DEF q
    <2> QED BY <2>1, <1>1
  <1> HIDE DEF rest
  <1>3. sent \in Seq(BOOLEAN) /\ sent # <<>> BY <1>1, <1>2
  <1>4. Sent(r) = [r EXCEPT !.idle = FALSE, !.said = r.sched, !.sent = sent, !.decoration = told]
    BY DEF Sent, rest, Surface
  <1>5. told \in {"none", "untold", "told"} /\ told # "untold" OBVIOUS
  <1> HIDE DEF sent, told
  <1>6. Sent(r) \in Surface
    <2>1. [r EXCEPT !.idle = FALSE, !.said = r.sched, !.sent = sent, !.decoration = told] \in Surface
      BY <1>1, <1>3, <1>5, SentTyped
    <2> QED BY <2>1, <1>4
  <1>7. Answered(Sent(r)) BY <1>3, <1>4 DEF Surface, Answered
  <1>8. Wished(r, active) => Wished(Sent(r), active)
    BY <1>4, <1>5 DEF Surface, Wished, Unshown, Told, Placed
  <1> QED BY <1>6, <1>7, <1>8

\* A surface whose window is gone, and one that is reset.
LEMMA WithoutKeeps ==
  ASSUME NEW r \in Surface
  PROVE  /\ WithoutToplevel(r) \in Surface
         /\ ~r.initialized /\ ~r.mapped => Wished(WithoutToplevel(r), FALSE)
         /\ Answered(r) => Answered(WithoutToplevel(r))
         /\ Emptied(r) \in Surface /\ Answered(Emptied(r))
         /\ \A active \in BOOLEAN : Unshown(r, active) => Wished(Emptied(r), active)
         /\ ~r.mapped => Wished(Emptied(WithoutToplevel(r)), FALSE)
  <1>1. WithoutToplevel(r) \in Surface
    <2>1. NoState \in Wishes BY FreshTyped
    <2> QED BY <2>1, WithoutTyped DEF WithoutToplevel
  <1>2. ~r.initialized /\ ~r.mapped => Wished(WithoutToplevel(r), FALSE)
    BY DEF WithoutToplevel, Surface, Wished, Unshown, Told, Placed, NoState
  <1>3. Answered(r) => Answered(WithoutToplevel(r)) BY DEF WithoutToplevel, Surface, Answered
  <1>4. Emptied(r) \in Surface
    <2>1. <<>> \in Seq(BOOLEAN) OBVIOUS
    <2> QED BY <2>1 DEF Emptied, Surface
  <1>5. Answered(Emptied(r)) BY DEF Emptied, Surface, Answered
  <1>6. \A active \in BOOLEAN : Unshown(r, active) => Wished(Emptied(r), active)
    BY DEF Emptied, Surface, Wished, Unshown, Told, Placed
  <1>7. ~r.mapped => ~Emptied(WithoutToplevel(r)).initialized /\ Unshown(Emptied(WithoutToplevel(r)), FALSE)
    <2> DEFINE q == WithoutToplevel(r)
    <2>1. q.mapped = r.mapped /\ ~q.admitted /\ ~q.full /\ ~q.sched.full /\ ~q.sched.act
      BY DEF WithoutToplevel, Surface, NoState
    <2>2. q \in Surface BY <1>1
    <2> HIDE DEF q
    <2>3. ~q.mapped => ~Emptied(q).initialized /\ Unshown(Emptied(q), FALSE)
      BY <2>1, <2>2 DEF Emptied, Surface, Unshown
    <2> QED BY <2>1, <2>3 DEF q
  <1>8. ~r.mapped => Wished(Emptied(WithoutToplevel(r)), FALSE) BY <1>7 DEF Wished, Told, Placed
  <1> QED BY <1>1, <1>2, <1>3, <1>4, <1>5, <1>6, <1>8

\* What the policy asks of a window.
LEMMA PlacedAgain ==
  ASSUME NEW r \in Surface, NEW active \in BOOLEAN, Unshown(r, active), Told(r, active), r.admitted
  PROVE  /\ configure_xdg(r) \in Surface /\ Wished(configure_xdg(r), active)
         /\ Answered(r) => Answered(configure_xdg(r))
  <1>1. r.sched \in Wishes /\ r.size \in Sizes \cup {Nobody} BY DEF Surface
  <1>2. CASE ~r.initialized \/ r.known = r.size
    <2>1. configure_xdg(r) = r BY <1>2 DEF configure_xdg
    <2>2. Placed(r) BY <1>2 DEF Placed
    <2> QED BY <2>1, <2>2 DEF Wished
  <1>3. CASE ~(~r.initialized \/ r.known = r.size)
    <2> DEFINE q == [r EXCEPT !.sched = [r.sched EXCEPT !.size = r.size], !.idle = TRUE, !.known = r.size]
    <2>1. Sized(r, r.size) = Asked(r, [r.sched EXCEPT !.size = r.size]) BY <1>1, Makes
    <2>2. configure_xdg(r) = q BY <1>1, <1>3, <2>1 DEF configure_xdg, Asked, Surface
    <2>3. q \in Surface BY <1>1 DEF Surface, Wishes
    <2>4. Wished(q, active) BY <1>1 DEF Surface, Wishes, Wished, Unshown, Told, Placed
    <2>5. Answered(q) BY DEF Surface, Answered
    <2> HIDE DEF q
    <2> QED BY <2>2, <2>3, <2>4, <2>5
  <1> QED BY <1>2, <1>3

\* The window that gets or loses the focus is told.
LEMMA ActivatedAgain ==
  ASSUME NEW r \in Surface, NEW active \in BOOLEAN, Wished(r, active), r.admitted, NEW b \in BOOLEAN
  PROVE  /\ window_activate(r, b) \in Surface /\ Wished(window_activate(r, b), b)
         /\ Answered(r) => Answered(window_activate(r, b))
  <1>1. r.sched \in Wishes BY DEF Surface
  <1>2. CASE ~r.initialized
    <2>1. window_activate(r, b) = r BY <1>2 DEF window_activate
    <2> QED BY <1>2, <2>1 DEF Wished, Unshown, Told, Placed
  <1>3. CASE r.initialized
    <2> DEFINE q == [r EXCEPT !.sched = [r.sched EXCEPT !.act = b], !.idle = TRUE]
    <2>1. window_activate(r, b) = q /\ q \in Surface
      <3>1. Activated(r, b) = Asked(r, [r.sched EXCEPT !.act = b]) /\ [r.sched EXCEPT !.act = b] \in Wishes
        BY Makes
      <3>2. Asked(r, [r.sched EXCEPT !.act = b]) \in Surface BY <3>1, AskedIs
      <3> QED BY <1>3, <3>1, <3>2 DEF Asked, window_activate
    <2>2. Wished(q, b) BY <1>1, <1>3 DEF Surface, Wishes, Wished, Unshown, Told, Placed
    <2>3. Answered(q) BY DEF Surface, Answered
    <2> HIDE DEF q
    <2> QED BY <2>1, <2>2, <2>3
  <1> QED BY <1>2, <1>3

\* A window that is made fullscreen or not is told so.
LEMMA StateAgain ==
  ASSUME NEW r \in Surface, NEW active \in BOOLEAN, Unshown(r, active), Told(r, active), r.admitted,
         NEW full \in BOOLEAN
  PROVE  LET t == tomoe_window_state(r, full)
         IN  /\ t \in Surface /\ t.admitted /\ Unshown(t, active) /\ Told(t, active)
             /\ Answered(r) => Answered(t)
  <1> DEFINE q == [r EXCEPT !.full = full]
             t == [q EXCEPT !.sched = [q.sched EXCEPT !.full = full], !.idle = TRUE]
  <1>1. r.sched \in Wishes BY DEF Surface
  <1>2. q \in Surface /\ q.sched = r.sched BY DEF Surface
  <1>3. CASE q.initialized /\ q.sched.full # full
    <2>1. Fullscreened(q, full) = t /\ t \in Surface
      <3> HIDE DEF q, t
      <3>1. /\ Fullscreened(q, full) = Asked(q, [q.sched EXCEPT !.full = full])
            /\ [q.sched EXCEPT !.full = full] \in Wishes
        BY <1>2, Makes
      <3>2. Asked(q, [q.sched EXCEPT !.full = full]) \in Surface BY <1>2, <3>1, AskedIs
      <3> QED BY <3>1, <3>2 DEF Asked, t
    <2>2. tomoe_window_state(r, full) = t BY <1>3, <2>1 DEF tomoe_window_state
    <2>3. Unshown(t, active) /\ Told(t, active) BY <1>1, <1>2 DEF Surface, Wishes, Unshown, Told
    <2>4. Answered(t) /\ t.admitted BY DEF Surface, Answered
    <2> HIDE DEF t
    <2> QED BY <2>1, <2>2, <2>3, <2>4
  <1>4. CASE ~(q.initialized /\ q.sched.full # full)
    <2>1. tomoe_window_state(r, full) = q BY <1>4 DEF tomoe_window_state
    <2>2. Unshown(q, active) /\ Told(q, active) BY <1>1, <1>2, <1>4 DEF Surface, Wishes, Unshown, Told
    <2>3. q.admitted /\ (Answered(r) => Answered(q)) BY DEF Surface, Answered
    <2> HIDE DEF q
    <2> QED BY <1>2, <2>1, <2>2, <2>3
  <1> QED BY <1>3, <1>4

\* The map and unmap listeners, and what a commit applies.
LEMMA AppliedKeeps ==
  ASSUME NEW r \in Surface, NEW what \in Attaches, NEW works \in BOOLEAN
  PROVE  /\ Applied(r, what, works) \in Surface
         /\ Applied(r, what, works).object = r.object
         /\ Applied(r, what, works).initialized = r.initialized
         /\ Answered(r) => Answered(Applied(r, what, works))
         /\ \A active \in BOOLEAN : Wished(r, active) => Wished(Applied(r, what, works), active)
  <1> DEFINE attached == CASE what = "keep" -> r.attached [] what = "null" -> FALSE [] OTHER -> TRUE
             texture == CASE what = "keep" -> r.texture [] what = "null" -> FALSE [] OTHER -> works
             u == IF what = "null" /\ r.mapped THEN unmapped(r) ELSE r
  <1>1. r.attached \in BOOLEAN /\ r.texture \in BOOLEAN /\ r.mapped \in BOOLEAN BY DEF Surface
  <1>2. attached \in BOOLEAN /\ texture \in BOOLEAN
    <2>1. what \in {"keep", "null", "buffer"} BY DEF Attaches
    <2>2. CASE what = "keep" BY <2>2, <1>1
    <2>3. CASE what = "null" BY <2>3
    <2>4. CASE what = "buffer" BY <2>4
    <2> QED BY <2>1, <2>2, <2>3, <2>4
  <1>3. u \in {r, unmapped(r)} OBVIOUS
  <1>4. /\ u \in Surface /\ u.object = r.object /\ u.initialized = r.initialized /\ u.pending \in BOOLEAN
        /\ u.attached = r.attached /\ u.texture = r.texture
        /\ Answered(r) => Answered(u)
        /\ \A active \in BOOLEAN : Wished(r, active) => Wished(u, active)
    <2> DEFINE v == [r EXCEPT !.mapped = FALSE, !.known = Nobody]
    <2>1. unmapped(r) = v BY DEF unmapped
    <2>2. v \in Surface /\ v.object = r.object /\ v.initialized = r.initialized
      BY DEF Surface
    <2>3. v.attached = r.attached /\ v.texture = r.texture /\ v.pending \in BOOLEAN /\ r.pending \in BOOLEAN
      BY DEF Surface
    <2>4. Answered(r) => Answered(v) BY DEF Surface, Answered
    <2>5. \A active \in BOOLEAN : Wished(r, active) => Wished(v, active)
      BY DEF Surface, Wished, Unshown, Told, Placed
    <2> HIDE DEF v, u
    <2> QED BY <1>3, <2>1, <2>2, <2>3, <2>4, <2>5
  <1>5. Applied(r, what, works) =
          [u EXCEPT !.attached = attached, !.texture = texture, !.current = r.pending]
    <2>1. attached = (CASE what = "keep" -> u.attached [] what = "null" -> FALSE [] OTHER -> TRUE)
      BY <1>4
    <2>2. texture = (CASE what = "keep" -> u.texture [] what = "null" -> FALSE [] OTHER -> works)
      BY <1>4
    <2> HIDE DEF attached, texture
    <2> QED BY <1>4, <2>1, <2>2 DEF Applied, Surface
  <1>6. r.pending \in BOOLEAN BY DEF Surface
  <1> HIDE DEF u, attached, texture
  <1> DEFINE a == [u EXCEPT !.attached = attached, !.texture = texture, !.current = r.pending]
  <1>7. a \in Surface /\ a.object = u.object /\ a.initialized = u.initialized
    <2>1. u \in Surface BY <1>4
    <2>2. a.object = u.object /\ a.initialized = u.initialized BY <2>1 DEF Surface
    <2>3. a \in Surface BY <1>2, <1>6, <2>1, AppliedTyped
    <2> QED BY <2>2, <2>3
  <1>8. Answered(u) => Answered(a) BY <1>4 DEF Surface, Answered
  <1>9. \A active \in BOOLEAN : Wished(u, active) => Wished(a, active)
    BY <1>4 DEF Surface, Wished, Unshown, Told, Placed
  <1> HIDE DEF a
  <1>10. Applied(r, what, works) = a BY <1>5 DEF a
  <1> QED BY <1>4, <1>7, <1>8, <1>9, <1>10

\* A window is admitted when it is first mapped, and its size is not yet told.
LEMMA MappedKeeps ==
  ASSUME NEW r \in Surface, NEW s \in Sizes
  PROVE  /\ mapped(r, s) \in Surface
         /\ mapped(r, s).admitted /\ mapped(r, s).initialized = r.initialized
         /\ mapped(r, s).object = r.object
         /\ Answered(r) => Answered(mapped(r, s))
         /\ \A active \in BOOLEAN : r.object /\ Unshown(r, active) => Unshown(mapped(r, s), active)
         /\ \A active \in BOOLEAN : r.object /\ Wished(r, active) => Wished(mapped(r, s), active)
  <1> DEFINE size == IF r.admitted THEN r.size ELSE s
             q == [r EXCEPT !.mapped = TRUE, !.known = Nobody, !.fullscreen_state = r.current,
                            !.admitted = TRUE, !.size = size]
  <1>1. size \in Sizes \cup {Nobody} BY DEF Surface
  <1> HIDE DEF size
  <1>2. mapped(r, s) = q BY DEF mapped, size, Surface
  <1>3. q \in Surface BY <1>1 DEF Surface
  <1>4. q.admitted /\ q.initialized = r.initialized /\ q.object = r.object BY DEF Surface
  <1>5. Answered(r) => Answered(q) BY DEF Surface, Answered
  <1>6. \A active \in BOOLEAN : r.object /\ Unshown(r, active) => Unshown(q, active)
    BY DEF Surface, Unshown
  <1>7. ASSUME NEW active \in BOOLEAN, r.object, Wished(r, active)
        PROVE  Wished(q, active)
    <2>1. r.sched \in Wishes BY DEF Surface
    <2>2. Unshown(q, active) BY <1>7, <1>6 DEF Wished
    <2>3. r.initialized => r.sched.full = r.full /\ r.sched.act = active
      <3>1. CASE r.admitted BY <1>7, <3>1 DEF Wished, Told, Placed
      <3>2. CASE ~r.admitted
        BY <1>7, <2>1, <3>2 DEF Wished, Unshown, Wishes, Surface
      <3> QED BY <3>1, <3>2
    <2>4. Told(q, active) BY <1>7, <2>3 DEF Surface, Wished, Told, Placed
    <2>5. Placed(q) BY DEF Surface, Placed
    <2> QED BY <2>2, <2>4, <2>5 DEF Wished
  <1> HIDE DEF q
  <1> QED BY <1>2, <1>3, <1>4, <1>5, <1>7, <1>6

\* The listener of a window's commit: after an initial one everything that is wanted of
\* the window is scheduled.
LEMMA WindowCommitKeeps ==
  ASSUME NEW r \in Surface, NEW initial \in BOOLEAN, NEW active \in BOOLEAN, Unshown(r, active), r.object,
         initial => r.initialized, ~initial => Told(r, active) /\ Placed(r) /\ Answered(r)
  PROVE  /\ window_commit(r, initial, active) \in Surface
         /\ Wished(window_commit(r, initial, active), active) /\ Answered(window_commit(r, initial, active))
  <1>1. r.sched \in Wishes /\ r.size \in Sizes \cup {Nobody} /\ r.full \in BOOLEAN /\ r.admitted \in BOOLEAN
    BY DEF Surface
  <1>2. CASE initial /\ ~r.admitted
    <2> DEFINE w == [r.sched EXCEPT !.size = Nobody]
    <2>1. Sized(r, Nobody) = Asked(r, w) /\ w \in Wishes BY Makes
    <2>2. w.full = r.sched.full /\ w.act = r.sched.act BY <1>1 DEF Wishes
    <2>3. window_commit(r, initial, active) = Asked(r, w) BY <1>2, <2>1 DEF window_commit
    <2> HIDE DEF w
    <2>4. Asked(r, w) \in Surface BY <2>1, AskedIs
    <2>5. Wished(Asked(r, w), active) /\ Answered(Asked(r, w))
      BY <1>1, <1>2, <2>1, <2>2 DEF Asked, Surface, Wished, Unshown, Told, Placed, Answered
    <2> QED BY <2>3, <2>4, <2>5
  <1>3. CASE initial /\ r.admitted
    <2> DEFINE u == [r.sched EXCEPT !.size = r.size]
               v == [u EXCEPT !.full = r.full]
               w == [v EXCEPT !.act = active]
    <2>1. u \in Wishes /\ v \in Wishes /\ w \in Wishes BY <1>1 DEF Wishes
    <2>2. w.size = r.size /\ w.full = r.full /\ w.act = active BY <1>1, <2>1 DEF Wishes
    <2>3. Sized(r, r.size) = Asked(r, u) BY <1>1, Makes
    <2>4. Fullscreened(Asked(r, u), r.full) = Asked(r, v)
      <3>1. Asked(r, u) \in Surface /\ Asked(r, u).sched = u BY <2>1, AskedIs
      <3>2. Fullscreened(Asked(r, u), r.full) = Asked(Asked(r, u), [Asked(r, u).sched EXCEPT !.full = r.full])
        BY <1>1, <3>1, Makes
      <3> HIDE DEF u
      <3>3. Fullscreened(Asked(r, u), r.full) = Asked(Asked(r, u), v) BY <3>1, <3>2
      <3> HIDE DEF v
      <3> QED BY <2>1, <3>3, AskedIs
    <2>5. Activated(Asked(r, v), active) = Asked(r, w)
      <3>1. Asked(r, v) \in Surface /\ Asked(r, v).sched = v BY <2>1, AskedIs
      <3>2. Activated(Asked(r, v), active) = Asked(Asked(r, v), [Asked(r, v).sched EXCEPT !.act = active])
        BY <3>1, Makes
      <3> HIDE DEF v
      <3>3. Activated(Asked(r, v), active) = Asked(Asked(r, v), w) BY <3>1, <3>2
      <3> HIDE DEF w
      <3> QED BY <2>1, <3>3, AskedIs
    <2> HIDE DEF u, v, w
    <2> DEFINE q == [r EXCEPT !.sched = w, !.idle = TRUE, !.known = r.size]
    <2>6. window_commit(r, initial, active) = [Asked(r, w) EXCEPT !.known = r.size]
      BY <1>3, <2>3, <2>4, <2>5 DEF window_commit
    <2>7. [Asked(r, w) EXCEPT !.known = r.size] = q BY DEF Asked, Surface
    <2>8. q \in Surface BY <1>1, <2>1 DEF Surface
    <2>9. Wished(q, active) /\ Answered(q)
      BY <1>3, <2>1, <2>2 DEF Surface, Wished, Unshown, Told, Placed, Answered
    <2> HIDE DEF q
    <2> QED BY <2>6, <2>7, <2>8, <2>9
  <1>4. CASE ~initial
    <2> DEFINE q == [r EXCEPT !.fullscreen_state = r.current]
    <2>1. q \in Surface BY DEF Surface
    <2>2. Wished(q, active) /\ Answered(q)
      BY <1>4 DEF Surface, Wished, Unshown, Told, Placed, Answered
    <2>3. window_commit(r, initial, active) = q BY <1>4 DEF window_commit
    <2> HIDE DEF q
    <2> QED BY <2>1, <2>2, <2>3
  <1> QED BY <1>1, <1>2, <1>3, <1>4

\* Only popups hang from a surface, and one that is dismissed has no role object.
LEMMA DismissedKeeps ==
  ASSUME NEW f \in [XdgSurfaces -> Surface], NEW S \in SUBSET Popups
  PROVE  /\ Dismissed(f, S) \in [XdgSurfaces -> Surface]
         /\ \A y \in Toplevels : Dismissed(f, S)[y] = f[y]
         /\ \A y \in XdgSurfaces : y \notin S => Dismissed(f, S)[y] = f[y]
         /\ \A y \in XdgSurfaces : Answered(f[y]) => Answered(Dismissed(f, S)[y])
  <1> DEFINE gone(r) == [r EXCEPT !.object = FALSE, !.mapped = FALSE, !.parent = Nobody]
  <1>1. ASSUME NEW r \in Surface PROVE gone(r) \in Surface /\ Answered(gone(r))
    <2>1. gone(r) \in Surface BY DEF Surface
    <2>2. Answered(gone(r)) BY DEF Surface, Answered
    <2> QED BY <2>1, <2>2
  <1>2. Dismissed(f, S) = [y \in XdgSurfaces |-> IF y \in S THEN gone(f[y]) ELSE f[y]]
    BY DEF Dismissed
  <1> HIDE DEF gone
  <1>3. \A y \in Toplevels : y \in XdgSurfaces /\ y \notin S
    BY ShellAssumption DEF XdgSurfaces
  <1> QED BY <1>1, <1>2, <1>3

\* A role that is reset takes the popups below it, and no other surface.
LEMMA ResetKeeps ==
  ASSUME NEW f \in [XdgSurfaces -> Surface], NEW x \in XdgSurfaces
  PROVE  /\ surface_reset(f, x) \in [XdgSurfaces -> Surface]
         /\ surface_reset(f, x)[x] = Emptied(f[x])
         /\ \A y \in Toplevels : y # x => surface_reset(f, x)[y] = f[y]
         /\ \A y \in XdgSurfaces : y # x /\ Answered(f[y]) => Answered(surface_reset(f, x)[y])
  <1> DEFINE S == Below(f, {x})
             g == Dismissed(f, S)
  <1>1. S \in SUBSET Popups /\ x \notin S BY DEF Below
  <1> HIDE DEF S
  <1>2. /\ g \in [XdgSurfaces -> Surface] /\ g[x] = f[x]
        /\ \A y \in Toplevels : g[y] = f[y]
        /\ \A y \in XdgSurfaces : Answered(f[y]) => Answered(g[y])
    BY <1>1, DismissedKeeps
  <1> HIDE DEF g
  <1>3. surface_reset(f, x) = [g EXCEPT ![x] = Emptied(g[x])] BY DEF surface_reset, g, S
  <1>4. Emptied(g[x]) \in Surface BY <1>2, WithoutKeeps
  <1>5. \A y \in Toplevels : y \in XdgSurfaces BY DEF XdgSurfaces
  <1> QED BY <1>2, <1>3, <1>4, <1>5

\* A role object that goes takes its window, so that nothing is wanted of it.
LEMMA DestroyedIs ==
  ASSUME NEW f \in [XdgSurfaces -> Surface], NEW x \in XdgSurfaces
  PROVE  /\ role_object_destroy(f, x) \in [XdgSurfaces -> Surface]
         /\ \A y \in XdgSurfaces : y # x => role_object_destroy(f, x)[y] = f[y]
         /\ Emptied(role_object_destroy(f, x)[x]) \in Surface
         /\ Wished(Emptied(role_object_destroy(f, x)[x]), FALSE)
         /\ Answered(Emptied(role_object_destroy(f, x)[x]))
  <1> DEFINE q == [f[x] EXCEPT !.object = FALSE, !.mapped = FALSE, !.parent = Nobody, !.stale = FALSE]
  <1>1. q \in Surface /\ ~q.mapped
    <2>1. f[x] \in Surface OBVIOUS
    <2> QED BY <2>1 DEF Surface
  <1>2. role_object_destroy(f, x) = [f EXCEPT ![x] = WithoutToplevel(q)] BY DEF role_object_destroy
  <1> HIDE DEF q
  <1>3. WithoutToplevel(q) \in Surface BY <1>1, WithoutKeeps
  <1>4. Wished(Emptied(WithoutToplevel(q)), FALSE) BY <1>1, WithoutKeeps
  <1>5. /\ Emptied(WithoutToplevel(q)) \in Surface /\ Answered(Emptied(WithoutToplevel(q)))
    BY <1>3, WithoutKeeps
  <1> QED BY <1>2, <1>3, <1>4, <1>5

\* A step that changes one surface, and not the focus.
LEMMA OneChanges ==
  ASSUME ShellInv, NEW x \in XdgSurfaces, NEW r \in Surface, xdg' = [xdg EXCEPT ![x] = r],
         focused' = focused, x \in Toplevels => Wished(r, focused = x), Answered(r)
  PROVE  ShellInv'
  <1>1. xdg \in [XdgSurfaces -> Surface] BY DEF ShellInv, ShellTypes
  <1>2. xdg' \in [XdgSurfaces -> Surface] /\ \A y \in XdgSurfaces : xdg'[y] = IF y = x THEN r ELSE xdg[y]
    BY <1>1
  <1>3. \A y \in Toplevels : y \in XdgSurfaces BY DEF XdgSurfaces
  <1>4. \A y \in Toplevels : Wished(xdg'[y], focused' = y)
    <2> TAKE y \in Toplevels
    <2>1. CASE y = x BY <2>1, <1>2, <1>3
    <2>2. CASE y # x BY <2>2, <1>2, <1>3 DEF ShellInv
    <2> QED BY <2>1, <2>2
  <1>5. \A y \in XdgSurfaces : Answered(xdg'[y]) BY <1>2 DEF ShellInv
  <1> QED BY <1>2, <1>4, <1>5 DEF ShellInv, ShellTypes

\* A step that resets or dismisses surfaces besides.
LEMMA OthersGo ==
  ASSUME ShellInv, NEW x \in XdgSurfaces, NEW r \in Surface, NEW f \in [XdgSurfaces -> Surface],
         xdg' = [f EXCEPT ![x] = r], focused' = focused,
         \A y \in Toplevels : y # x => f[y] = xdg[y],
         \A y \in XdgSurfaces : y # x => Answered(f[y]),
         x \in Toplevels => Wished(r, focused = x), Answered(r)
  PROVE  ShellInv'
  <1>1. xdg' \in [XdgSurfaces -> Surface] /\ \A y \in XdgSurfaces : xdg'[y] = IF y = x THEN r ELSE f[y]
    OBVIOUS
  <1>2. \A y \in Toplevels : y \in XdgSurfaces BY DEF XdgSurfaces
  <1>3. \A y \in Toplevels : Wished(xdg'[y], focused' = y)
    <2> TAKE y \in Toplevels
    <2>1. CASE y = x BY <2>1, <1>1, <1>2
    <2>2. CASE y # x
      <3>1. xdg'[y] = xdg[y] BY <1>1, <1>2, <2>2
      <3> QED BY <3>1 DEF ShellInv
    <2> QED BY <2>1, <2>2
  <1>4. \A y \in XdgSurfaces : Answered(xdg'[y]) BY <1>1
  <1> QED BY <1>1, <1>3, <1>4 DEF ShellInv, ShellTypes

\* A step that resets or dismisses surfaces, after which x is as r and without focus.
LEMMA OneGoes ==
  ASSUME ShellInv, NEW x \in XdgSurfaces, NEW r \in Surface, NEW f \in [XdgSurfaces -> Surface],
         xdg' = [f EXCEPT ![x] = r],
         \A y \in Toplevels : y # x => f[y] = xdg[y],
         \A y \in XdgSurfaces : y # x => Answered(f[y]),
         focused' = FocusWithout(x), Wished(r, FALSE), Answered(r)
  PROVE  ShellInv'
  <1>1. xdg' \in [XdgSurfaces -> Surface] /\ \A y \in XdgSurfaces : xdg'[y] = IF y = x THEN r ELSE f[y]
    OBVIOUS
  <1>2. \A y \in Toplevels : y \in XdgSurfaces /\ y # Nobody BY ShellAssumption DEF XdgSurfaces
  <1>3. /\ focused' \in Toplevels \cup {Nobody}
        /\ \A y \in Toplevels : (focused' = y) <=> (focused = y /\ y # x)
    BY <1>2 DEF FocusWithout, ShellInv, ShellTypes
  <1>4. \A y \in Toplevels : Wished(xdg'[y], focused' = y)
    <2> TAKE y \in Toplevels
    <2>1. CASE y = x
      <3>1. (focused' = y) = FALSE BY <1>3, <2>1
      <3>2. xdg'[y] = r BY <1>1, <1>2, <2>1
      <3> QED BY <3>1, <3>2
    <2>2. CASE y # x
      <3>1. (focused' = y) = (focused = y) BY <1>3, <2>2
      <3>2. xdg'[y] = xdg[y] BY <1>1, <1>2, <2>2
      <3> QED BY <3>1, <3>2 DEF ShellInv
    <2> QED BY <2>1, <2>2
  <1>5. \A y \in XdgSurfaces : Answered(xdg'[y]) BY <1>1
  <1> QED BY <1>1, <1>3, <1>4, <1>5 DEF ShellInv, ShellTypes

\* A role object or its wl_surface goes.
LEMMA RoleGoes ==
  ASSUME ShellInv, NEW x \in XdgSurfaces, role_resource_destroyed(x) \/ SurfaceFree(x)
  PROVE  ShellInv'
  <1> DEFINE f == role_object_destroy(xdg, x)
             g == surface_reset(f, x)
  <1>1. xdg \in [XdgSurfaces -> Surface] /\ \A y \in XdgSurfaces : Answered(xdg[y])
    BY DEF ShellInv, ShellTypes
  <1>2. /\ f \in [XdgSurfaces -> Surface] /\ \A y \in XdgSurfaces : y # x => f[y] = xdg[y]
        /\ Emptied(f[x]) \in Surface /\ Wished(Emptied(f[x]), FALSE) /\ Answered(Emptied(f[x]))
    BY <1>1, DestroyedIs
  <1> HIDE DEF f
  <1>3. /\ g \in [XdgSurfaces -> Surface] /\ g[x] = Emptied(f[x])
        /\ \A y \in Toplevels : y # x => g[y] = f[y]
        /\ \A y \in XdgSurfaces : y # x /\ Answered(f[y]) => Answered(g[y])
    BY <1>2, ResetKeeps
  <1> HIDE DEF g
  <1>4. \A y \in Toplevels : y \in XdgSurfaces BY DEF XdgSurfaces
  <1>5. /\ \A y \in Toplevels : y # x => g[y] = xdg[y]
        /\ \A y \in XdgSurfaces : y # x => Answered(g[y])
    BY <1>1, <1>2, <1>3, <1>4
  <1>6. focused' = FocusWithout(x) BY DEF role_resource_destroyed, SurfaceFree
  <1>7. CASE role_resource_destroyed(x)
    <2>1. xdg' = g BY <1>7 DEF role_resource_destroyed, f, g
    <2>2. xdg' = [g EXCEPT ![x] = Emptied(f[x])] BY <2>1, <1>3
    <2> QED BY <2>2, <1>2, <1>3, <1>5, <1>6, OneGoes
  <1>8. CASE SurfaceFree(x)
    <2>1. xdg' = [g EXCEPT ![x] = Fresh] BY <1>8 DEF SurfaceFree, f, g
    <2>2. Fresh \in Surface /\ Wished(Fresh, FALSE) /\ Answered(Fresh) BY FreshTyped
    <2> QED BY <2>1, <2>2, <1>3, <1>5, <1>6, OneGoes
  <1> QED BY <1>7, <1>8

\* An xdg_surface without a role object goes.
LEMMA XdgSurfaceGoes ==
  ASSUME ShellInv, NEW x \in XdgSurfaces, surface_destroy_request(x)
  PROVE  ShellInv'
  <1> DEFINE f == surface_reset(xdg, x)
             r == [Fresh EXCEPT !.attached = f[x].attached, !.texture = f[x].texture]
  <1>1. xdg \in [XdgSurfaces -> Surface] /\ \A y \in XdgSurfaces : Answered(xdg[y])
    BY DEF ShellInv, ShellTypes
  <1>2. /\ f \in [XdgSurfaces -> Surface]
        /\ \A y \in Toplevels : y # x => f[y] = xdg[y]
        /\ \A y \in XdgSurfaces : y # x => Answered(f[y])
    BY <1>1, ResetKeeps
  <1>3. xdg' = [f EXCEPT ![x] = r] /\ ~xdg[x].object /\ focused' = focused
    BY DEF surface_destroy_request
  <1>4. focused # x
    <2>1. CASE x \in Toplevels
      <3>1. Wished(xdg[x], focused = x) BY <2>1 DEF ShellInv
      <3>2. xdg[x] \in Surface BY <1>1
      <3> QED BY <3>1, <3>2, <1>3 DEF Wished, Unshown, Surface
    <2>2. CASE x \notin Toplevels
      BY <2>2, ShellAssumption DEF ShellInv, ShellTypes, XdgSurfaces
    <2> QED BY <2>1, <2>2
  <1>5. focused' = FocusWithout(x) BY <1>3, <1>4 DEF FocusWithout
  <1>6. f[x].attached \in BOOLEAN /\ f[x].texture \in BOOLEAN
    <2>1. f[x] \in Surface BY <1>2
    <2> HIDE DEF f
    <2> QED BY <2>1 DEF Surface
  <1> HIDE DEF f
  <1>7. r \in Surface /\ Wished(r, FALSE) /\ Answered(r)
    <2>1. Fresh \in Surface BY FreshTyped
    <2>2. r \in Surface BY <2>1, <1>6 DEF Surface
    <2>3. Wished(r, FALSE) /\ Answered(r)
      BY DEF Fresh, NoState, Wished, Unshown, Told, Placed, Answered
    <2> QED BY <2>2, <2>3
  <1> HIDE DEF r
  <1> QED BY <1>2, <1>3, <1>5, <1>7, OneGoes

\* The surfaces of a state, in parts.
LEMMA Parts ==
  ASSUME ShellInv
  PROVE  /\ xdg \in [XdgSurfaces -> Surface] /\ focused \in Toplevels \cup {Nobody}
         /\ \A x \in XdgSurfaces : xdg[x] \in Surface /\ Answered(xdg[x])
         /\ \A x \in Toplevels : x \in XdgSurfaces /\ x \notin Popups /\ Wished(xdg[x], focused = x)
  BY ShellAssumption DEF ShellInv, ShellTypes, XdgSurfaces

\* An xdg_surface, toplevel or popup is created.
LEMMA ObjectCreated ==
  ASSUME ShellInv, NEW x \in XdgSurfaces,
         get_xdg_surface(x) \/ get_toplevel(x) \/ \E y \in XdgSurfaces : get_popup(x, y)
  PROVE  ShellInv'
  <1>1. xdg[x] \in Surface /\ Answered(xdg[x]) BY Parts
  <1>2. x \in Toplevels => Wished(xdg[x], focused = x) BY Parts
  <1>3. CASE get_xdg_surface(x)
    <2> DEFINE r == [xdg[x] EXCEPT !.exists = TRUE]
    <2>1. xdg' = [xdg EXCEPT ![x] = r] /\ focused' = focused BY <1>3 DEF get_xdg_surface
    <2>2. r \in Surface BY <1>1 DEF Surface
    <2>3. Answered(r) BY <1>1 DEF Surface, Answered
    <2>4. x \in Toplevels => Wished(r, focused = x) BY <1>1, <1>2 DEF Surface, Wished, Unshown, Told, Placed
    <2> HIDE DEF r
    <2> QED BY <2>1, <2>2, <2>3, <2>4, OneChanges
  <1>4. CASE get_toplevel(x)
    <2> DEFINE q == [xdg[x] EXCEPT !.role = TRUE, !.object = TRUE, !.stale = xdg[x].initialized]
               r == WithoutToplevel(q)
    <2>1. xdg' = [xdg EXCEPT ![x] = r] /\ focused' = focused /\ x \in Toplevels /\ ~xdg[x].object
      BY <1>4 DEF get_toplevel
    <2>2. ~xdg[x].initialized /\ ~xdg[x].mapped /\ (focused = x) = FALSE
      BY <1>1, <1>2, <2>1 DEF Wished, Unshown, Surface
    <2>3. q \in Surface /\ ~q.initialized /\ ~q.mapped BY <1>1, <2>2 DEF Surface
    <2>4. Answered(q) BY <1>1 DEF Surface, Answered
    <2> HIDE DEF q
    <2>5. r \in Surface /\ Wished(r, FALSE) /\ Answered(r) BY <2>3, <2>4, WithoutKeeps
    <2> HIDE DEF r
    <2> QED BY <2>1, <2>2, <2>5, OneChanges
  <1>5. ASSUME NEW y \in XdgSurfaces, get_popup(x, y)
        PROVE  ShellInv'
    <2> DEFINE r == [xdg[x] EXCEPT !.role = TRUE, !.object = TRUE, !.parent = y,
                                   !.stale = xdg[x].initialized]
    <2>1. xdg' = [xdg EXCEPT ![x] = r] /\ focused' = focused /\ x \in Popups
      BY <1>5 DEF get_popup
    <2>2. r \in Surface BY <1>1 DEF Surface
    <2>3. Answered(r) BY <1>1 DEF Surface, Answered
    <2>4. x \notin Toplevels BY <2>1, Parts
    <2> HIDE DEF r
    <2> QED BY <2>1, <2>2, <2>3, <2>4, OneChanges
  <1> QED BY <1>3, <1>4, <1>5

\* A popup whose grab is refused goes with those below it.
LEMMA PopupRefused ==
  ASSUME ShellInv, NEW x \in XdgSurfaces, GrabRefused(x)
  PROVE  ShellInv'
  <1> DEFINE S == {x} \cup Below(xdg, {x})
  <1>1. S \in SUBSET Popups BY DEF GrabRefused, Below
  <1>2. xdg' = Dismissed(xdg, S) /\ focused' = focused BY DEF GrabRefused
  <1> HIDE DEF S
  <1>3. xdg \in [XdgSurfaces -> Surface] BY Parts
  <1>4. /\ Dismissed(xdg, S) \in [XdgSurfaces -> Surface]
        /\ \A y \in Toplevels : Dismissed(xdg, S)[y] = xdg[y]
        /\ \A y \in XdgSurfaces : Answered(xdg[y]) => Answered(Dismissed(xdg, S)[y])
    BY <1>1, <1>3, DismissedKeeps
  <1> QED BY <1>2, <1>4 DEF ShellInv, ShellTypes

\* A configure is sent or acknowledged.
LEMMA ConfigureSent ==
  ASSUME ShellInv, NEW x \in XdgSurfaces, configure_idle(x) \/ ack_configure(x)
  PROVE  ShellInv'
  <1> DEFINE active == focused = x
  <1>1. xdg[x] \in Surface /\ Answered(xdg[x]) BY Parts
  <1>2. x \in Toplevels => Wished(xdg[x], active) BY Parts
  <1>3. active \in BOOLEAN OBVIOUS
  <1> HIDE DEF active
  <1>4. CASE configure_idle(x)
    <2>1. xdg' = [xdg EXCEPT ![x] = Sent(xdg[x])] /\ focused' = focused BY <1>4 DEF configure_idle
    <2>2. /\ Sent(xdg[x]) \in Surface /\ Answered(Sent(xdg[x]))
          /\ Wished(xdg[x], active) => Wished(Sent(xdg[x]), active)
      BY <1>1, <1>3, SentKeeps
    <2> QED BY <1>2, <2>1, <2>2, OneChanges DEF active
  <1>5. CASE ack_configure(x)
    <2>1. PICK i \in DOMAIN xdg[x].sent :
            xdg' = [xdg EXCEPT ![x].sent = SubSeq(@, i + 1, Len(@)),
                               ![x].configured = TRUE,
                               ![x].pending = IF xdg[x].object THEN xdg[x].sent[i] ELSE @]
      BY <1>5 DEF ack_configure
    <2> DEFINE sent == SubSeq(xdg[x].sent, i + 1, Len(xdg[x].sent))
               pending == IF xdg[x].object THEN xdg[x].sent[i] ELSE xdg[x].pending
               r == [xdg[x] EXCEPT !.sent = sent, !.configured = TRUE, !.pending = pending]
    <2>2. xdg \in [XdgSurfaces -> Surface] /\ focused' = focused BY <1>5, Parts DEF ack_configure
    <2>3. xdg' = [xdg EXCEPT ![x] = r] BY <2>1, <2>2
    <2>4. xdg[x].sent \in Seq(BOOLEAN) /\ xdg[x].pending \in BOOLEAN BY <1>1 DEF Surface
    <2>5. sent \in Seq(BOOLEAN)
      <3> DEFINE q == xdg[x].sent
      <3>1. q \in Seq(BOOLEAN) /\ i \in 1 .. Len(q) BY <2>4
      <3> HIDE DEF q
      <3>2. SubSeq(q, i + 1, Len(q)) \in Seq(BOOLEAN) BY <3>1
      <3> QED BY <3>2 DEF q
    <2>6. pending \in BOOLEAN
      <3>1. xdg[x].sent[i] \in BOOLEAN BY <2>4
      <3> QED BY <3>1, <2>4
    <2> HIDE DEF sent, pending
    <2>7. r \in Surface BY <1>1, <2>5, <2>6 DEF Surface
    <2>8. Answered(r) BY <1>1 DEF Surface, Answered
    <2>9. x \in Toplevels => Wished(r, active) BY <1>1, <1>2 DEF Surface, Wished, Unshown, Told, Placed
    <2> HIDE DEF r
    <2> QED BY <2>2, <2>3, <2>7, <2>8, <2>9, OneChanges DEF active
  <1> QED BY <1>4, <1>5

\* A client asks for what is answered by a configure.
LEMMA ClientAsks ==
  ASSUME ShellInv, NEW x \in XdgSurfaces,
         \/ popup_reposition(x) \/ window_request(x) \/ decoration_detach(x)
         \/ \E fresh \in BOOLEAN : Decorate(x, fresh)
  PROVE  ShellInv'
  <1> DEFINE active == focused = x
  <1>1. xdg[x] \in Surface /\ Answered(xdg[x]) BY Parts
  <1>2. x \in Toplevels => Wished(xdg[x], active) BY Parts
  <1>3. active \in BOOLEAN OBVIOUS
  <1> HIDE DEF active
  <1>4. /\ Scheduled(xdg[x]) \in Surface /\ Answered(Scheduled(xdg[x]))
        /\ Wished(xdg[x], active) => Wished(Scheduled(xdg[x]), active)
    BY <1>1, <1>3, ScheduledKeeps
  <1>5. CASE popup_reposition(x) \/ window_request(x)
    <2>1. xdg' = [xdg EXCEPT ![x] = Scheduled(xdg[x])] /\ focused' = focused
      BY <1>5 DEF popup_reposition, window_request
    <2> QED BY <1>2, <1>4, <2>1, OneChanges DEF active
  <1>6. CASE decoration_detach(x)
    <2> DEFINE r == [xdg[x] EXCEPT !.decoration = "none"]
    <2>1. xdg' = [xdg EXCEPT ![x] = r] /\ focused' = focused
      BY <1>6, Parts DEF decoration_detach
    <2>2. r \in Surface BY <1>1 DEF Surface
    <2>3. Answered(r) BY <1>1 DEF Surface, Answered
    <2>4. x \in Toplevels => Wished(r, active) BY <1>1, <1>2 DEF Surface, Wished, Unshown, Told, Placed
    <2> HIDE DEF r
    <2> QED BY <2>1, <2>2, <2>3, <2>4, OneChanges DEF active
  <1>7. ASSUME NEW fresh \in BOOLEAN, Decorate(x, fresh)
        PROVE  ShellInv'
    <2> DEFINE q == IF xdg[x].initialized THEN Scheduled(xdg[x]) ELSE xdg[x]
               r == [q EXCEPT !.decoration = "untold"]
    <2>1. xdg' = [xdg EXCEPT ![x] = r] /\ focused' = focused /\ x \in Toplevels
      BY <1>7 DEF Decorate
    <2>2. q \in Surface /\ Answered(q) /\ Wished(q, active) BY <1>1, <1>2, <1>4, <2>1
    <2>3. q.initialized => q.idle BY <1>1 DEF Scheduled, Surface
    <2> HIDE DEF q
    <2>4. r \in Surface BY <2>2 DEF Surface
    <2>5. Answered(r) BY <2>2 DEF Surface, Answered
    <2>6. Wished(r, active) BY <2>2, <2>3 DEF Surface, Wished, Unshown, Told, Placed
    <2> HIDE DEF r
    <2> QED BY <2>1, <2>4, <2>5, <2>6, OneChanges DEF active
  <1> QED BY <1>5, <1>6, <1>7

\* The policy places a window, or the layout is refreshed.
LEMMA PolicyAsks ==
  ASSUME ShellInv, NEW x \in Toplevels,
         \/ windows_refresh(x)
         \/ \E s \in Sizes, full \in BOOLEAN : windows_publish_presentation(x, s, full)
  PROVE  ShellInv'
  <1> DEFINE active == focused = x
  <1>1. x \in XdgSurfaces /\ xdg[x] \in Surface /\ Answered(xdg[x]) /\ Wished(xdg[x], active) BY Parts
  <1>2. active \in BOOLEAN OBVIOUS
  <1> HIDE DEF active
  <1>3. CASE windows_refresh(x)
    <2>1. xdg[x].admitted BY <1>1, <1>3 DEF windows_refresh, Wished, Unshown, Surface
    <2>2. xdg' = [xdg EXCEPT ![x] = configure_xdg(xdg[x])] /\ focused' = focused
      BY <1>3 DEF windows_refresh
    <2>3. /\ configure_xdg(xdg[x]) \in Surface /\ Wished(configure_xdg(xdg[x]), active)
          /\ Answered(configure_xdg(xdg[x]))
      BY <1>1, <1>2, <2>1, PlacedAgain DEF Wished
    <2> QED BY <1>1, <2>2, <2>3, OneChanges DEF active
  <1>4. ASSUME NEW s \in Sizes, NEW full \in BOOLEAN, windows_publish_presentation(x, s, full)
        PROVE  ShellInv'
    <2> DEFINE q == [xdg[x] EXCEPT !.size = s]
               t == tomoe_window_state(q, full)
               r == IF t.mapped THEN configure_xdg(t) ELSE t
    <2>1. xdg' = [xdg EXCEPT ![x] = r] /\ focused' = focused /\ xdg[x].admitted
      BY <1>4 DEF windows_publish_presentation
    <2>2. q \in Surface BY <1>1 DEF Surface
    <2>3. Unshown(q, active) /\ Told(q, active) /\ q.admitted /\ Answered(q)
      BY <1>1, <2>1 DEF Surface, Wished, Unshown, Told, Answered
    <2> HIDE DEF q
    <2>4. t \in Surface /\ t.admitted /\ Unshown(t, active) /\ Told(t, active) /\ Answered(t)
      BY <1>2, <2>2, <2>3, StateAgain
    <2> HIDE DEF t
    <2>5. configure_xdg(t) \in Surface /\ Wished(configure_xdg(t), active) /\ Answered(configure_xdg(t))
      BY <1>2, <2>4, PlacedAgain
    <2>6. ~t.mapped => Wished(t, active) BY <2>4 DEF Wished, Placed
    <2>7. r \in Surface /\ Wished(r, active) /\ Answered(r) BY <2>4, <2>5, <2>6
    <2> HIDE DEF r
    <2> QED BY <1>1, <2>1, <2>7, OneChanges DEF active
  <1> QED BY <1>3, <1>4

\* The policy moves the focus: both windows are told.
LEMMA FocusMoves ==
  ASSUME ShellInv, NEW x \in Toplevels \cup {Nobody}, Focus(x)
  PROVE  ShellInv'
  <1>1. /\ xdg \in [XdgSurfaces -> Surface] /\ focused \in Toplevels \cup {Nobody}
        /\ \A y \in XdgSurfaces : xdg[y] \in Surface /\ Answered(xdg[y])
        /\ \A y \in Toplevels : y \in XdgSurfaces /\ y \notin Popups /\ Wished(xdg[y], focused = y)
    BY Parts
  <1>2. x # focused /\ focused' = x /\ (x # Nobody => xdg[x].admitted) BY DEF Focus
  <1> DEFINE g(y) == CASE y = focused -> window_activate(xdg[y], FALSE)
                       [] y = x -> window_activate(xdg[y], TRUE)
                       [] OTHER -> xdg[y]
  <1>3. xdg' = [y \in XdgSurfaces |-> g(y)] BY DEF Focus
  <1>4. Nobody \notin XdgSurfaces BY ShellAssumption DEF XdgSurfaces
  <1>5. ASSUME NEW y \in XdgSurfaces
        PROVE  g(y) \in Surface /\ Answered(g(y)) /\ (y \in Toplevels => Wished(g(y), x = y))
    <2>1. xdg[y] \in Surface /\ Answered(xdg[y]) BY <1>1
    <2>2. CASE y = focused
      <3>1. g(y) = window_activate(xdg[y], FALSE) /\ (x = y) = FALSE BY <2>2, <1>2
      <3>2. y \in Toplevels /\ Wished(xdg[y], TRUE)
        <4>1. y \in Toplevels BY <1>1, <1>4, <2>2
        <4>2. Wished(xdg[y], focused = y) BY <1>1, <4>1
        <4>3. (focused = y) = TRUE BY <2>2
        <4> QED BY <4>1, <4>2, <4>3
      <3>3. xdg[y].admitted BY <2>1, <3>2 DEF Wished, Unshown, Surface
      <3> HIDE DEF g
      <3> QED BY <2>1, <3>1, <3>2, <3>3, ActivatedAgain
    <2>3. CASE y # focused /\ y = x
      <3>1. g(y) = window_activate(xdg[y], TRUE) /\ (x = y) = TRUE BY <2>3
      <3>2. y \in Toplevels /\ xdg[y].admitted BY <1>2, <1>4, <2>3
      <3>3. Wished(xdg[y], FALSE)
        <4>1. Wished(xdg[y], focused = y) BY <1>1, <3>2
        <4>2. (focused = y) = FALSE BY <2>3
        <4> QED BY <4>1, <4>2
      <3> HIDE DEF g
      <3> QED BY <2>1, <3>1, <3>2, <3>3, ActivatedAgain
    <2>4. CASE y # focused /\ y # x
      <3>1. g(y) = xdg[y] BY <2>4
      <3>2. ASSUME y \in Toplevels PROVE Wished(xdg[y], x = y)
        <4>1. Wished(xdg[y], focused = y) BY <1>1, <3>2
        <4>2. (focused = y) = (x = y) BY <2>4
        <4> QED BY <4>1, <4>2
      <3> HIDE DEF g
      <3> QED BY <2>1, <3>1, <3>2
    <2> QED BY <2>2, <2>3, <2>4
  <1> HIDE DEF g
  <1>6. xdg' \in [XdgSurfaces -> Surface] /\ \A y \in XdgSurfaces : xdg'[y] = g(y) BY <1>3, <1>5
  <1>7. \A y \in Toplevels : Wished(xdg'[y], focused' = y) BY <1>1, <1>2, <1>5, <1>6
  <1>8. \A y \in XdgSurfaces : Answered(xdg'[y]) BY <1>5, <1>6
  <1>9. focused' \in Toplevels \cup {Nobody} BY <1>2
  <1> QED BY <1>6, <1>7, <1>8, <1>9 DEF ShellInv, ShellTypes

\* A commit: the role is reset or initialized, the window mapped, the listener told.
LEMMA CommitKeeps ==
  ASSUME ShellInv, NEW x \in XdgSurfaces, NEW what \in Attaches, NEW works \in BOOLEAN, NEW s \in Sizes,
         Commit(x, what, works, s)
  PROVE  ShellInv'
  <1> DEFINE active == focused = x
             r == Applied(xdg[x], what, works)
             f == [xdg EXCEPT ![x] = r]
             lost == r.mapped /\ ~r.texture
             initial == ~lost /\ ~r.initialized
             g == IF lost THEN surface_reset(f, x) ELSE [f EXCEPT ![x].initialized = TRUE]
             shown == IF ~g[x].mapped /\ g[x].texture
                      THEN IF x \in Toplevels THEN mapped(g[x], s) ELSE [g[x] EXCEPT !.mapped = TRUE]
                      ELSE g[x]
             last == IF x \in Toplevels THEN window_commit(shown, initial, active)
                     ELSE popup_commit(shown, initial)
  <1>1. /\ xdg \in [XdgSurfaces -> Surface] /\ xdg[x] \in Surface /\ Answered(xdg[x])
        /\ x \in Toplevels => Wished(xdg[x], active)
        /\ \A y \in XdgSurfaces : Answered(xdg[y])
    BY Parts
  <1>2. xdg[x].object /\ focused' = focused BY DEF Commit
  <1>3. xdg' = role_commit(f, x, s) BY DEF Commit
  <1>4. active \in BOOLEAN OBVIOUS
  <1>5. /\ r \in Surface /\ r.object /\ Answered(r)
        /\ x \in Toplevels => Wished(r, active)
    BY <1>1, <1>2, <1>4, AppliedKeeps
  <1> HIDE DEF r, active
  <1>6. f \in [XdgSurfaces -> Surface] /\ f[x] = r /\ \A y \in XdgSurfaces : y # x => f[y] = xdg[y]
    BY <1>1, <1>5
  <1> HIDE DEF f
  <1>7. xdg' = [g EXCEPT ![x] = last]
    <2>1. role_commit(f, x, s) = [g EXCEPT ![x] = last] BY <1>6 DEF role_commit, active
    <2> QED BY <1>3, <2>1
  <1>8. /\ lost \in BOOLEAN /\ initial \in BOOLEAN /\ r.mapped \in BOOLEAN /\ r.texture \in BOOLEAN
        /\ r.initialized \in BOOLEAN /\ r.admitted \in BOOLEAN
    BY <1>5 DEF Surface
  \* The role is reset, or now initialized.
  <1>9. /\ g \in [XdgSurfaces -> Surface]
        /\ \A y \in Toplevels : y # x => g[y] = xdg[y]
        /\ \A y \in XdgSurfaces : y # x => Answered(g[y])
        /\ lost => g[x] = Emptied(r)
        /\ ~lost => g[x] = [r EXCEPT !.initialized = TRUE]
    <2>1. \A y \in Toplevels : y \in XdgSurfaces BY DEF XdgSurfaces
    <2>2. CASE lost
      <3>1. g = surface_reset(f, x) BY <2>2
      <3>2. /\ surface_reset(f, x) \in [XdgSurfaces -> Surface] /\ surface_reset(f, x)[x] = Emptied(f[x])
            /\ \A y \in Toplevels : y # x => surface_reset(f, x)[y] = f[y]
            /\ \A y \in XdgSurfaces : y # x /\ Answered(f[y]) => Answered(surface_reset(f, x)[y])
        BY <1>6, ResetKeeps
      <3> HIDE DEF g
      <3> QED BY <1>1, <1>6, <2>1, <2>2, <3>1, <3>2
    <2>3. CASE ~lost
      <3> DEFINE q == [r EXCEPT !.initialized = TRUE]
      <3>1. q \in Surface BY <1>5 DEF Surface
      <3>2. g = [f EXCEPT ![x] = q] BY <1>6, <2>3
      <3> HIDE DEF g, q
      <3>3. g \in [XdgSurfaces -> Surface] /\ g[x] = q /\ \A y \in XdgSurfaces : y # x => g[y] = f[y]
        BY <1>6, <3>1, <3>2
      <3> QED BY <1>1, <1>6, <2>1, <2>3, <3>3 DEF q
    <2> QED BY <2>2, <2>3, <1>8
  <1>10. g[x] \in Surface BY <1>9
  <1>11. /\ g[x].object
         /\ lost => ~g[x].initialized /\ ~g[x].texture
         /\ ~lost => g[x].initialized
         /\ initial => Answered(g[x]) \/ g[x].initialized
         /\ ~initial => Answered(g[x])
    <2>1. CASE lost
      <3>1. Emptied(r).object /\ ~Emptied(r).initialized /\ Emptied(r).texture = r.texture
        BY <1>5 DEF Emptied, Surface
      <3>2. Answered(Emptied(r)) BY <1>5, WithoutKeeps
      <3> HIDE DEF g
      <3> QED BY <1>9, <2>1, <3>1, <3>2
    <2>2. CASE ~lost
      <3> DEFINE q == [r EXCEPT !.initialized = TRUE]
      <3>1. q.object /\ q.initialized BY <1>5 DEF Surface
      <3>2. r.initialized => Answered(q) BY <1>5 DEF Surface, Answered
      <3> HIDE DEF g, q
      <3> QED BY <1>9, <2>2, <3>1, <3>2, <1>8 DEF q
    <2> QED BY <2>1, <2>2, <1>8
  <1>12. x \in Toplevels => /\ Unshown(g[x], active)
                            /\ ~initial => Wished(g[x], active)
    <2> SUFFICES ASSUME x \in Toplevels
                 PROVE  Unshown(g[x], active) /\ (~initial => Wished(g[x], active))
      OBVIOUS
    <2>1. CASE lost
      <3>1. Wished(Emptied(r), active) BY <1>4, <1>5, WithoutKeeps DEF active, Wished
      <3> HIDE DEF g
      <3> QED BY <1>9, <2>1, <3>1 DEF Wished
    <2>2. CASE ~lost
      <3> DEFINE q == [r EXCEPT !.initialized = TRUE]
      <3>1. Unshown(q, active) BY <1>5 DEF Surface, Wished, Unshown
      <3>2. r.initialized => Wished(q, active) BY <1>5 DEF Surface, Wished, Unshown, Told, Placed
      <3> HIDE DEF g, q
      <3> QED BY <1>9, <2>2, <3>1, <3>2, <1>8 DEF q
    <2> QED BY <2>1, <2>2, <1>8
  <1> HIDE DEF g
  <1>13. CASE x \in Toplevels
    <2>1. /\ shown \in Surface /\ shown.object /\ shown.initialized = g[x].initialized
          /\ Unshown(shown, active)
          /\ ~initial => Wished(shown, active) /\ Answered(shown)
      <3>1. CASE ~g[x].mapped /\ g[x].texture
        <4>1. shown = mapped(g[x], s) BY <1>13, <3>1
        <4> QED BY <4>1, <1>4, <1>10, <1>11, <1>12, <1>13, MappedKeeps DEF active
      <3>2. CASE ~(~g[x].mapped /\ g[x].texture)
        <4>1. shown = g[x] BY <3>2
        <4> QED BY <4>1, <1>10, <1>11, <1>12, <1>13
      <3> QED BY <3>1, <3>2
    <2>2. last = window_commit(shown, initial, active) BY <1>13
    <2> HIDE DEF shown, last
    <2>3. initial => shown.initialized BY <1>11, <2>1
    <2>4. last \in Surface /\ Wished(last, active) /\ Answered(last)
      <3>1. active \in BOOLEAN BY <1>4 DEF active
      <3>2. ~initial => Told(shown, active) /\ Placed(shown) /\ Answered(shown) BY <2>1 DEF Wished
      <3> HIDE DEF initial
      <3> QED BY <1>8, <2>1, <2>2, <2>3, <3>1, <3>2, WindowCommitKeeps
    <2> QED BY <1>2, <1>9, <1>13, <1>7, <2>4, OthersGo DEF active
  <1>14. CASE x \notin Toplevels
    <2>1. shown \in Surface /\ (~initial => Answered(shown))
      <3>1. [g[x] EXCEPT !.mapped = TRUE] \in Surface BY <1>10 DEF Surface
      <3>2. Answered(g[x]) => Answered([g[x] EXCEPT !.mapped = TRUE]) BY <1>10 DEF Surface, Answered
      <3> QED BY <1>10, <1>11, <1>14, <3>1, <3>2
    <2>2. last = popup_commit(shown, initial) BY <1>14
    <2> HIDE DEF shown, last
    <2>3. last \in Surface /\ Answered(last)
      <3> HIDE DEF initial
      <3> QED BY <2>1, <2>2, ScheduledKeeps DEF popup_commit
    <2> QED BY <1>2, <1>9, <1>14, <1>7, <2>3, OthersGo
  <1> QED BY <1>13, <1>14

\* At first there is no surface.
LEMMA ShellStarts == ShellInit => ShellInv
  <1> SUFFICES ASSUME ShellInit PROVE ShellInv OBVIOUS
  <1>1. Fresh \in Surface /\ Answered(Fresh) /\ Wished(Fresh, FALSE) BY FreshTyped
  <1>2. xdg = [x \in XdgSurfaces |-> Fresh] /\ focused = Nobody BY DEF ShellInit
  <1>3. \A x \in Toplevels : x \in XdgSurfaces /\ (focused = x) = FALSE
    BY <1>2, ShellAssumption DEF XdgSurfaces
  <1>4. \A x \in Toplevels : Wished(xdg[x], focused = x) BY <1>1, <1>2, <1>3
  <1> QED BY <1>1, <1>2, <1>4 DEF ShellInv, ShellTypes

\* Every step keeps the invariant.
LEMMA ShellStep ==
  ASSUME ShellInv, [ShellNext]_<<xdg, focused>>
  PROVE  ShellInv'
  <1>1. ASSUME NEW x \in XdgSurfaces,
               \/ get_xdg_surface(x) \/ get_toplevel(x) \/ role_resource_destroyed(x)
               \/ surface_destroy_request(x) \/ SurfaceFree(x) \/ GrabRefused(x)
               \/ configure_idle(x) \/ ack_configure(x) \/ popup_reposition(x)
               \/ window_request(x) \/ decoration_detach(x)
               \/ \E y \in XdgSurfaces : get_popup(x, y)
               \/ \E fresh \in BOOLEAN : Decorate(x, fresh)
        PROVE  ShellInv'
    BY <1>1, ObjectCreated, RoleGoes, XdgSurfaceGoes, PopupRefused, ConfigureSent, ClientAsks
  <1>2. ASSUME NEW x \in XdgSurfaces,
               \E what \in Attaches, works \in BOOLEAN, s \in Sizes : Commit(x, what, works, s)
        PROVE  ShellInv'
    BY <1>2, CommitKeeps
  <1>3. ASSUME NEW x \in Toplevels,
               \/ windows_refresh(x)
               \/ \E s \in Sizes, full \in BOOLEAN : windows_publish_presentation(x, s, full)
        PROVE  ShellInv'
    BY <1>3, PolicyAsks
  <1>4. ASSUME NEW x \in Toplevels \cup {Nobody}, Focus(x)
        PROVE  ShellInv'
    BY <1>4, FocusMoves
  <1>5. CASE UNCHANGED <<xdg, focused>>
    BY <1>5 DEF ShellInv, ShellTypes
  <1> QED BY <1>1, <1>2, <1>3, <1>4, <1>5 DEF ShellNext

\* For any windows, popups, sizes and number of configures kept, in whatever order the
\* policy and the client act, the configure that was sent last, or one that is scheduled,
\* says what the policy wants of each window (window.c, xdg_shell.c).
THEOREM WindowsAreTold == ShellSpec => []WishIsSent
  <1>1. ShellInv => WishIsSent
    <2> SUFFICES ASSUME ShellInv, NEW x \in Toplevels, xdg[x].object, xdg[x].initialized
                 PROVE  /\ xdg[x].idle \/ (xdg[x].said = xdg[x].sched /\ xdg[x].decoration # "untold")
                        /\ xdg[x].admitted => /\ xdg[x].sched.full = xdg[x].full
                                              /\ xdg[x].sched.act = (focused = x)
                        /\ xdg[x].mapped /\ xdg[x].known # Nobody => xdg[x].sched.size = xdg[x].size
      BY DEF WishIsSent
    <2>1. Wished(xdg[x], focused = x) BY Parts
    <2> QED BY <2>1 DEF Wished, Told, Placed
  <1> QED BY <1>1, ShellStarts, ShellStep, PTL DEF ShellSpec

\* For the same, the first commit of a role object is answered by a configure, unless it
\* was made on the xdg_surface of a popup that the compositor dismissed (xdg_shell.c).
THEOREM FirstCommits == ShellSpec => []FirstCommitIsAnswered
  <1>1. ShellInv => FirstCommitIsAnswered BY DEF ShellInv, FirstCommitIsAnswered, Answered
  <1> QED BY <1>1, ShellStarts, ShellStep, PTL DEF ShellSpec

(***************************************************************************)
(* The seat.                                                               *)
(***************************************************************************)
SourceStates == [live : BOOLEAN, used : BOOLEAN, accepted : BOOLEAN, action : BOOLEAN]

Grabs == {"default", "drag", "popup"}

SeatStates ==
  [alive : SUBSET Surfaces, over : Maybe(Surfaces), wanted : Maybe(Surfaces), mode : BOOLEAN,
   bound : SUBSET Clients, devices : SUBSET Clients, controls : SUBSET Clients,
   pfocus : Maybe(Surfaces), pclient : Maybe(Clients),
   kfocus : Maybe(Surfaces), kclient : Maybe(Clients),
   pgrab : Grabs, kgrab : Grabs, popups : SUBSET Clients, grabber : Maybe(Clients),
   buttons : SUBSET Buttons, grabButton : Maybe(Buttons), serial : Maybe(Clients),
   slot : [Slots -> Maybe(Sources)], dragSource : Maybe(Sources),
   drag : Maybe(Drags), source : [Sources -> SourceStates],
   offers : SUBSET [to : Clients, source : Sources],
   told : [Slots -> BOOLEAN], controlsTold : [Slots -> SUBSET Clients]]

\* The grabs belong to something that exists, but for the button of a drag.
GrabsOwned(s) ==
  /\ s.pgrab = s.kgrab
  /\ s.pgrab = "drag" => s.drag # Nothing /\ s.pfocus = Nothing
  /\ s.pgrab = "popup" => s.popups # {}

ButtonDown(s) == s.pgrab = "drag" => s.buttons # {}

DragHas(s) ==
  s.drag # Nothing => /\ s.drag.source \in Maybe({x \in Sources : s.source[x].live})
                      /\ s.drag.client # Nothing => s.drag.client \in s.bound

\* All sources but the loose ones are where they were claimed for.
SourcesKept(s, loose) ==
  \A x \in Sources : s.source[x].live /\ s.source[x].used =>
    x \in {s.slot["selection"], s.slot["primary"], s.dragSource} \cup loose

\* Everybody was told of the slots.
ToldOf(s, slots) ==
  \A k \in slots : /\ s.kclient \in s.devices => s.told[k]
                   /\ s.controls \subseteq s.controlsTold[k]

SeatOK(s, loose, slots) ==
  /\ s \in SeatStates
  /\ GrabsOwned(s) /\ ButtonDown(s) /\ DragHas(s) /\ SourcesKept(s, loose) /\ ToldOf(s, slots)

\* With a drag's grab kept though no button is down, or its source freed.
Ending(s, loose, slots) ==
  /\ s \in SeatStates
  /\ s.drag # Nothing /\ GrabsOwned(s) /\ DragHas(s) /\ SourcesKept(s, loose) /\ ToldOf(s, slots)

-----------------------------------------------------------------------------
(* Telling. *)

LEMMA SendTells ==
  ASSUME NEW s \in SeatStates, NEW c \in Clients, NEW k \in Slots
  PROVE  LET t == send_selection(s, c, k)
         IN /\ t \in SeatStates
            /\ t = [s EXCEPT !.told = t.told]
            /\ c \in s.devices => t.told[k]
            /\ \A j \in Slots : s.told[j] => t.told[j]
BY DEF send_selection, SeatStates

LEMMA FocusTold ==
  ASSUME NEW s \in SeatStates, NEW c \in Clients
  PROVE  LET t == seat_selection_focus(s, c)
         IN /\ t \in SeatStates
            /\ t = [s EXCEPT !.told = t.told]
            /\ c \in s.devices => \A k \in Slots : t.told[k]
            /\ \A j \in Slots : s.told[j] => t.told[j]
<1> DEFINE u == send_selection(s, c, "selection")
           t == send_selection(u, c, "primary")
<1>1. "selection" \in Slots /\ "primary" \in Slots
  BY DEF Slots
<1>2. /\ u \in SeatStates /\ u = [s EXCEPT !.told = u.told]
      /\ c \in s.devices => u.told["selection"]
      /\ \A j \in Slots : s.told[j] => u.told[j]
  BY <1>1, SendTells
<1> HIDE DEF u
<1>3. /\ t \in SeatStates /\ t = [u EXCEPT !.told = t.told]
      /\ c \in u.devices => t.told["primary"]
      /\ \A j \in Slots : u.told[j] => t.told[j]
  BY <1>1, <1>2, SendTells
<1> HIDE DEF t
<1>4. u.devices = s.devices
  BY <1>2 DEF SeatStates
<1>5. t = [s EXCEPT !.told = t.told]
  BY <1>2, <1>3 DEF SeatStates
<1>6. seat_selection_focus(s, c) = t
  BY DEF seat_selection_focus, u, t
<1> QED BY <1>1, <1>2, <1>3, <1>4, <1>5, <1>6 DEF Slots

\* Only what is told depends on it.
LEMMA TellingKeeps ==
  ASSUME NEW s \in SeatStates, NEW t \in SeatStates, NEW loose,
         t = [s EXCEPT !.told = t.told, !.controlsTold = t.controlsTold]
  PROVE  /\ GrabsOwned(t) <=> GrabsOwned(s)
         /\ ButtonDown(t) <=> ButtonDown(s)
         /\ DragHas(t) <=> DragHas(s)
         /\ SourcesKept(t, loose) <=> SourcesKept(s, loose)
         /\ t.kclient = s.kclient /\ t.devices = s.devices /\ t.controls = s.controls
         /\ t.drag = s.drag
<1>1. /\ t.pgrab = s.pgrab /\ t.kgrab = s.kgrab /\ t.pfocus = s.pfocus
      /\ t.popups = s.popups /\ t.buttons = s.buttons
      /\ t.source = s.source /\ t.slot = s.slot /\ t.dragSource = s.dragSource
      /\ t.bound = s.bound /\ t.drag = s.drag
      /\ t.kclient = s.kclient /\ t.devices = s.devices /\ t.controls = s.controls
  BY DEF SeatStates
<1>2. GrabsOwned(t) <=> GrabsOwned(s)
  BY <1>1 DEF GrabsOwned
<1>3. ButtonDown(t) <=> ButtonDown(s)
  BY <1>1 DEF ButtonDown
<1>4. DragHas(t) <=> DragHas(s)
  BY <1>1 DEF DragHas
<1>5. SourcesKept(t, loose) <=> SourcesKept(s, loose)
  BY <1>1 DEF SourcesKept
<1> QED BY <1>1, <1>2, <1>3, <1>4, <1>5

\* Whoever has the focus, and the managers, are told of the slot.
LEMMA ChangedTells ==
  ASSUME NEW s \in SeatStates, NEW k \in Slots, NEW slots \in SUBSET Slots
  PROVE  LET t == selection_changed(s, k)
         IN /\ t \in SeatStates
            /\ t = [s EXCEPT !.told = t.told, !.controlsTold = t.controlsTold]
            /\ ToldOf(s, slots) => ToldOf(t, slots \cup {k})
<1> DEFINE u == IF s.kclient = Nothing THEN s ELSE send_selection(s, s.kclient, k)
           t == [u EXCEPT !.controlsTold[k] = @ \cup s.controls]
<1>1. /\ u \in SeatStates /\ u = [s EXCEPT !.told = u.told]
      /\ s.kclient \in s.devices => u.told[k]
      /\ \A j \in Slots : s.told[j] => u.told[j]
  <2>1. CASE s.kclient = Nothing
    BY <2>1, SeatAssumption DEF SeatStates
  <2>2. CASE s.kclient # Nothing
    <3>1. s.kclient \in Clients
      BY <2>2 DEF SeatStates, Maybe
    <3> QED BY <2>2, <3>1, SendTells
  <2> QED BY <2>1, <2>2
<1>2. selection_changed(s, k) = t
  BY DEF selection_changed, u, t
<1> HIDE DEF u
<1>3. /\ t \in SeatStates /\ t = [s EXCEPT !.told = t.told, !.controlsTold = t.controlsTold]
      /\ t.told = u.told /\ t.kclient = s.kclient /\ t.devices = s.devices /\ t.controls = s.controls
      /\ \A j \in Slots : t.controlsTold[j] = IF j = k THEN s.controlsTold[j] \cup s.controls ELSE s.controlsTold[j]
  BY <1>1 DEF SeatStates
<1> HIDE DEF t
<1>4. ASSUME ToldOf(s, slots) PROVE ToldOf(t, slots \cup {k})
  BY <1>1, <1>3, <1>4 DEF ToldOf
<1> QED BY <1>2, <1>3, <1>4

LEMMA ChangedKeeps ==
  ASSUME NEW s, NEW k \in Slots, NEW loose, NEW slots \in SUBSET Slots
  PROVE  /\ SeatOK(s, loose, slots) => SeatOK(selection_changed(s, k), loose, slots \cup {k})
         /\ Ending(s, loose, slots) => Ending(selection_changed(s, k), loose, slots \cup {k})
<1> DEFINE t == selection_changed(s, k)
<1>1. ASSUME s \in SeatStates
      PROVE  /\ t \in SeatStates
             /\ GrabsOwned(t) <=> GrabsOwned(s)
             /\ ButtonDown(t) <=> ButtonDown(s)
             /\ DragHas(t) <=> DragHas(s)
             /\ SourcesKept(t, loose) <=> SourcesKept(s, loose)
             /\ t.drag = s.drag
             /\ ToldOf(s, slots) => ToldOf(t, slots \cup {k})
  <2>1. /\ t \in SeatStates
        /\ t = [s EXCEPT !.told = t.told, !.controlsTold = t.controlsTold]
        /\ ToldOf(s, slots) => ToldOf(t, slots \cup {k})
    BY <1>1, ChangedTells
  <2> HIDE DEF t
  <2> QED BY <1>1, <2>1, TellingKeeps
<1> HIDE DEF t
<1>2. (SeatOK(s, loose, slots) => SeatOK(t, loose, slots \cup {k}))
      /\ (Ending(s, loose, slots) => Ending(t, loose, slots \cup {k}))
  BY <1>1 DEF SeatOK, Ending
<1> QED BY <1>2 DEF t

-----------------------------------------------------------------------------
(* Focus. *)

LEMMA ClientFor ==
  ASSUME NEW s \in SeatStates, NEW x \in Maybe(Surfaces)
  PROVE  /\ seat_client_for(s, x) \in Maybe(Clients)
         /\ seat_client_for(s, x) # Nothing => seat_client_for(s, x) \in s.bound
         /\ Nothing \notin s.devices
BY SeatAssumption DEF seat_client_for, SeatStates, Maybe

\* The pointer's focus moves, unless a drag holds the pointer.
LEMMA PointerEnters ==
  ASSUME NEW s, NEW x \in Maybe(Surfaces), NEW loose, NEW slots \in SUBSET Slots,
         SeatOK(s, loose, slots), s.pgrab = "drag" => x = Nothing
  PROVE  SeatOK(seat_pointer_enter(s, x), loose, slots)
<1>1. s \in SeatStates /\ seat_client_for(s, x) \in Maybe(Clients)
  BY ClientFor DEF SeatOK
<1> QED BY <1>1 DEF seat_pointer_enter, SeatOK, SeatStates, GrabsOwned, ButtonDown, DragHas,
             SourcesKept, ToldOf

\* The keyboard's focus moves, and its client is told of both slots.
LEMMA KeyboardEnters ==
  ASSUME NEW s, NEW x \in Maybe(Surfaces), NEW loose, NEW slots \in SUBSET Slots,
         SeatOK(s, loose, slots)
  PROVE  SeatOK(seat_keyboard_enter(s, x), loose, slots)
<1> DEFINE c == seat_client_for(s, x)
           u == [s EXCEPT !.kfocus = x, !.kclient = c, !.told = [k \in Slots |-> FALSE]]
           t == seat_selection_focus(u, c)
<1>1. s \in SeatStates /\ c \in Maybe(Clients) /\ Nothing \notin s.devices
  BY ClientFor DEF SeatOK
<1> HIDE DEF c
<1>2. /\ u \in SeatStates /\ u.kclient = c /\ u.devices = s.devices /\ u.controls = s.controls
      /\ u.controlsTold = s.controlsTold
      /\ GrabsOwned(u) /\ ButtonDown(u) /\ DragHas(u) /\ SourcesKept(u, loose)
  BY <1>1 DEF SeatOK, SeatStates, GrabsOwned, ButtonDown, DragHas, SourcesKept
<1> HIDE DEF u
<1>3. CASE s.kfocus = x
  BY <1>3 DEF seat_keyboard_enter
<1>4. CASE s.kfocus # x /\ c = Nothing
  <2>1. seat_keyboard_enter(s, x) = u
    BY <1>4 DEF seat_keyboard_enter, c, u
  <2> QED BY <1>1, <1>2, <1>4, <2>1 DEF SeatOK, ToldOf
<1>5. CASE s.kfocus # x /\ c # Nothing
  <2>1. seat_keyboard_enter(s, x) = t
    BY <1>5 DEF seat_keyboard_enter, c, u, t
  <2>2. c \in Clients
    BY <1>1, <1>5 DEF Maybe
  <2>3. /\ t \in SeatStates /\ t = [u EXCEPT !.told = t.told]
        /\ c \in u.devices => \A k \in Slots : t.told[k]
    BY <1>2, <2>2, FocusTold
  <2> HIDE DEF t
  <2>4. /\ t.controlsTold = u.controlsTold
        /\ t = [u EXCEPT !.told = t.told, !.controlsTold = t.controlsTold]
    BY <1>2, <2>3 DEF SeatStates
  <2>5. /\ GrabsOwned(t) /\ ButtonDown(t) /\ DragHas(t) /\ SourcesKept(t, loose)
        /\ t.kclient = u.kclient /\ t.devices = u.devices /\ t.controls = u.controls
    BY <1>2, <2>3, <2>4, TellingKeeps
  <2>6. ToldOf(t, slots)
    BY <1>2, <2>3, <2>4, <2>5 DEF ToldOf, SeatOK
  <2> QED BY <2>1, <2>3, <2>5, <2>6 DEF SeatOK
<1> QED BY <1>3, <1>4, <1>5

LEMMA FocusUpdated ==
  ASSUME NEW s, NEW loose, NEW slots \in SUBSET Slots, SeatOK(s, loose, slots)
  PROVE  SeatOK(update_keyboard_focus(s), loose, slots)
BY KeyboardEnters DEF update_keyboard_focus, SeatOK, SeatStates

-----------------------------------------------------------------------------
(* Drags. *)

\* What a drag changes as it moves: itself, the offers and what sources were told.
DragPut(s, d, o, q) == [s EXCEPT !.drag = d, !.offers = o, !.source = q]

DragMoved(s, t) ==
  /\ t \in SeatStates
  /\ t = DragPut(s, t.drag, t.offers, t.source)
  /\ t.drag \in Drags /\ t.drag.source = s.drag.source
  /\ \A y \in Sources : t.source[y].live = s.source[y].live /\ t.source[y].used = s.source[y].used

LEMMA DragMoves ==
  ASSUME NEW s \in SeatStates, NEW d \in Drags, NEW o \in SUBSET [to : Clients, source : Sources],
         NEW q \in [Sources -> SourceStates], d.source = s.drag.source,
         \A y \in Sources : q[y].live = s.source[y].live /\ q[y].used = s.source[y].used
  PROVE  DragMoved(s, DragPut(s, d, o, q)) /\ DragPut(s, d, o, q).drag = d
<1> DEFINE t == [s EXCEPT !.drag = d]
           u == [t EXCEPT !.offers = o]
           v == [u EXCEPT !.source = q]
<1>1. t \in SeatStates /\ t.drag = d
  <2>1. d \in Maybe(Drags)
    BY DEF Maybe
  <2> QED BY <2>1 DEF SeatStates
<1>2. v = DragPut(s, d, o, q)
  BY DEF SeatStates, DragPut
<1> HIDE DEF t
<1>3. u \in SeatStates /\ u.drag = d /\ u.offers = o
  BY <1>1 DEF SeatStates
<1> HIDE DEF u
<1>4. v \in SeatStates /\ v.drag = d /\ v.offers = o /\ v.source = q
  BY <1>3 DEF SeatStates
<1> HIDE DEF v
<1>5. v = [s EXCEPT !.drag = v.drag, !.offers = v.offers, !.source = v.source]
  BY <1>2, <1>4 DEF DragPut
<1> QED BY <1>2, <1>4, <1>5 DEF DragMoved, DragPut

\* A drag's focus moves: what it holds is still there.
LEMMA DragLeft ==
  ASSUME NEW s \in SeatStates, s.drag \in Drags
  PROVE  LET t == DragLeaves(s)
         IN DragMoved(s, t) /\ t.drag.client = Nothing
<1> DEFINE d == [s.drag EXCEPT !.focus = Nothing, !.client = Nothing]
           o == IF s.drag.client = Nothing \/ s.drag.dropped THEN s.offers
                ELSE {p \in s.offers : ~(p.source = s.drag.source /\ p.to = s.drag.client)}
<1>1. d \in Drags /\ d.source = s.drag.source /\ d.client = Nothing
  BY DEF Drags
<1>2. o \in SUBSET [to : Clients, source : Sources] /\ s.source \in [Sources -> SourceStates]
  BY DEF SeatStates
<1>3. DragLeaves(s) = DragPut(s, d, o, s.source)
  BY DEF DragLeaves, DragPut, SeatStates
<1> HIDE DEF d, o
<1> QED BY <1>1, <1>2, <1>3, DragMoves

LEMMA DragEntered ==
  ASSUME NEW s \in SeatStates, NEW x \in Surfaces, s.drag \in Drags, s.drag.client = Nothing
  PROVE  LET t == DragEnters(s, x)
         IN DragMoved(s, t) /\ (t.drag.client # Nothing => t.drag.client \in s.bound)
<1> DEFINE c == seat_client_for(s, x)
           d == [s.drag EXCEPT !.focus = x, !.client = c]
           y == s.drag.source
           a == [s.source[y] EXCEPT !.accepted = FALSE]
           q == [s.source EXCEPT ![y] = a]
           o == s.offers \cup {[to |-> c, source |-> y]}
<1>1. c \in Maybe(Clients) /\ (c # Nothing => c \in s.bound)
  BY ClientFor DEF Maybe
<1> HIDE DEF c
<1>2. /\ s.source \in [Sources -> SourceStates] /\ s.offers \in SUBSET [to : Clients, source : Sources]
      /\ s = [s EXCEPT !.drag = s.drag, !.offers = s.offers, !.source = s.source]
  BY DEF SeatStates
<1>3. d \in Drags /\ d.source = s.drag.source /\ d.client = c
  BY <1>1 DEF Drags, Maybe
<1>4. (c \in OldClients) \in BOOLEAN
  BY SMT
<1>5. PICK yes \in BOOLEAN : yes = (c \in OldClients)
  BY <1>4
<1> DEFINE b == [a EXCEPT !.action = yes]
           r == [s.source EXCEPT ![y] = b]
<1>6. CASE c = Nothing \/ (y = Nothing /\ Owner[x] # s.drag.origin)
  <2>1. DragEnters(s, x) = s
    BY <1>6 DEF DragEnters, c
  <2> QED BY <1>2, <2>1 DEF DragMoved, DragPut
<1>7. CASE ~(c = Nothing \/ (y = Nothing /\ Owner[x] # s.drag.origin)) /\ y = Nothing
  <2>1. DragEnters(s, x) = DragPut(s, d, s.offers, s.source)
    BY <1>7 DEF DragEnters, DragPut, c, SeatStates
  <2> HIDE DEF d
  <2> QED BY <1>1, <1>2, <1>3, <2>1, DragMoves
<1>8. CASE c # Nothing /\ y # Nothing
  <2>1. y \in Sources /\ c \in Clients
    BY <1>1, <1>8 DEF Drags, Maybe
  <2>2. a \in SourceStates /\ b \in SourceStates /\ s.source[y] \in SourceStates
        /\ a.live = s.source[y].live /\ a.used = s.source[y].used
        /\ b.live = s.source[y].live /\ b.used = s.source[y].used
    <3>1. s.source[y] \in SourceStates
      BY <1>2, <2>1
    <3>2. a \in SourceStates /\ a.live = s.source[y].live /\ a.used = s.source[y].used
      BY <3>1, Zenon DEF SourceStates
    <3> HIDE DEF a
    <3>3. b \in SourceStates /\ b.live = a.live /\ b.used = a.used
      BY <3>2 DEF SourceStates
    <3> QED BY <3>1, <3>2, <3>3
  <2>3. /\ q \in [Sources -> SourceStates] /\ r \in [Sources -> SourceStates]
        /\ o \in SUBSET [to : Clients, source : Sources]
        /\ \A z \in Sources : /\ q[z].live = s.source[z].live /\ q[z].used = s.source[z].used
                              /\ r[z].live = s.source[z].live /\ r[z].used = s.source[z].used
    <3> HIDE DEF a, b
    <3> QED BY <1>2, <2>1, <2>2
  <2>4. CASE c \notin s.devices
    <3>1. DragEnters(s, x) = DragPut(s, d, s.offers, q)
      BY <1>2, <1>8, <2>1, <2>4 DEF DragEnters, DragPut, c, SeatStates
    <3> HIDE DEF d, q
    <3> QED BY <1>1, <1>2, <1>3, <2>3, <3>1, DragMoves
  <2>5. CASE c \in s.devices
    <3>1. DragEnters(s, x) = DragPut(s, d, o, r)
      <4> DEFINE t == [s EXCEPT !.drag.focus = x, !.drag.client = c]
                 u == [t EXCEPT !.source[y].accepted = FALSE]
                 v == [u EXCEPT !.offers = @ \cup {[to |-> c, source |-> y]},
                                !.source[y].action = yes]
      <4>1. DragEnters(s, x) = v
        BY <1>5, <1>8, <2>5 DEF DragEnters, c
      <4>2. t = [s EXCEPT !.drag = d]
        BY DEF SeatStates
      <4>3. u = DragPut(s, d, s.offers, q)
        BY <1>2, <2>1 DEF SeatStates, DragPut
      <4>4. r = [q EXCEPT ![y].action = yes]
        <5> HIDE DEF a
        <5> QED BY <1>2, <2>1
      <4> HIDE DEF d, q, r, u
      <4>5. v = DragPut(s, d, o, r)
        BY <4>3, <4>4 DEF SeatStates, DragPut
      <4> QED BY <4>1, <4>5
    <3> HIDE DEF d, o, r
    <3> QED BY <1>1, <1>2, <1>3, <2>3, <3>1, DragMoves
  <2> QED BY <2>4, <2>5
<1> QED BY <1>6, <1>7, <1>8

LEMMA PutAgain ==
  ASSUME NEW s \in SeatStates, NEW d, NEW o, NEW q, NEW d2, NEW o2, NEW q2
  PROVE  DragPut(DragPut(s, d, o, q), d2, o2, q2) = DragPut(s, d2, o2, q2)
BY DEF DragPut, SeatStates

LEMMA DragFocus ==
  ASSUME NEW s \in SeatStates, NEW x \in Maybe(Surfaces), s.drag \in Drags, DragHas(s)
  PROVE  LET t == drag_set_focus(s, x)
         IN DragMoved(s, t) /\ DragHas(t)
<1> DEFINE u == DragLeaves(s)
           v == DragEnters(u, x)
<1>1. CASE s.drag.focus = x
  BY <1>1 DEF drag_set_focus, DragMoved, DragPut, SeatStates
<1>2. DragMoved(s, u) /\ u.drag.client = Nothing
  BY DragLeft
<1>3. u \in SeatStates /\ u.bound = s.bound /\ Nothing \notin Drags
  BY <1>2, SeatAssumption DEF DragMoved, DragPut, SeatStates
<1>4. CASE s.drag.focus # x /\ x = Nothing
  <2>1. drag_set_focus(s, x) = u
    BY <1>4 DEF drag_set_focus
  <2> HIDE DEF u
  <2>2. DragHas(u)
    BY <1>2, <1>3 DEF DragMoved, DragPut, DragHas, Maybe
  <2> QED BY <1>2, <2>1, <2>2
<1>5. CASE s.drag.focus # x /\ x # Nothing
  <2>1. drag_set_focus(s, x) = v
    BY <1>5 DEF drag_set_focus
  <2> HIDE DEF u
  <2>2. x \in Surfaces
    BY <1>5 DEF Maybe
  <2>3. DragMoved(u, v) /\ (v.drag.client # Nothing => v.drag.client \in u.bound)
    BY <1>2, <1>3, <2>2, DragEntered DEF DragMoved, DragPut
  <2> HIDE DEF v
  <2>4. DragMoved(s, v) /\ v.bound = s.bound
    <3>1. v = DragPut(u, v.drag, v.offers, v.source)
      BY <2>3 DEF DragMoved, DragPut
    <3>2. u = DragPut(s, u.drag, u.offers, u.source)
      BY <1>2 DEF DragMoved, DragPut
    <3>3. v = DragPut(s, v.drag, v.offers, v.source)
      BY <3>1, <3>2, PutAgain
    <3>4. v.bound = s.bound
      BY <3>3 DEF SeatStates, DragPut
    <3> QED BY <1>2, <2>3, <3>3, <3>4 DEF DragMoved, DragPut
  <2>5. DragHas(v)
    BY <1>3, <2>3, <2>4 DEF DragMoved, DragPut, DragHas, Maybe
  <2> QED BY <2>1, <2>4, <2>5
<1> QED BY <1>1, <1>4, <1>5

LEMMA DragMovedKeeps ==
  ASSUME NEW s \in SeatStates, NEW t, DragMoved(s, t), DragHas(t), NEW loose, NEW slots \in SUBSET Slots
  PROVE  /\ t.drag # Nothing
         /\ s.drag # Nothing /\ SeatOK(s, loose, slots) => SeatOK(t, loose, slots)
         /\ Ending(s, loose, slots) => Ending(t, loose, slots)
         /\ t.pgrab = s.pgrab /\ t.kgrab = s.kgrab /\ t.pfocus = s.pfocus
<1>1. /\ t.drag # Nothing /\ t.pgrab = s.pgrab /\ t.kgrab = s.kgrab /\ t.pfocus = s.pfocus
      /\ t.popups = s.popups /\ t.buttons = s.buttons /\ t.slot = s.slot
      /\ t.dragSource = s.dragSource /\ t.kclient = s.kclient /\ t.devices = s.devices
      /\ t.told = s.told /\ t.controls = s.controls /\ t.controlsTold = s.controlsTold
  <2>1. t.drag # Nothing
    BY SeatAssumption DEF DragMoved
  <2>2. PICK d, o, q : t = DragPut(s, d, o, q)
    BY DEF DragMoved
  <2> QED BY <2>1, <2>2 DEF DragPut, SeatStates
<1>2. \A y \in Sources : t.source[y].live = s.source[y].live /\ t.source[y].used = s.source[y].used
  BY DEF DragMoved, DragPut
<1>3. t \in SeatStates
  BY DEF DragMoved, DragPut
<1>4. s.drag # Nothing /\ GrabsOwned(s) => GrabsOwned(t)
  BY <1>1 DEF GrabsOwned
<1>5. ButtonDown(s) => ButtonDown(t)
  BY <1>1 DEF ButtonDown
<1>6. SourcesKept(s, loose) => SourcesKept(t, loose)
  BY <1>1, <1>2 DEF SourcesKept
<1>7. ToldOf(s, slots) => ToldOf(t, slots)
  BY <1>1 DEF ToldOf
<1> QED BY <1>1, <1>3, <1>4, <1>5, <1>6, <1>7 DEF SeatOK, Ending

-----------------------------------------------------------------------------
(* Grabs, buttons and the pointer's path. *)

LEMMA Cleared ==
  ASSUME NEW s, NEW loose, NEW slots \in SUBSET Slots, SeatOK(s, loose, slots), s.pgrab # "drag"
  PROVE  SeatOK([s EXCEPT !.buttons = {}], loose, slots)
BY DEF SeatOK, SeatStates, GrabsOwned, ButtonDown, DragHas, SourcesKept, ToldOf

LEMMA FocusNotified ==
  ASSUME NEW s, NEW x \in Maybe(Surfaces), NEW loose, NEW slots \in SUBSET Slots,
         SeatOK(s, loose, slots)
  PROVE  SeatOK(NotifyFocus(s, x), loose, slots)
<1>1. s \in SeatStates /\ s.pgrab \in Grabs
  BY DEF SeatOK, SeatStates
<1>2. CASE s.pgrab = "drag"
  <2> DEFINE t == drag_set_focus(s, x)
  <2>1. s.drag \in Drags /\ s.drag # Nothing /\ DragHas(s)
    BY <1>1, <1>2 DEF SeatOK, GrabsOwned, SeatStates, Maybe
  <2>2. DragMoved(s, t) /\ DragHas(t)
    BY <1>1, <2>1, DragFocus
  <2> HIDE DEF t
  <2>3. SeatOK(t, loose, slots) /\ t.pfocus = s.pfocus
    BY <1>1, <2>1, <2>2, DragMovedKeeps
  <2>4. NotifyFocus(s, x) = t
    BY <1>2, <2>3 DEF NotifyFocus, t
  <2> QED BY <2>3, <2>4
<1>3. CASE s.pgrab # "drag"
  <2> DEFINE z == IF s.pgrab = "default" THEN x
                  ELSE IF x # Nothing /\ Owner[x] = s.grabber THEN x ELSE Nothing
             t == seat_pointer_enter(s, z)
  <2>1. z \in Maybe(Surfaces)
    BY DEF Maybe
  <2>2. NotifyFocus(s, x) = IF t.pfocus = s.pfocus THEN t ELSE [t EXCEPT !.buttons = {}]
    BY <1>1, <1>3 DEF NotifyFocus, Grabs
  <2> HIDE DEF z
  <2>3. SeatOK(t, loose, slots) /\ t.pgrab # "drag"
    <3>1. SeatOK(t, loose, slots)
      BY <1>3, <2>1, PointerEnters
    <3> QED BY <1>1, <1>3, <3>1 DEF seat_pointer_enter, SeatStates
  <2> HIDE DEF t
  <2> QED BY <2>2, <2>3, Cleared
<1> QED BY <1>2, <1>3

LEMMA PlainKeeps ==
  ASSUME NEW s, NEW p \in BOOLEAN, NEW loose, NEW slots \in SUBSET Slots,
         SeatOK(s, loose, slots), s.pgrab # "drag"
  PROVE  SeatOK(PlainButton(s, p), loose, slots) /\ PlainButton(s, p).pgrab # "drag"
<1>1. s \in SeatStates
  BY DEF SeatOK
<1>2. CASE s.pclient # Nothing /\ p /\ Cardinality(s.buttons) = 1
  <2> DEFINE t == [s EXCEPT !.serial = s.pclient]
  <2>1. SeatOK(t, loose, slots) /\ t.pgrab # "drag"
    BY DEF SeatOK, SeatStates, GrabsOwned, ButtonDown, DragHas, SourcesKept, ToldOf
  <2> QED BY <1>2, <2>1 DEF PlainButton
<1>3. CASE s.pclient = Nothing /\ s.pgrab = "popup"
  <2> DEFINE t == grab_end(s)
  <2>1. SeatOK(t, loose, slots) /\ t.pgrab # "drag"
    BY DEF SeatOK, SeatStates, GrabsOwned, ButtonDown, DragHas, SourcesKept, ToldOf, grab_end, Grabs
  <2> HIDE DEF t
  <2>2. PlainButton(s, p) = t
    BY <1>3 DEF PlainButton, t
  <2> QED BY <2>1, <2>2
<1>4. CASE /\ ~(s.pclient # Nothing /\ p /\ Cardinality(s.buttons) = 1)
           /\ ~(s.pclient = Nothing /\ s.pgrab = "popup")
  BY <1>4 DEF PlainButton
<1> QED BY <1>2, <1>3, <1>4

LEMMA PointerMoved ==
  ASSUME NEW s, NEW loose, NEW slots \in SUBSET Slots, SeatOK(s, loose, slots)
  PROVE  /\ SeatOK(pointer_motion(s), loose, slots)
         /\ SeatOK(pointer_refresh(s), loose, slots)
<1>1. s.over \in Maybe(Surfaces)
  BY DEF SeatOK, SeatStates
<1>2. SeatOK(pointer_motion(s), loose, slots)
  <2>1. CASE s.over # Nothing /\ s.over = s.pfocus
    BY <2>1 DEF pointer_motion
  <2>2. CASE ~(s.over # Nothing /\ s.over = s.pfocus)
    <3> DEFINE t == IF s.drag = Nothing /\ (s.over # Nothing \/ s.pfocus # Nothing)
                    THEN ReleasePlain(s) ELSE s
    <3>1. SeatOK(t, loose, slots)
      <4>1. CASE s.drag = Nothing
        <5>1. s.pgrab # "drag"
          BY <4>1 DEF SeatOK, GrabsOwned
        <5> DEFINE u == [s EXCEPT !.buttons = {}]
        <5>2. SeatOK(u, loose, slots) /\ u.pgrab # "drag"
          BY <5>1, Cleared DEF SeatOK, SeatStates
        <5>3. ReleasePlain(s) = IF s.buttons = {} THEN s ELSE PlainButton(u, FALSE)
          BY DEF ReleasePlain
        <5> HIDE DEF u
        <5> QED BY <5>2, <5>3, PlainKeeps
      <4> QED BY <4>1
    <3>2. pointer_motion(s) = NotifyFocus(t, s.over)
      BY <2>2 DEF pointer_motion
    <3> HIDE DEF t
    <3> QED BY <1>1, <3>1, <3>2, FocusNotified
  <2> QED BY <2>1, <2>2
<1> QED BY <1>2 DEF pointer_refresh

\* The end of a drag gives its grabs back, whatever held them.
LEMMA DragEnds ==
  ASSUME NEW s, NEW loose, NEW slots \in SUBSET Slots, Ending(s, loose, slots)
  PROVE  SeatOK(drag_end(s), loose, slots)
<1> DEFINE t == [s EXCEPT !.kgrab = IF @ = "drag" THEN "default" ELSE @,
                          !.pgrab = IF @ = "drag" THEN "default" ELSE @]
           u == drag_set_focus(t, Nothing)
           v == [u EXCEPT !.drag = Nothing]
<1>1. Nothing \in Maybe(Surfaces) /\ Nothing \in Maybe(Drags)
  BY DEF Maybe
<1>2. Ending(t, loose, slots) /\ t.pgrab # "drag" /\ t.drag \in Drags
  <2>1. s \in SeatStates /\ s.drag \in Drags
    BY DEF Ending, SeatStates, Maybe
  <2>2. t \in SeatStates /\ t.pgrab # "drag"
    <3> DEFINE g == [s EXCEPT !.kgrab = IF @ = "drag" THEN "default" ELSE @]
    <3>1. g \in SeatStates
      BY <2>1 DEF SeatStates, Grabs
    <3>2. t = [g EXCEPT !.pgrab = IF @ = "drag" THEN "default" ELSE @]
      BY <2>1 DEF SeatStates
    <3> HIDE DEF g, t
    <3> QED BY <3>1, <3>2 DEF SeatStates, Grabs
  <2>3. GrabsOwned(t) /\ DragHas(t) /\ SourcesKept(t, loose) /\ ToldOf(t, slots) /\ t.drag = s.drag
    BY <2>1 DEF Ending, SeatStates, GrabsOwned, DragHas, SourcesKept, ToldOf
  <2> QED BY <2>1, <2>2, <2>3 DEF Ending
<1> HIDE DEF t
<1>3. DragMoved(t, u) /\ DragHas(u)
  BY <1>1, <1>2, DragFocus DEF Ending
<1> HIDE DEF u
<1>4. Ending(u, loose, slots) /\ u.pgrab # "drag"
  BY <1>2, <1>3, DragMovedKeeps DEF Ending
<1>5. SeatOK(v, loose, slots)
  <2>1. u \in SeatStates
    BY <1>4 DEF Ending
  <2>2. v \in SeatStates
    BY <1>1, <2>1 DEF SeatStates
  <2>3. GrabsOwned(v) /\ ButtonDown(v) /\ DragHas(v) /\ SourcesKept(v, loose) /\ ToldOf(v, slots)
    BY <1>4, <2>1 DEF Ending, SeatStates, GrabsOwned, ButtonDown, DragHas, SourcesKept, ToldOf
  <2> QED BY <2>2, <2>3 DEF SeatOK
<1>6. drag_end(s) = pointer_refresh(update_keyboard_focus(v))
  BY DEF drag_end, t, u, v
<1> HIDE DEF v
<1> QED BY <1>5, <1>6, FocusUpdated, PointerMoved

-----------------------------------------------------------------------------
(* Sources. *)

LEMMA FewerTold ==
  ASSUME NEW s, NEW slots, NEW fewer \in SUBSET slots, ToldOf(s, slots)
  PROVE  ToldOf(s, fewer)
BY DEF ToldOf

\* What a selection that changes leaves alone.
SameGrabs(s, t) ==
  /\ t.pgrab = s.pgrab /\ t.kgrab = s.kgrab /\ t.pfocus = s.pfocus /\ t.popups = s.popups
  /\ t.buttons = s.buttons /\ t.drag = s.drag /\ t.source = s.source /\ t.bound = s.bound

LEMMA SlotEmptied ==
  ASSUME NEW s \in SeatStates, NEW x \in Sources, NEW k \in Slots, ~s.source[x].live,
         NEW loose, NEW slots \in SUBSET Slots, SourcesKept(s, loose), ToldOf(s, slots)
  PROVE  LET t == SlotGoes(s, x, k)
         IN t \in SeatStates /\ SameGrabs(s, t) /\ SourcesKept(t, loose) /\ ToldOf(t, slots)
<1> DEFINE u == Put(s, k, Nothing)
           t == selection_changed(u, k)
<1>1. CASE s.slot[k] # x
  BY <1>1 DEF SlotGoes, SameGrabs
<1>2. CASE s.slot[k] = x
  <2>1. u \in SeatStates /\ SameGrabs(s, u) /\ ToldOf(u, slots \ {k})
    <3>1. Nothing \in Maybe(Sources)
      BY DEF Maybe
    <3>2. u \in SeatStates
      BY <3>1 DEF SeatStates, Put
    <3>3. SameGrabs(s, u) /\ ToldOf(u, slots \ {k})
      BY DEF SeatStates, Put, SameGrabs, ToldOf
    <3> QED BY <3>2, <3>3
  <2>2. SourcesKept(u, loose)
    <3>1. /\ u.source = s.source /\ u.dragSource = s.dragSource
          /\ \A j \in Slots : j # k => u.slot[j] = s.slot[j]
      BY DEF SeatStates, Put
    <3> HIDE DEF u
    <3> QED BY <1>2, <3>1 DEF SourcesKept, Slots
  <2> HIDE DEF u
  <2>3. /\ t \in SeatStates /\ t = [u EXCEPT !.told = t.told, !.controlsTold = t.controlsTold]
        /\ ToldOf(t, (slots \ {k}) \cup {k})
    BY <2>1, ChangedTells
  <2>4. SlotGoes(s, x, k) = t
    BY <1>2 DEF SlotGoes, t, u
  <2> HIDE DEF t
  <2>5. SourcesKept(t, loose)
    BY <2>1, <2>2, <2>3, TellingKeeps
  <2>6. SameGrabs(u, t)
    BY <2>1, <2>3 DEF SeatStates, SameGrabs
  <2>7. ToldOf(t, slots)
    BY <2>3, FewerTold
  <2> QED BY <2>1, <2>3, <2>4, <2>5, <2>6, <2>7 DEF SameGrabs
<1> QED BY <1>1, <1>2

\* A source that goes takes its offers along, empties the slots it is in, and ends the
\* drag that carries it.
LEMMA SourceFreed ==
  ASSUME NEW s \in SeatStates, NEW x \in Sources, NEW loose, NEW slots \in SUBSET Slots,
         GrabsOwned(s), DragHas(s), SourcesKept(s, loose), ToldOf(s, slots),
         ButtonDown(s) \/ (s.drag # Nothing /\ s.drag.source = x)
  PROVE  SeatOK(source_free(s, x), loose \ {x}, slots)
<1> DEFINE gone == [s EXCEPT !.source[x] = NoSource,
                             !.offers = {o \in @ : o.source # x},
                             !.dragSource = IF @ = x THEN Nothing ELSE @]
           u == SlotGoes(gone, x, "selection")
           v == SlotGoes(u, x, "primary")
           w == [v EXCEPT !.drag.source = Nothing]
<1>1. /\ gone \in SeatStates /\ ~gone.source[x].live
      /\ \A y \in Sources : y # x => gone.source[y] = s.source[y]
      /\ gone.pgrab = s.pgrab /\ gone.kgrab = s.kgrab /\ gone.pfocus = s.pfocus
      /\ gone.popups = s.popups /\ gone.buttons = s.buttons /\ gone.drag = s.drag
      /\ gone.bound = s.bound /\ gone.slot = s.slot
      /\ gone.dragSource = IF s.dragSource = x THEN Nothing ELSE s.dragSource
  <2>1. NoSource \in SourceStates /\ ~NoSource.live
    BY DEF NoSource, SourceStates
  <2>2. Nothing \in Maybe(Sources)
    BY DEF Maybe
  <2> HIDE DEF NoSource
  <2>3. gone \in SeatStates
    BY <2>1, <2>2 DEF SeatStates
  <2>4. ~gone.source[x].live /\ \A y \in Sources : y # x => gone.source[y] = s.source[y]
    BY <2>1 DEF SeatStates
  <2>5. /\ gone.pgrab = s.pgrab /\ gone.kgrab = s.kgrab /\ gone.pfocus = s.pfocus
        /\ gone.popups = s.popups /\ gone.buttons = s.buttons /\ gone.drag = s.drag
        /\ gone.bound = s.bound /\ gone.slot = s.slot
        /\ gone.dragSource = IF s.dragSource = x THEN Nothing ELSE s.dragSource
    BY DEF SeatStates
  <2> QED BY <2>3, <2>4, <2>5
<1>2. ToldOf(gone, slots)
  BY DEF SeatStates, ToldOf
<1> HIDE DEF gone
<1>3. SourcesKept(gone, loose \ {x})
  BY <1>1 DEF SourcesKept
<1>4. "selection" \in Slots /\ "primary" \in Slots
  BY DEF Slots
<1>5. u \in SeatStates /\ SameGrabs(gone, u) /\ SourcesKept(u, loose \ {x}) /\ ToldOf(u, slots)
  BY <1>1, <1>2, <1>3, <1>4, SlotEmptied
<1> HIDE DEF u
<1>6. v \in SeatStates /\ SameGrabs(u, v) /\ SourcesKept(v, loose \ {x}) /\ ToldOf(v, slots)
  <2>1. ~u.source[x].live
    BY <1>1, <1>5 DEF SameGrabs
  <2> QED BY <1>4, <1>5, <2>1, SlotEmptied
<1> HIDE DEF v
<1>7. /\ v.pgrab = s.pgrab /\ v.kgrab = s.kgrab /\ v.pfocus = s.pfocus /\ v.popups = s.popups
      /\ v.buttons = s.buttons /\ v.drag = s.drag /\ v.bound = s.bound
      /\ \A y \in Sources : y # x => v.source[y] = s.source[y]
  BY <1>1, <1>5, <1>6 DEF SameGrabs
<1>8. GrabsOwned(v) /\ (ButtonDown(s) => ButtonDown(v))
  BY <1>7 DEF GrabsOwned, ButtonDown
<1>9. CASE ~(s.drag # Nothing /\ s.drag.source = x)
  <2>1. source_free(s, x) = v
    BY <1>9 DEF source_free, gone, u, v
  <2>2. DragHas(v)
    BY <1>7, <1>9 DEF DragHas, Maybe
  <2> QED BY <1>6, <1>8, <1>9, <2>1, <2>2 DEF SeatOK
<1>10. CASE s.drag # Nothing /\ s.drag.source = x
  <2>1. v.drag \in Drags
    BY <1>6, <1>7, <1>10 DEF SeatStates, Maybe
  <2>2. [v.drag EXCEPT !.source = Nothing] \in Drags
        /\ [v.drag EXCEPT !.source = Nothing].source = Nothing
        /\ [v.drag EXCEPT !.source = Nothing].client = v.drag.client
    BY <2>1 DEF Drags
  <2> DEFINE d == [v.drag EXCEPT !.source = Nothing]
  <2>3. w = [v EXCEPT !.drag = d]
    BY <1>6 DEF SeatStates
  <2> HIDE DEF d, w
  <2>4. w \in SeatStates /\ w.drag = d
    <3>1. d \in Maybe(Drags)
      BY <2>2 DEF Maybe, d
    <3> QED BY <1>6, <2>3, <3>1 DEF SeatStates
  <2>5. /\ w.drag # Nothing /\ w.drag.source = Nothing /\ w.drag.client = s.drag.client
        /\ w.bound = s.bound
    BY <1>6, <1>7, <2>2, <2>3, <2>4, SeatAssumption DEF SeatStates, d
  <2>6. GrabsOwned(w) /\ SourcesKept(w, loose \ {x}) /\ ToldOf(w, slots)
    BY <1>6, <1>8, <2>3, <2>5 DEF SeatStates, GrabsOwned, SourcesKept, ToldOf
  <2>7. DragHas(w)
    BY <1>10, <2>5 DEF DragHas, Maybe
  <2>8. source_free(s, x) = drag_end(w)
    <3>1. v.drag # Nothing
      BY <1>7, <1>10
    <3> QED BY <1>10 DEF source_free, gone, u, v, w
  <2> QED BY <2>4, <2>5, <2>6, <2>7, <2>8, DragEnds DEF Ending
<1> QED BY <1>9, <1>10

LEMMA AnyFreed ==
  ASSUME NEW s, NEW x \in Maybe(Sources), NEW loose, NEW slots \in SUBSET Slots,
         SeatOK(s, loose, slots)
  PROVE  SeatOK(FreeIfAny(s, x), loose \ {x}, slots)
<1>1. CASE x = Nothing
  <2>1. SourcesKept(s, loose \ {x})
    BY <1>1, SeatAssumption DEF SeatOK, SourcesKept
  <2> QED BY <1>1, <2>1 DEF FreeIfAny, SeatOK
<1>2. CASE x # Nothing
  <2>1. x \in Sources
    BY <1>2 DEF Maybe
  <2> QED BY <1>2, <2>1, SourceFreed DEF FreeIfAny, SeatOK
<1> QED BY <1>1, <1>2

LEMMA ClaimKeeps ==
  ASSUME NEW s, NEW x \in Maybe(Sources), NEW slots \in SUBSET Slots, SeatOK(s, {}, slots)
  PROVE  SeatOK(Claimed(s, x), {x}, slots)
<1>1. s \in SeatStates
  BY DEF SeatOK
<1>2. CASE x = Nothing
  <2>1. SourcesKept(s, {x})
    BY DEF SeatOK, SourcesKept
  <2> QED BY <1>2, <2>1 DEF Claimed, SeatOK
<1>3. CASE x # Nothing
  <2> DEFINE q == [s.source EXCEPT ![x].used = TRUE]
             t == [s EXCEPT !.source = q]
  <2>1. x \in Sources /\ s.source \in [Sources -> SourceStates]
    BY <1>1, <1>3 DEF Maybe, SeatStates
  <2>2. [s.source[x] EXCEPT !.used = TRUE] \in SourceStates
        /\ [s.source[x] EXCEPT !.used = TRUE].live = s.source[x].live
    <3>1. s.source[x] \in SourceStates
      BY <2>1
    <3> QED BY <3>1, Zenon DEF SourceStates
  <2>3. /\ q \in [Sources -> SourceStates]
        /\ \A y \in Sources : q[y].live = s.source[y].live /\ (y # x => q[y] = s.source[y])
    BY <2>1, <2>2
  <2>4. Claimed(s, x) = t
    BY <1>1, <1>3, <2>1 DEF Claimed, SeatStates
  <2> HIDE DEF q
  <2>5. t \in SeatStates /\ t.source = q
    BY <1>1, <2>3 DEF SeatStates
  <2>6. GrabsOwned(t) /\ ButtonDown(t) /\ ToldOf(t, slots) /\ t.slot = s.slot /\ t.dragSource = s.dragSource
        /\ t.drag = s.drag /\ t.bound = s.bound
    BY <1>1 DEF SeatOK, SeatStates, GrabsOwned, ButtonDown, ToldOf
  <2> HIDE DEF t
  <2>7. SourcesKept(t, {x}) /\ DragHas(t)
    BY <2>3, <2>5, <2>6 DEF SeatOK, SourcesKept, DragHas, Maybe
  <2> QED BY <2>4, <2>5, <2>6, <2>7 DEF SeatOK
<1> QED BY <1>2, <1>3

LEMMA SelectionSet ==
  ASSUME NEW s, NEW x \in Maybe(Sources), NEW k \in Slots, SeatOK(s, {x}, Slots)
  PROVE  SeatOK(set_selection(s, x, k), {}, Slots)
<1> DEFINE old == s.slot[k]
           u == Put(s, k, x)
           v == FreeIfAny(u, old)
<1>1. s \in SeatStates /\ old \in Maybe(Sources)
  BY DEF SeatOK, SeatStates
<1>2. CASE old = x
  <2>1. SourcesKept(s, {})
    BY <1>1, <1>2 DEF SeatOK, SourcesKept, Slots
  <2> QED BY <1>2, <2>1 DEF set_selection, SeatOK
<1>3. CASE old # x
  <2>1. u \in SeatStates
    BY <1>1 DEF SeatStates, Put
  <2>2. /\ GrabsOwned(u) /\ ButtonDown(u) /\ DragHas(u) /\ ToldOf(u, Slots \ {k})
        /\ u.source = s.source /\ u.dragSource = s.dragSource /\ u.slot = [s.slot EXCEPT ![k] = x]
    BY <1>1 DEF SeatOK, SeatStates, Put, GrabsOwned, ButtonDown, DragHas, ToldOf
  <2> HIDE DEF u
  <2>3. SourcesKept(u, {old})
    <3>1. /\ s.slot \in [Slots -> Maybe(Sources)] /\ u.slot[k] = x
          /\ \A j \in Slots : j # k => u.slot[j] = s.slot[j]
      BY <1>1, <2>2 DEF SeatStates
    <3>2. SourcesKept(s, {x})
      BY DEF SeatOK
    <3> QED BY <2>2, <3>1, <3>2 DEF SourcesKept, Slots
  <2>4. SeatOK(u, {old}, Slots \ {k})
    BY <2>1, <2>2, <2>3 DEF SeatOK
  <2> HIDE DEF old
  <2>5. SeatOK(v, {old} \ {old}, Slots \ {k})
    BY <1>1, <2>4, AnyFreed
  <2> HIDE DEF v
  <2>6. SeatOK(selection_changed(v, k), {old} \ {old}, (Slots \ {k}) \cup {k})
    BY <2>5, ChangedKeeps
  <2>7. {old} \ {old} = {} /\ (Slots \ {k}) \cup {k} = Slots
    OBVIOUS
  <2>8. set_selection(s, x, k) = selection_changed(v, k)
    BY <1>3 DEF set_selection, u, v, old
  <2> QED BY <2>6, <2>7, <2>8
<1> QED BY <1>2, <1>3

\* A drag starts: it holds what it was claimed for, under the button that is down.
LEMMA DragStarts ==
  ASSUME NEW s, NEW c \in Clients, NEW x \in Maybe(Sources), NEW origin,
         SeatOK(s, {}, Slots), x # Nothing => s.source[x].live
  PROVE  SeatOK(start_drag(s, c, x, origin), {}, Slots)
<1> DEFINE t == Claimed(s, x)
           p == seat_pointer_enter(t, Nothing)
           d == [origin |-> c, source |-> x, focus |-> Nothing, client |-> Nothing, dropped |-> FALSE]
           u == [p EXCEPT !.pgrab = "drag", !.kgrab = "drag", !.dragSource = x, !.drag = d]
           f == FreeIfAny(u, s.dragSource)
<1>1. SeatOK(t, {x}, Slots)
  BY ClaimKeeps
<1>2. CASE s.drag # Nothing \/ ~seat_validate_pointer_grab_serial(s, c, origin)
  <2>1. start_drag(s, c, x, origin) = FreeIfAny(t, x)
    BY <1>2 DEF start_drag
  <2> HIDE DEF t
  <2>2. SeatOK(FreeIfAny(t, x), {x} \ {x}, Slots)
    BY <1>1, AnyFreed
  <2>3. {x} \ {x} = {}
    OBVIOUS
  <2> QED BY <2>1, <2>2, <2>3
<1>3. CASE ~(s.drag # Nothing \/ ~seat_validate_pointer_grab_serial(s, c, origin))
  <2>1. start_drag(s, c, x, origin) = pointer_refresh(f)
    BY <1>3 DEF start_drag
  <2>2. s \in SeatStates /\ s.dragSource \in Maybe(Sources)
    BY DEF SeatOK, SeatStates
  <2>3. s.buttons # {}
    BY <1>3, FS_EmptySet DEF seat_validate_pointer_grab_serial
  <2>4. /\ t.buttons = s.buttons /\ t.dragSource = s.dragSource
        /\ \A y \in Sources : t.source[y].live = s.source[y].live
    <3>1. CASE x = Nothing
      BY <3>1 DEF Claimed
    <3>2. CASE x # Nothing
      <4>1. x \in Sources /\ s.source \in [Sources -> SourceStates]
        BY <2>2, <3>2 DEF Maybe, SeatStates
      <4>2. t.buttons = s.buttons /\ t.dragSource = s.dragSource
            /\ t.source = [s.source EXCEPT ![x] = [s.source[x] EXCEPT !.used = TRUE]]
        BY <2>2, <3>2, <4>1 DEF Claimed, SeatStates
      <4>3. [s.source[x] EXCEPT !.used = TRUE].live = s.source[x].live
        <5>1. s.source[x] \in SourceStates
          BY <4>1
        <5> QED BY <5>1 DEF SourceStates
      <4> HIDE DEF t
      <4> QED BY <4>1, <4>2, <4>3
    <3> QED BY <3>1, <3>2
  <2> HIDE DEF t
  <2>5. Nothing \in Maybe(Surfaces) /\ Nothing \in Maybe(Clients)
    BY DEF Maybe
  <2>6. SeatOK(p, {x}, Slots)
    BY <1>1, <2>5, PointerEnters
  <2>7. /\ p.pfocus = Nothing /\ p.buttons = s.buttons /\ p.dragSource = s.dragSource
        /\ p.source = t.source
    BY <1>1, <2>4 DEF seat_pointer_enter, SeatOK, SeatStates
  <2> HIDE DEF p
  <2>8. d \in Drags /\ d.source = x /\ d.client = Nothing
    BY <2>5 DEF Drags, Maybe
  <2> HIDE DEF d
  <2>9. /\ u \in SeatStates /\ u.pgrab = "drag" /\ u.kgrab = "drag" /\ u.drag = d
        /\ u.pfocus = Nothing /\ u.buttons = s.buttons /\ u.dragSource = x
        /\ u.source = t.source /\ u.slot = p.slot
    <3>1. d \in Maybe(Drags) /\ "drag" \in Grabs
      BY <2>8 DEF Maybe, Grabs
    <3>2. u \in SeatStates
      BY <2>6, <3>1 DEF SeatOK, SeatStates
    <3>3. /\ u.pgrab = "drag" /\ u.kgrab = "drag" /\ u.drag = d
          /\ u.pfocus = Nothing /\ u.buttons = s.buttons /\ u.dragSource = x
          /\ u.source = t.source /\ u.slot = p.slot
      BY <2>6, <2>7 DEF SeatOK, SeatStates
    <3> QED BY <3>2, <3>3
  <2>10. ToldOf(u, Slots)
    BY <2>6 DEF SeatOK, SeatStates, ToldOf
  <2> HIDE DEF u
  <2>11. SourcesKept(u, {s.dragSource})
    BY <2>6, <2>7, <2>9 DEF SeatOK, SourcesKept
  <2>12. GrabsOwned(u) /\ ButtonDown(u) /\ DragHas(u)
    BY <2>3, <2>4, <2>8, <2>9, SeatAssumption DEF GrabsOwned, ButtonDown, DragHas, Maybe
  <2>13. SeatOK(f, {s.dragSource} \ {s.dragSource}, Slots)
    BY <2>2, <2>9, <2>10, <2>11, <2>12, AnyFreed DEF SeatOK
  <2>14. {s.dragSource} \ {s.dragSource} = {}
    OBVIOUS
  <2> HIDE DEF f
  <2> QED BY <2>1, <2>13, <2>14, PointerMoved
<1> QED BY <1>2, <1>3

LEMMA DragButton ==
  ASSUME NEW s, NEW b, NEW pressed \in BOOLEAN, Ending(s, {}, Slots),
         pressed => s.buttons # {}
  PROVE  SeatOK(drag_button(s, b, pressed), {}, Slots)
<1> DEFINE d == s.drag
           lets_go == d.source # Nothing /\ s.grabButton = b /\ ~pressed
           taken == d.client # Nothing /\ s.source[d.source].action /\ s.source[d.source].accepted
           e == [s.drag EXCEPT !.dropped = TRUE]
           t == IF lets_go THEN [s EXCEPT !.drag = e] ELSE s
<1>1. s \in SeatStates /\ s.drag \in Drags
  BY DEF Ending, SeatStates, Maybe
<1>2. Ending(t, {}, Slots) /\ t.buttons = s.buttons
  <2>1. CASE lets_go
    <3>1. e \in Maybe(Drags) /\ e # Nothing /\ e.source = s.drag.source /\ e.client = s.drag.client
      <4>1. e \in Drags /\ e.source = s.drag.source /\ e.client = s.drag.client
        BY <1>1 DEF Drags
      <4> QED BY <4>1, SeatAssumption DEF Maybe
    <3> DEFINE v == [s EXCEPT !.drag = e]
    <3> HIDE DEF e
    <3>2. v \in SeatStates
      BY <1>1, <3>1 DEF SeatStates
    <3>3. /\ v.drag = e /\ v.buttons = s.buttons /\ v.bound = s.bound /\ v.source = s.source
          /\ (GrabsOwned(v) /\ SourcesKept(v, {}) /\ ToldOf(v, Slots))
      BY <1>1, <3>1 DEF Ending, SeatStates, GrabsOwned, SourcesKept, ToldOf
    <3> HIDE DEF v
    <3>4. DragHas(v)
      BY <3>1, <3>3 DEF Ending, DragHas
    <3>5. t = v
      BY <2>1 DEF v
    <3> QED BY <3>1, <3>2, <3>3, <3>4, <3>5 DEF Ending
  <2>2. CASE ~lets_go
    BY <2>2
  <2> QED BY <2>1, <2>2
<1> HIDE DEF t
<1>3. CASE lets_go /\ ~taken
  <2>1. drag_button(s, b, pressed) = source_free(s, d.source)
    BY <1>3 DEF drag_button
  <2>2. d.source \in Sources
    BY <1>1, <1>3 DEF Drags
  <2>3. SeatOK(source_free(s, d.source), {} \ {d.source}, Slots)
    <3> DEFINE y == d.source
    <3>1. y \in Sources /\ s.drag # Nothing /\ s.drag.source = y
      BY <2>2 DEF Ending
    <3> HIDE DEF y
    <3>2. SeatOK(source_free(s, y), {} \ {y}, Slots)
      BY <3>1, SourceFreed DEF Ending
    <3> QED BY <3>2 DEF y
  <2> QED BY <2>1, <2>3
<1>4. CASE ~(lets_go /\ ~taken) /\ s.buttons = {} /\ ~pressed
  <2>1. drag_button(s, b, pressed) = drag_end(t)
    BY <1>4 DEF drag_button, t
  <2> QED BY <1>2, <2>1, DragEnds
<1>5. CASE ~(lets_go /\ ~taken) /\ ~(s.buttons = {} /\ ~pressed)
  <2>1. drag_button(s, b, pressed) = t
    BY <1>5 DEF drag_button, t
  <2>2. ButtonDown(t)
    BY <1>2, <1>5 DEF ButtonDown
  <2> QED BY <1>2, <2>1, <2>2 DEF Ending, SeatOK
<1> QED BY <1>3, <1>4, <1>5

LEMMA ButtonNotified ==
  ASSUME NEW s, NEW b, NEW pressed \in BOOLEAN, pressed => b \in Buttons, SeatOK(s, {}, Slots)
  PROVE  SeatOK(seat_pointer_notify_button(s, b, pressed), {}, Slots)
<1> DEFINE g == IF pressed /\ s.buttons = {} THEN b ELSE s.grabButton
           n == IF pressed THEN s.buttons \cup {b} ELSE s.buttons \ {b}
           t == [s EXCEPT !.grabButton = g, !.buttons = n]
<1>1. s \in SeatStates
  BY DEF SeatOK
<1>2. g \in Maybe(Buttons) /\ n \in SUBSET Buttons /\ (pressed => n # {})
  BY <1>1 DEF SeatStates, Maybe
<1>3. seat_pointer_notify_button(s, b, pressed) =
        IF pressed = (b \in s.buttons) THEN s
        ELSE IF s.pgrab = "drag" THEN drag_button(t, b, pressed) ELSE PlainButton(t, pressed)
  BY <1>1 DEF seat_pointer_notify_button, SeatStates
<1> HIDE DEF g, n
<1>4. /\ t \in SeatStates /\ t.buttons = n /\ t.pgrab = s.pgrab /\ t.drag = s.drag
      /\ GrabsOwned(t) /\ DragHas(t) /\ SourcesKept(t, {}) /\ ToldOf(t, Slots)
  <2>1. t \in SeatStates
    BY <1>1, <1>2 DEF SeatStates
  <2> QED BY <1>1, <2>1 DEF SeatOK, SeatStates, GrabsOwned, DragHas, SourcesKept, ToldOf
<1> HIDE DEF t
<1>5. s.pgrab = "drag" => Ending(t, {}, Slots)
  BY <1>4 DEF SeatOK, GrabsOwned, Ending
<1>6. s.pgrab # "drag" => SeatOK(t, {}, Slots)
  BY <1>4 DEF ButtonDown, SeatOK
<1> QED BY <1>2, <1>3, <1>4, <1>5, <1>6, DragButton, PlainKeeps

\* Induction: a set of numbers has a least.
LEMMA Smallest ==
  ASSUME NEW T \in SUBSET Nat, T # {}
  PROVE  \E x \in T : \A y \in T : ~(y < x)
<1> DEFINE R == {ss \in Nat \X Nat : ss[1] < ss[2]}
<1>1. IsWellFoundedOn(R, Nat)
  BY NatLessThanWellFounded DEF OpToRel
<1>2. \A x, y \in Nat : y < x => <<y, x>> \in R
  OBVIOUS
<1> HIDE DEF R
<1>3. T \subseteq Nat
  OBVIOUS
<1>4. \E x \in T : \A y \in T : ~(<<y, x>> \in R)
  BY <1>1, <1>3, WFMin
<1> QED BY <1>2, <1>3, <1>4

\* The state after each release, as the loop of the code makes it.
ReleaseLoop(s, down, After, k) ==
  After = [i \in 0..k |-> IF i = 0 THEN s ELSE seat_pointer_notify_button(After[i - 1], down[i], FALSE)]

LEMMA ReleaseLoopEnds ==
  ASSUME NEW s, NEW down, NEW k \in Nat
  PROVE  \E After : ReleaseLoop(s, down, After, k)
<1> DEFINE Ends(i) == \E After : ReleaseLoop(s, down, After, i)
           T == {i \in Nat : ~Ends(i)}
<1>1. Ends(0)
  <2> DEFINE f == [i \in 0..0 |-> s]
  <2>1. f = [i \in 0..0 |-> IF i = 0 THEN s
                            ELSE seat_pointer_notify_button(f[i - 1], down[i], FALSE)]
    OBVIOUS
  <2> QED BY <2>1 DEF ReleaseLoop
<1>2. ASSUME NEW i \in Nat, Ends(i) PROVE Ends(i + 1)
  <2>1. PICK f : ReleaseLoop(s, down, f, i)
    BY <1>2
  <2> DEFINE h == [x \in 0..(i + 1) |-> IF x = 0 THEN s
                     ELSE seat_pointer_notify_button(f[x - 1], down[x], FALSE)]
  <2>2. \A x \in 0..i : h[x] = f[x]
    <3>1. \A x \in 0..i : f[x] = IF x = 0 THEN s
                                 ELSE seat_pointer_notify_button(f[x - 1], down[x], FALSE)
      BY <2>1, Zenon DEF ReleaseLoop
    <3>2. 0..i \subseteq 0..(i + 1)
      OBVIOUS
    <3> QED BY <3>1, <3>2
  <2>3. \A x \in 0..(i + 1) : x # 0 => h[x - 1] = f[x - 1]
    <3>1. \A x \in 0..(i + 1) : x # 0 => x - 1 \in 0..i
      OBVIOUS
    <3> HIDE DEF h
    <3> QED BY <2>2, <3>1
  <2>4. h = [x \in 0..(i + 1) |-> IF x = 0 THEN s
               ELSE seat_pointer_notify_button(h[x - 1], down[x], FALSE)]
    BY <2>3
  <2> QED BY <2>4 DEF ReleaseLoop
<1> HIDE DEF Ends
<1>3. T = {}
  <2> SUFFICES ASSUME T # {} PROVE FALSE
    OBVIOUS
  <2>1. PICK i \in T : \A y \in T : ~(y < i)
    BY Smallest
  <2>2. i # 0 /\ i \in Nat
    BY <1>1
  <2>3. i - 1 \in Nat /\ i - 1 < i /\ (i - 1) + 1 = i
    BY <2>2
  <2>4. Ends(i - 1)
    BY <2>1, <2>3
  <2>5. Ends((i - 1) + 1)
    BY <1>2, <2>3, <2>4
  <2> QED BY <2>3, <2>5
<1> QED BY <1>3 DEF Ends

\* All buttons are released: of the states on the way, none is the first that is wrong.
LEMMA AllReleased ==
  ASSUME NEW s, SeatOK(s, {}, Slots)
  PROVE  SeatOK(pointer_release_client_buttons(s), {}, Slots)
<1> DEFINE down  == SetToSeq(s.buttons)
           n     == Len(down)
           After == CHOOSE f : ReleaseLoop(s, down, f, n)
           T     == {i \in 0..n : ~SeatOK(After[i], {}, Slots)}
<1>1. n \in Nat
  <2> DEFINE m == Cardinality(s.buttons)
  <2>1. s.buttons \subseteq Buttons
    BY DEF SeatOK, SeatStates
  <2>2. m \in Nat /\ ExistsBijection(1..m, s.buttons)
    BY <2>1, SeatAssumption, FS_Subset, FS_CardinalityType
  <2>3. PICK f \in [1..m -> s.buttons] : IsInjective(f)
    BY <2>2 DEF ExistsBijection, Bijection, Injection
  <2>4. down \in [1..m -> s.buttons]
    BY <2>3 DEF SetToSeq
  <2> HIDE DEF down
  <2>5. down \in Seq(s.buttons)
    BY <2>2, <2>4
  <2> QED BY <2>5
<1>2. pointer_release_client_buttons(s) = After[n]
  BY DEF pointer_release_client_buttons, ReleaseLoop
<1> HIDE DEF down, n
<1>3. ReleaseLoop(s, down, After, n)
  BY <1>1, ReleaseLoopEnds
<1> HIDE DEF After
<1>4. \A i \in 0..n : After[i] = IF i = 0 THEN s
         ELSE seat_pointer_notify_button(After[i - 1], down[i], FALSE)
  BY <1>3, Zenon DEF ReleaseLoop
<1>5. T = {}
  <2> SUFFICES ASSUME T # {} PROVE FALSE
    OBVIOUS
  <2>1. T \in SUBSET Nat
    BY <1>1
  <2>2. PICK i \in T : \A y \in T : ~(y < i)
    <3> HIDE DEF T
    <3> QED BY <2>1, Smallest
  <2>3. i \in 0..n /\ ~SeatOK(After[i], {}, Slots)
    OBVIOUS
  <2>4. i # 0
    BY <1>1, <1>4, <2>3
  <2>5. i - 1 \in 0..n /\ i - 1 < i
    BY <1>1, <2>3, <2>4
  <2>6. SeatOK(After[i - 1], {}, Slots)
    BY <2>2, <2>5
  <2>7. After[i] = seat_pointer_notify_button(After[i - 1], down[i], FALSE)
    BY <1>4, <2>3, <2>4
  <2>8. SeatOK(After[i], {}, Slots)
    BY <2>6, <2>7, ButtonNotified
  <2> QED BY <2>3, <2>8
<1>6. n \in 0..n
  BY <1>1
<1> QED BY <1>2, <1>5, <1>6

-----------------------------------------------------------------------------
(* The entry points. *)

SeatInv == SeatOK(seat, {}, Slots)

\* Clients bind the seat and go, and get devices.
LEMMA ClientsComeAndGo ==
  ASSUME SeatInv, NEW c \in Clients,
         \/ seat_bind(c) \/ seat_client_free(c) \/ get_data_device(c)
         \/ control_get_device(c) \/ control_resource_destroy(c)
  PROVE  SeatInv'
<1>1. seat \in SeatStates
  BY DEF SeatInv, SeatOK
<1>2. Nothing \in Maybe(Surfaces) /\ Nothing \in Maybe(Clients)
  BY DEF Maybe
<1>3. CASE seat_bind(c)
  <2>1. seat' \in SeatStates /\ DragHas(seat')
    BY <1>1, <1>3 DEF seat_bind, SeatInv, SeatOK, SeatStates, DragHas
  <2> QED BY <1>1, <1>3, <2>1 DEF seat_bind, SeatInv, SeatOK, SeatStates, GrabsOwned, ButtonDown,
                SourcesKept, ToldOf
<1>4. CASE seat_client_free(c)
  <2> DEFINE s == [seat EXCEPT !.bound = @ \ {c}, !.devices = @ \ {c}]
             p == IF s.pclient = c THEN [s EXCEPT !.pclient = Nothing, !.pfocus = Nothing] ELSE s
             k == IF p.kclient = c THEN [p EXCEPT !.kclient = Nothing, !.kfocus = Nothing] ELSE p
             d == [k.drag EXCEPT !.client = Nothing, !.focus = Nothing]
             t == IF k.drag # Nothing /\ k.drag.client = c
                  THEN [k EXCEPT !.drag = d] ELSE k
  <2>1. /\ s \in SeatStates /\ s.drag = seat.drag /\ s.bound = seat.bound \ {c} /\ s.source = seat.source
        /\ GrabsOwned(s) /\ ButtonDown(s) /\ SourcesKept(s, {}) /\ ToldOf(s, Slots)
    BY <1>1 DEF SeatInv, SeatOK, SeatStates, GrabsOwned, ButtonDown, SourcesKept, ToldOf
  <2> HIDE DEF s
  <2>2. /\ p \in SeatStates /\ p.drag = seat.drag /\ p.bound = seat.bound \ {c} /\ p.source = seat.source
        /\ GrabsOwned(p) /\ ButtonDown(p) /\ SourcesKept(p, {}) /\ ToldOf(p, Slots)
    <3>1. p \in SeatStates
      BY <1>2, <2>1 DEF SeatStates
    <3> QED BY <2>1, <3>1 DEF SeatStates, GrabsOwned, ButtonDown, SourcesKept, ToldOf
  <2> HIDE DEF p
  <2>3. /\ k \in SeatStates /\ k.drag = seat.drag /\ k.bound = seat.bound \ {c} /\ k.source = seat.source
        /\ GrabsOwned(k) /\ ButtonDown(k) /\ SourcesKept(k, {}) /\ ToldOf(k, Slots)
    <3>1. k \in SeatStates
      BY <1>2, <2>2 DEF SeatStates
    <3>2. ToldOf(k, Slots)
      BY <2>2, <3>1, SeatAssumption DEF SeatStates, ToldOf
    <3> QED BY <2>2, <3>1, <3>2 DEF SeatStates, GrabsOwned, ButtonDown, SourcesKept
  <2>4. seat' = IF k.drag # Nothing /\ k.drag.client = c
                THEN [k EXCEPT !.drag.client = Nothing, !.drag.focus = Nothing] ELSE k
    BY <1>4 DEF seat_client_free, s, p, k
  <2> HIDE DEF k
  <2>5. CASE k.drag # Nothing /\ k.drag.client = c
    <3>1. k.drag \in Drags
      BY <2>3, <2>5 DEF SeatStates, Maybe
    <3>2. d \in Drags /\ d.client = Nothing /\ d.source = k.drag.source
      BY <1>2, <3>1 DEF Drags, Maybe
    <3> HIDE DEF d
    <3>3. d \in Maybe(Drags) /\ d # Nothing
      BY <3>2, SeatAssumption DEF Maybe
    <3>4. t = [k EXCEPT !.drag = d] /\ seat' = t
      <4>1. [k EXCEPT !.drag.client = Nothing, !.drag.focus = Nothing] = [k EXCEPT !.drag = d]
        BY <2>3 DEF SeatStates, d
      <4> QED BY <2>4, <2>5, <4>1
    <3> HIDE DEF t
    <3>5. t \in SeatStates /\ t.drag = d /\ t.bound = k.bound /\ t.source = k.source
      BY <2>3, <3>3, <3>4 DEF SeatStates
    <3>6. GrabsOwned(t) /\ ButtonDown(t) /\ SourcesKept(t, {}) /\ ToldOf(t, Slots)
      BY <2>3, <2>5, <3>3, <3>4 DEF SeatStates, GrabsOwned, ButtonDown, SourcesKept, ToldOf
    <3>7. DragHas(t)
      BY <2>3, <2>5, <3>2, <3>5 DEF SeatInv, SeatOK, DragHas
    <3> QED BY <3>4, <3>5, <3>6, <3>7 DEF SeatInv, SeatOK
  <2>6. CASE ~(k.drag # Nothing /\ k.drag.client = c)
    <3>1. DragHas(k)
      BY <2>3, <2>6 DEF SeatInv, SeatOK, DragHas
    <3>2. seat' = k
      BY <2>4, <2>6
    <3> QED BY <2>3, <3>1, <3>2 DEF SeatInv, SeatOK
  <2> QED BY <2>5, <2>6
<1>5. CASE get_data_device(c)
  <2> DEFINE s == [seat EXCEPT !.devices = @ \cup {c}]
             t == seat_selection_focus(s, c)
  <2>1. /\ s \in SeatStates /\ GrabsOwned(s) /\ ButtonDown(s) /\ DragHas(s) /\ SourcesKept(s, {})
        /\ s.kclient = seat.kclient /\ s.devices = seat.devices \cup {c}
        /\ s.controls = seat.controls /\ s.controlsTold = seat.controlsTold /\ s.told = seat.told
    BY <1>1 DEF SeatInv, SeatOK, SeatStates, GrabsOwned, ButtonDown, DragHas, SourcesKept
  <2>2. seat' = IF s.kclient = c THEN t ELSE s
    BY <1>5 DEF get_data_device
  <2> HIDE DEF s
  <2>3. /\ t \in SeatStates /\ t = [s EXCEPT !.told = t.told]
        /\ c \in s.devices => \A k \in Slots : t.told[k]
    BY <2>1, FocusTold
  <2> HIDE DEF t
  <2>4. t.controlsTold = s.controlsTold /\ t = [s EXCEPT !.told = t.told, !.controlsTold = t.controlsTold]
    BY <2>1, <2>3 DEF SeatStates
  <2>5. /\ GrabsOwned(t) /\ ButtonDown(t) /\ DragHas(t) /\ SourcesKept(t, {})
        /\ t.kclient = s.kclient /\ t.devices = s.devices /\ t.controls = s.controls
    BY <2>1, <2>3, <2>4, TellingKeeps
  <2>6. ToldOf(t, Slots)
    BY <2>1, <2>3, <2>4, <2>5 DEF SeatInv, SeatOK, ToldOf
  <2>7. s.kclient # c => ToldOf(s, Slots)
    BY <2>1 DEF SeatInv, SeatOK, ToldOf
  <2> QED BY <2>1, <2>2, <2>3, <2>5, <2>6, <2>7 DEF SeatInv, SeatOK
<1>6. CASE control_get_device(c)
  <2> DEFINE s == [seat EXCEPT !.controls = @ \cup {c}]
             t == control_send(s, c, "selection")
             u == control_send(t, c, "primary")
  <2>1. /\ s \in SeatStates /\ s.controls = seat.controls \cup {c} /\ s.controlsTold = seat.controlsTold
        /\ s.told = seat.told /\ s.kclient = seat.kclient /\ s.devices = seat.devices
        /\ GrabsOwned(s) /\ ButtonDown(s) /\ DragHas(s) /\ SourcesKept(s, {})
    BY <1>1 DEF SeatInv, SeatOK, SeatStates, GrabsOwned, ButtonDown, DragHas, SourcesKept
  <2>2. seat' = u
    BY <1>6 DEF control_get_device
  <2> HIDE DEF s
  <2>3. /\ u \in SeatStates
        /\ u = [s EXCEPT !.told = u.told, !.controlsTold = u.controlsTold]
        /\ u.told = s.told
        /\ \A k \in Slots : u.controlsTold[k] = s.controlsTold[k] \cup {c}
    BY <2>1 DEF control_send, SeatStates, Slots
  <2> HIDE DEF u
  <2>4. /\ GrabsOwned(u) /\ ButtonDown(u) /\ DragHas(u) /\ SourcesKept(u, {})
        /\ u.kclient = s.kclient /\ u.devices = s.devices /\ u.controls = s.controls
    BY <2>1, <2>3, TellingKeeps
  <2>5. ToldOf(u, Slots)
    BY <2>1, <2>3, <2>4 DEF SeatInv, SeatOK, ToldOf
  <2> QED BY <2>2, <2>3, <2>4, <2>5 DEF SeatInv, SeatOK
<1>7. CASE control_resource_destroy(c)
  <2> DEFINE t == [seat EXCEPT !.controls = @ \ {c},
                               !.controlsTold = [k \in Slots |-> @[k] \ {c}]]
  <2>1. /\ t \in SeatStates /\ t.controls = seat.controls \ {c}
        /\ t.told = seat.told /\ t.kclient = seat.kclient /\ t.devices = seat.devices
        /\ \A k \in Slots : t.controlsTold[k] = seat.controlsTold[k] \ {c}
    BY <1>1 DEF SeatStates
  <2>2. GrabsOwned(t) /\ ButtonDown(t) /\ DragHas(t) /\ SourcesKept(t, {})
    BY <1>1 DEF SeatInv, SeatOK, SeatStates, GrabsOwned, ButtonDown, DragHas, SourcesKept
  <2>3. seat' = t
    BY <1>7 DEF control_resource_destroy
  <2> HIDE DEF t
  <2>4. ToldOf(t, Slots)
    BY <2>1 DEF SeatInv, SeatOK, ToldOf
  <2> QED BY <2>1, <2>2, <2>3, <2>4 DEF SeatInv, SeatOK
<1> QED BY <1>3, <1>4, <1>5, <1>6, <1>7

\* Sources are made, claimed for a selection and freed.
LEMMA SelectionsMove ==
  ASSUME SeatInv, SelectionsNext
  PROVE  SeatInv'
<1>1. seat \in SeatStates /\ SeatOK(seat, {}, Slots)
  BY DEF SeatInv, SeatOK
<1>2. "selection" \in Slots /\ "primary" \in Slots
  BY DEF Slots
<1>3. ASSUME NEW x \in Sources, source_create(x) PROVE SeatInv'
  <2> DEFINE t == [seat EXCEPT !.source[x] = NewSource]
  <2>1. NewSource \in SourceStates /\ ~NewSource.used
    BY DEF NewSource, NoSource, SourceStates
  <2> HIDE DEF NewSource
  <2>2. t \in SeatStates /\ t.source = [seat.source EXCEPT ![x] = NewSource]
    BY <1>1, <2>1 DEF SeatStates
  <2>3. GrabsOwned(t) /\ ButtonDown(t) /\ ToldOf(t, Slots) /\ t.drag = seat.drag
        /\ t.bound = seat.bound /\ t.slot = seat.slot /\ t.dragSource = seat.dragSource
    BY <1>1 DEF SeatOK, SeatStates, GrabsOwned, ButtonDown, ToldOf
  <2>4. ~seat.source[x].live /\ seat' = t
    BY <1>3 DEF source_create
  <2> HIDE DEF t
  <2>5. seat.source \in [Sources -> SourceStates]
    BY <1>1 DEF SeatStates
  <2>6. /\ ~t.source[x].used
        /\ \A y \in Sources : y # x => t.source[y] = seat.source[y]
    BY <2>1, <2>2, <2>5
  <2>7. DragHas(t) /\ SourcesKept(t, {})
    BY <1>1, <2>3, <2>4, <2>6 DEF SeatOK, DragHas, SourcesKept, Maybe
  <2> QED BY <2>2, <2>3, <2>4, <2>7 DEF SeatInv, SeatOK
<1>4. ASSUME NEW x \in Sources, source_resource_destroy(x) PROVE SeatInv'
  <2>1. SeatOK(source_free(seat, x), {} \ {x}, Slots)
    BY <1>1, SourceFreed DEF SeatOK
  <2>2. {} \ {x} = {}
    OBVIOUS
  <2> QED BY <1>4, <2>1, <2>2 DEF source_resource_destroy, SeatInv
<1>5. ASSUME NEW x \in Sources \cup {Nothing}, NEW k \in Slots,
             seat' = set_selection(Claimed(seat, x), x, k)
      PROVE  SeatInv'
  <2>1. x \in Maybe(Sources)
    BY DEF Maybe
  <2>2. SeatOK(Claimed(seat, x), {x}, Slots)
    BY <1>1, <2>1, ClaimKeeps
  <2> QED BY <1>5, <2>1, <2>2, SelectionSet DEF SeatInv
<1> QED BY <1>2, <1>3, <1>4, <1>5 DEF SelectionsNext, data_device_set_selection,
           primary_set_selection, control_set

\* The policy moves the keyboard's focus, and surfaces go.
LEMMA FocusComesAndGoes ==
  ASSUME SeatInv, FocusNext
  PROVE  SeatInv'
<1>1. seat \in SeatStates /\ SeatOK(seat, {}, Slots)
  BY DEF SeatInv, SeatOK
<1>2. Nothing \in Maybe(Surfaces) /\ Nothing \in Maybe(Clients)
  BY DEF Maybe
<1>3. ASSUME NEW s, SeatOK(s, {}, Slots), NEW x \in Maybe(Surfaces)
      PROVE  SeatOK([s EXCEPT !.wanted = x], {}, Slots)
  BY <1>3 DEF SeatOK, SeatStates, GrabsOwned, ButtonDown, DragHas, SourcesKept, ToldOf
<1>4. ASSUME NEW x \in Surfaces \cup {Nothing}, tomoe_focus(x) PROVE SeatInv'
  <2> DEFINE t == [seat EXCEPT !.wanted = x]
  <2>1. SeatOK(t, {}, Slots)
    <3>1. x \in Maybe(Surfaces)
      BY DEF Maybe
    <3> QED BY <1>1, <1>3, <3>1
  <2>2. seat' = update_keyboard_focus(t)
    BY <1>4 DEF tomoe_focus
  <2> HIDE DEF t
  <2> QED BY <2>1, <2>2, FocusUpdated DEF SeatInv
<1>5. ASSUME NEW x \in Surfaces, SurfaceDestroyed(x) PROVE SeatInv'
  <2> DEFINE s == [seat EXCEPT !.alive = @ \ {x}, !.over = IF @ = x THEN Nothing ELSE @]
             p == IF s.pfocus = x THEN [s EXCEPT !.pfocus = Nothing, !.pclient = Nothing] ELSE s
             k == IF p.kfocus = x THEN [p EXCEPT !.kfocus = Nothing, !.kclient = Nothing] ELSE p
             d == IF k.drag # Nothing /\ k.drag.focus = x THEN drag_set_focus(k, Nothing) ELSE k
             t == [d EXCEPT !.wanted = Nothing]
  <2>1. SeatOK(s, {}, Slots)
    <3>1. s \in SeatStates
      BY <1>1, <1>2 DEF SeatStates
    <3> QED BY <1>1, <3>1 DEF SeatOK, SeatStates, GrabsOwned, ButtonDown, DragHas, SourcesKept, ToldOf
  <2>2. seat' = IF d.wanted = x THEN update_keyboard_focus(t) ELSE d
    BY <1>5 DEF SurfaceDestroyed
  <2> HIDE DEF s
  <2>3. SeatOK(p, {}, Slots)
    <3>1. p \in SeatStates
      BY <1>2, <2>1 DEF SeatOK, SeatStates
    <3> QED BY <2>1, <3>1 DEF SeatOK, SeatStates, GrabsOwned, ButtonDown, DragHas, SourcesKept, ToldOf
  <2> HIDE DEF p
  <2>4. SeatOK(k, {}, Slots)
    <3>1. k \in SeatStates
      BY <1>2, <2>3 DEF SeatOK, SeatStates
    <3>2. ToldOf(k, Slots)
      BY <2>3, <3>1, SeatAssumption DEF SeatOK, SeatStates, ToldOf
    <3> QED BY <2>3, <3>1, <3>2 DEF SeatOK, SeatStates, GrabsOwned, ButtonDown, DragHas, SourcesKept
  <2> HIDE DEF k
  <2>5. SeatOK(d, {}, Slots)
    <3>1. CASE k.drag # Nothing /\ k.drag.focus = x
      <4>1. k \in SeatStates /\ k.drag \in Drags /\ DragHas(k)
        BY <2>4, <3>1 DEF SeatOK, SeatStates, Maybe
      <4>2. DragMoved(k, drag_set_focus(k, Nothing)) /\ DragHas(drag_set_focus(k, Nothing))
        BY <1>2, <4>1, DragFocus
      <4>3. SeatOK(drag_set_focus(k, Nothing), {}, Slots)
        BY <2>4, <3>1, <4>1, <4>2, DragMovedKeeps
      <4> QED BY <3>1, <4>3
    <3> QED BY <2>4, <3>1
  <2> HIDE DEF d
  <2>6. SeatOK(t, {}, Slots)
    BY <1>2, <1>3, <2>5
  <2> HIDE DEF t
  <2> QED BY <2>2, <2>5, <2>6, FocusUpdated DEF SeatInv
<1> QED BY <1>4, <1>5 DEF FocusNext

\* A drag starts, and clients answer its offers or drop them.
LEMMA DragsGoOn ==
  ASSUME SeatInv, DragsNext
  PROVE  SeatInv'
<1>1. seat \in SeatStates /\ SeatOK(seat, {}, Slots)
  BY DEF SeatInv, SeatOK
<1>2. ASSUME NEW c \in Clients, NEW x \in Sources \cup {Nothing}, NEW origin \in Surfaces,
             StartDrag(c, x, origin)
      PROVE  SeatInv'
  <2>1. x \in Maybe(Sources) /\ (x # Nothing => seat.source[x].live)
    BY <1>2 DEF Maybe, StartDrag, OfKind
  <2> QED BY <1>1, <1>2, <2>1, DragStarts DEF StartDrag, SeatInv
<1>3. ASSUME NEW o \in seat.offers PROVE o \in [to : Clients, source : Sources]
  BY <1>1 DEF SeatStates
<1>4. ASSUME NEW o \in seat.offers, seat' = offer_free(seat, o) PROVE SeatInv'
  <2> DEFINE t == [seat EXCEPT !.offers = @ \ {o}]
  <2>1. SeatOK(t, {}, Slots)
    BY <1>1 DEF SeatOK, SeatStates, GrabsOwned, ButtonDown, DragHas, SourcesKept, ToldOf
  <2>2. seat' = IF o.to \in OldClients THEN t ELSE source_free(t, o.source)
    BY <1>4 DEF offer_free
  <2> HIDE DEF t
  <2> DEFINE x == o.source
  <2>3. x \in Sources
    BY <1>3
  <2> HIDE DEF x
  <2>4. SeatOK(source_free(t, x), {} \ {x}, Slots)
    BY <2>1, <2>3, SourceFreed DEF SeatOK
  <2>5. {} \ {x} = {}
    OBVIOUS
  <2> QED BY <2>1, <2>2, <2>4, <2>5 DEF SeatInv, x
<1>5. ASSUME NEW o \in seat.offers, NEW yes \in BOOLEAN,
             offer_accept(o, yes) \/ offer_set_actions(o, yes)
      PROVE  SeatInv'
  <2> DEFINE x == o.source
             a == [seat.source[x] EXCEPT !.accepted = yes]
             b == [seat.source[x] EXCEPT !.action = yes]
  <2>1. x \in Sources /\ seat.source \in [Sources -> SourceStates]
    BY <1>1, <1>3 DEF SeatStates
  <2> HIDE DEF x
  <2>2. seat.source[x] \in SourceStates
    BY <2>1
  <2>3. PICK q \in SourceStates : /\ q.live = seat.source[x].live /\ q.used = seat.source[x].used
                                  /\ seat' = [seat EXCEPT !.source[x] = q]
    <3>1. a \in SourceStates /\ a.live = seat.source[x].live /\ a.used = seat.source[x].used
      BY <2>2 DEF SourceStates
    <3>2. b \in SourceStates /\ b.live = seat.source[x].live /\ b.used = seat.source[x].used
      BY <2>2 DEF SourceStates
    <3>3. CASE offer_accept(o, yes)
      <4>1. seat' = [seat EXCEPT !.source[x] = a]
        BY <3>3 DEF offer_accept, x
      <4> QED BY <3>1, <4>1
    <3>4. CASE offer_set_actions(o, yes)
      <4>1. seat' = [seat EXCEPT !.source[x] = b]
        BY <3>4 DEF offer_set_actions, x
      <4> QED BY <3>2, <4>1
    <3> QED BY <1>5, <3>3, <3>4
  <2> DEFINE t == [seat EXCEPT !.source[x] = q]
  <2>4. t \in SeatStates /\ t.source = [seat.source EXCEPT ![x] = q]
    BY <1>1, <2>1 DEF SeatStates
  <2>5. GrabsOwned(t) /\ ButtonDown(t) /\ ToldOf(t, Slots) /\ t.drag = seat.drag
        /\ t.bound = seat.bound /\ t.slot = seat.slot /\ t.dragSource = seat.dragSource
    BY <1>1 DEF SeatOK, SeatStates, GrabsOwned, ButtonDown, ToldOf
  <2>6. seat' = t
    BY <2>3
  <2> HIDE DEF t
  <2>7. \A y \in Sources : /\ t.source[y].live = seat.source[y].live
                           /\ t.source[y].used = seat.source[y].used
    BY <2>1, <2>3, <2>4
  <2>8. DragHas(t) /\ SourcesKept(t, {})
    BY <1>1, <2>5, <2>7 DEF SeatOK, DragHas, SourcesKept, Maybe
  <2> QED BY <2>4, <2>5, <2>6, <2>8 DEF SeatInv, SeatOK
<1> QED BY <1>2, <1>4, <1>5 DEF DragsNext, offer_finish, offer_resource_destroy

\* The pointer moves, its buttons change, and the policy takes it.
LEMMA PointerGoesOn ==
  ASSUME SeatInv, PointerNext
  PROVE  SeatInv'
<1>1. seat \in SeatStates /\ SeatOK(seat, {}, Slots)
  BY DEF SeatInv, SeatOK
<1>2. Nothing \in Maybe(Surfaces)
  BY DEF Maybe
<1>3. ASSUME NEW x \in seat.alive \cup {Nothing}, PointerMoves(x) PROVE SeatInv'
  <2> DEFINE t == [seat EXCEPT !.over = x]
  <2>1. x \in Maybe(Surfaces)
    BY <1>1 DEF SeatStates, Maybe
  <2>2. SeatOK(t, {}, Slots)
    BY <1>1, <2>1 DEF SeatOK, SeatStates, GrabsOwned, ButtonDown, DragHas, SourcesKept, ToldOf
  <2>3. seat' = pointer_refresh(t)
    BY <1>3 DEF PointerMoves
  <2> HIDE DEF t
  <2> QED BY <2>2, <2>3, PointerMoved DEF SeatInv
<1>4. ASSUME NEW b \in Buttons, ui_pointer_button(b) PROVE SeatInv'
  <2>1. SeatOK(pointer_motion(seat), {}, Slots)
    BY <1>1, PointerMoved
  <2>2. SeatOK(pointer_release_client_buttons(pointer_motion(seat)), {}, Slots)
    BY <2>1, AllReleased
  <2> QED BY <1>2, <1>4, <2>2, FocusNotified DEF ui_pointer_button, SeatInv
<1>5. ASSUME NEW b \in Buttons, NEW p \in BOOLEAN, input_pointer_button(b, p) PROVE SeatInv'
  <2>1. SeatOK(pointer_motion(seat), {}, Slots)
    BY <1>1, PointerMoved
  <2>2. SeatOK(seat_pointer_notify_button(pointer_motion(seat), b, p), {}, Slots)
    BY <2>1, ButtonNotified
  <2> QED BY <1>1, <1>5, <2>2 DEF input_pointer_button, SeatInv
<1>6. ASSUME tomoe_grab PROVE SeatInv'
  <2>1. ASSUME NEW m \in BOOLEAN PROVE SeatOK([seat EXCEPT !.mode = m], {}, Slots)
    BY <1>1 DEF SeatOK, SeatStates, GrabsOwned, ButtonDown, DragHas, SourcesKept, ToldOf
  <2> DEFINE t == [seat EXCEPT !.mode = TRUE]
  <2>2. SeatOK(t, {}, Slots)
    BY <2>1
  <2>3. SeatOK([seat EXCEPT !.mode = FALSE], {}, Slots)
    BY <2>1
  <2>4. seat' = IF seat.mode THEN [seat EXCEPT !.mode = FALSE]
                ELSE NotifyFocus(pointer_release_client_buttons(t), Nothing)
    BY <1>6 DEF tomoe_grab
  <2> HIDE DEF t
  <2>5. SeatOK(pointer_release_client_buttons(t), {}, Slots)
    BY <2>2, AllReleased
  <2> QED BY <1>2, <2>3, <2>4, <2>5, FocusNotified DEF SeatInv
<1> QED BY <1>3, <1>4, <1>5, <1>6 DEF PointerNext

\* A popup takes the grabs, and the last one gives them back.
LEMMA PopupsGrab ==
  ASSUME SeatInv, PopupsNext
  PROVE  SeatInv'
<1>1. seat \in SeatStates /\ SeatOK(seat, {}, Slots)
  BY DEF SeatInv, SeatOK
<1>2. ASSUME NEW c \in Clients, popup_grab_request(c) PROVE SeatInv'
  <2>1. seat' \in SeatStates
    <3>1. c \in Maybe(Clients) /\ "popup" \in Grabs
      BY DEF Maybe, Grabs
    <3> QED BY <1>1, <1>2, <3>1 DEF popup_grab_request, SeatStates
  <2>2. GrabsOwned(seat') /\ ButtonDown(seat')
    BY <1>1, <1>2 DEF popup_grab_request, SeatStates, GrabsOwned, ButtonDown
  <2>3. DragHas(seat') /\ SourcesKept(seat', {}) /\ ToldOf(seat', Slots)
    BY <1>1, <1>2 DEF popup_grab_request, SeatOK, SeatStates, DragHas, SourcesKept, ToldOf
  <2> QED BY <2>1, <2>2, <2>3 DEF SeatInv, SeatOK
<1>3. ASSUME NEW c \in Clients, popup_ungrab(c) PROVE SeatInv'
  <2> DEFINE s == [seat EXCEPT !.popups = @ \ {c}]
             t == [s EXCEPT !.pgrab = IF @ = "popup" THEN "default" ELSE @,
                            !.kgrab = IF @ = "popup" THEN "default" ELSE @]
  <2>1. seat' = IF s.popups = {} THEN t ELSE s
    BY <1>3 DEF popup_ungrab
  <2>2. /\ s \in SeatStates /\ s.pgrab = seat.pgrab /\ s.kgrab = seat.kgrab /\ s.pfocus = seat.pfocus
        /\ s.drag = seat.drag
        /\ ButtonDown(s) /\ DragHas(s) /\ SourcesKept(s, {}) /\ ToldOf(s, Slots)
    BY <1>1 DEF SeatOK, SeatStates, ButtonDown, DragHas, SourcesKept, ToldOf
  <2> HIDE DEF s
  <2>3. "default" \in Grabs
    BY DEF Grabs
  <2>4. t \in SeatStates /\ GrabsOwned(t) /\ ButtonDown(t)
    <3>1. t \in SeatStates
      BY <2>2, <2>3 DEF SeatStates
    <3> QED BY <1>1, <2>2, <3>1 DEF SeatStates, SeatOK, GrabsOwned, ButtonDown
  <2>5. DragHas(t) /\ SourcesKept(t, {}) /\ ToldOf(t, Slots)
    BY <2>2 DEF SeatStates, DragHas, SourcesKept, ToldOf
  <2>6. s.popups # {} => GrabsOwned(s)
    BY <1>1, <2>2 DEF SeatOK, GrabsOwned
  <2> QED BY <2>1, <2>2, <2>4, <2>5, <2>6 DEF SeatInv, SeatOK
<1> QED BY <1>2, <1>3 DEF PopupsNext

\* At first nothing is focused, held or selected.
LEMMA SeatStarts ==
  ASSUME NEW clients \in SUBSET Clients, SeatInit(clients)
  PROVE  SeatInv
<1>1. /\ Nothing \in Maybe(Surfaces) /\ Nothing \in Maybe(Clients) /\ Nothing \in Maybe(Sources)
      /\ Nothing \in Maybe(Buttons) /\ Nothing \in Maybe(Drags) /\ "default" \in Grabs
  BY DEF Maybe, Grabs
<1>2. NoSource \in SourceStates /\ ~NoSource.live
  BY DEF NoSource, SourceStates
<1> HIDE DEF NoSource
<1>3. seat \in SeatStates
  BY <1>1, <1>2 DEF SeatInit, SeatStates
<1>4. GrabsOwned(seat) /\ ButtonDown(seat) /\ DragHas(seat) /\ SourcesKept(seat, {}) /\ ToldOf(seat, Slots)
  BY <1>2 DEF SeatInit, GrabsOwned, ButtonDown, DragHas, SourcesKept, ToldOf
<1> QED BY <1>3, <1>4 DEF SeatInv, SeatOK

LEMMA SeatStep ==
  ASSUME SeatInv, [SeatNext]_seat
  PROVE  SeatInv'
<1>1. CASE UNCHANGED seat
  BY <1>1 DEF SeatInv
<1>2. CASE SeatNext
  BY <1>2, ClientsComeAndGo, SelectionsMove, FocusComesAndGoes, DragsGoOn, PointerGoesOn, PopupsGrab
  DEF SeatNext, ClientsNext
<1> QED BY <1>1, <1>2

\* For any clients, surfaces, sources and buttons, in whatever order requests, input and
\* the policy come, the client with the keyboard and the managers were told of the source
\* that each selection has now (selection.c, seat.c).
THEOREM SelectionsAreTold == SeatSpec => []SelectionIsCurrent
<1>1. SeatInv => SelectionIsCurrent
  BY DEF SeatInv, SeatOK, ToldOf, SelectionIsCurrent
<1>2. (\E clients \in SUBSET Clients : SeatInit(clients)) => SeatInv
  BY SeatStarts
<1> QED BY <1>1, <1>2, SeatStep, PTL DEF SeatSpec

\* For the same, the grabs belong to a drag with a button down or to a popup, a drag holds
\* a source and a client that are there, and no source that was claimed is forgotten.
THEOREM DragsAreHeld == SeatSpec => []DragIsHeld
<1>1. SeatInv => DragIsHeld
  <2> SUFFICES ASSUME SeatInv PROVE GrabsAreHeld /\ ClaimedIsKept
    BY DEF DragIsHeld
  <2>1. GrabsAreHeld
    BY DEF SeatInv, SeatOK, GrabsOwned, ButtonDown, DragHas, GrabsAreHeld
  <2>2. ClaimedIsKept
    BY DEF SeatInv, SeatOK, SourcesKept, ClaimedIsKept
  <2> QED BY <2>1, <2>2
<1>2. (\E clients \in SUBSET Clients : SeatInit(clients)) => SeatInv
  BY SeatStarts
<1> QED BY <1>1, <1>2, SeatStep, PTL DEF SeatSpec

(***************************************************************************)
(* Buffers.                                                                *)
(***************************************************************************)
BuffersSpec == BuffersInit /\ [][BuffersNext]_<<pool, win, output>>

BufferRecord == [made : BOOLEAN, resource : BOOLEAN, dropped : BOOLEAN, locks : Nat]

Hold == [id : Holders, on : Gpu \cup RingBuffers, point : Points \cup {0}, buffer : Gpu \cup {None}]

PoolTypes(s) ==
  /\ s \in [buf : [Buffers -> BufferRecord], refs : [Points -> Nat],
            signalled : SUBSET Points, holds : SUBSET Hold]
  /\ IsFiniteSet(s.holds)

\* The pool counts R users of each buffer and Q of each release point, besides its
\* holds; points after n are not made yet; every hold waits for a buffer that is
\* locked, but for the buffers B whose last lock ended and is not announced yet.
Counted(s, R, Q, n, B) ==
  /\ PoolTypes(s)
  /\ \A b \in Buffers : /\ s.buf[b].locks = R[b] + LockedBy(s.holds, b)
                        /\ s.buf[b].locks > 0 => s.buf[b].made
                        /\ s.buf[b].resource => s.buf[b].made
  /\ \A p \in Points : /\ s.refs[p] = Q[p] + ReferredBy(s.holds, p)
                       /\ p \in s.signalled => s.refs[p] = 0
                       /\ p > n => s.refs[p] = 0 /\ p \notin s.signalled
  /\ \A h \in s.holds : /\ h.on \in Gpu => h.buffer = None
                        /\ h.on \notin B => s.buf[h.on].locks > 0

Uses == [b \in Buffers |-> Users(b)]
Refers == [p \in Points |-> One(win.release = p)]

Shown == Gpu \cup RingBuffers \cup {None}
Textures == Gpu \cup {"copy", None}

WinTypes ==
  /\ win \in [number : Nat, pending : Shm \cup Gpu \cup {None}, attached : BOOLEAN, sync : BOOLEAN,
              kept : Gpu \cup {None}, texture : Textures, release : Points \cup {0},
              feedback : BOOLEAN, current : SUBSET Nat]
  /\ win.texture \in Gpu => win.kept = win.texture
  /\ win.release <= win.number
  /\ ~win.attached => win.pending = None

OutputTypes ==
  /\ output \in [queued : Shown, current : Shown, flip : BOOLEAN, presented : Shown \X Shown,
                 drawn : [Buffers -> [number : Nat, read : Textures, point : Points \cup {0}]],
                 asked : SUBSET [number : Nat, committed : BOOLEAN]]
  /\ output.flip => output.queued # None

\* What a buffer that is queued or shown was drawn from is that buffer itself, or is
\* held until it is released.
HeldFor(b, d, holds) ==
  d.read \in Gpu => IF d.point = 0
                    THEN d.read = b \/ \E h \in holds : h.on = b /\ h.buffer = d.read
                    ELSE \E h \in holds : h.on = b /\ h.point = d.point

DrawnIsHeld == \A b \in {output.queued, output.current} \ {None} : HeldFor(b, output.drawn[b], pool.holds)

\* No feedback is for a commit that was not made.
AskedOfPast ==
  /\ \A i \in win.current : i <= win.number
  /\ \A f \in output.asked : f.number <= win.number

BuffersInv ==
  /\ WinTypes /\ OutputTypes
  /\ Counted(pool, Uses, Refers, win.number, {})
  /\ DrawnIsHeld /\ AskedOfPast /\ PresentedIsShown

Plus(R, b) == [x \in Buffers |-> R[x] + One(x = b)]
Minus(R, b) == [x \in Buffers |-> R[x] - One(x = b)]
Referred(Q, p) == [x \in Points |-> Q[x] + One(x = p)]
Unreferred(Q, p) == [x \in Points |-> Q[x] - One(x = p)]

LEMMA Apart ==
  /\ Shm \cap Gpu = {} /\ RingBuffers \cap Buffers = RingBuffers
  /\ RingBuffers \cap (Shm \cup Gpu) = {} /\ None \notin Buffers
  /\ "copy" \notin Buffers \cup {None}
  BY BuffersAssumption DEF Buffers

\* Of the holds S, the T go and the W stay; with h the holds S are T.
Splits(S, T, W) == IsFiniteSet(S) /\ T \in SUBSET S /\ W = S \ T
Adds(S, h, T) == IsFiniteSet(S) /\ h \notin S /\ T = S \cup {h}

LEMMA CountsAreNatural ==
  ASSUME NEW S, IsFiniteSet(S), NEW x
  PROVE  LockedBy(S, x) \in Nat /\ ReferredBy(S, x) \in Nat
  <1>1. IsFiniteSet({h \in S : h.buffer = x}) /\ IsFiniteSet({h \in S : h.point = x}) BY FS_Subset
  <1> QED BY <1>1, FS_CardinalityType DEF LockedBy, ReferredBy

\* The holds that go and those that stay are all.
LEMMA SplitHolds ==
  ASSUME NEW S, NEW T, NEW W, Splits(S, T, W), NEW x
  PROVE  /\ LockedBy(S, x) \in Nat /\ LockedBy(T, x) \in Nat /\ LockedBy(W, x) \in Nat
         /\ LockedBy(S, x) = LockedBy(W, x) + LockedBy(T, x)
         /\ ReferredBy(S, x) \in Nat /\ ReferredBy(T, x) \in Nat /\ ReferredBy(W, x) \in Nat
         /\ ReferredBy(S, x) = ReferredBy(W, x) + ReferredBy(T, x)
  <1>1. IsFiniteSet(S) /\ T \in SUBSET S /\ W = S \ T BY DEF Splits
  <1>2. ASSUME NEW U \in SUBSET S
        PROVE  LET D == U \ T
                   V == U \cap T
               IN /\ Cardinality(U) \in Nat /\ Cardinality(V) \in Nat /\ Cardinality(D) \in Nat
                  /\ Cardinality(U) = Cardinality(D) + Cardinality(V)
    <2>1. IsFiniteSet(U) BY <1>1, FS_Subset
    <2>2. IsFiniteSet(U \cap T) /\ IsFiniteSet(U \ T) BY <2>1, FS_Subset
    <2>3. Cardinality(U \cap T) \in Nat /\ Cardinality(U \ T) \in Nat /\ Cardinality(U) \in Nat
      BY <2>1, <2>2, FS_CardinalityType
    <2>4. Cardinality(U \ T) = Cardinality(U) - Cardinality(U \cap T)
      BY <2>1, FS_Difference
    <2> QED BY <2>3, <2>4
  <1>3. /\ LockedBy(S, x) \in Nat /\ LockedBy(T, x) \in Nat /\ LockedBy(W, x) \in Nat
        /\ LockedBy(S, x) = LockedBy(W, x) + LockedBy(T, x)
    <2> DEFINE U == {h \in S : h.buffer = x}
    <2>1. U \in SUBSET S OBVIOUS
    <2>2. U \cap T = {h \in T : h.buffer = x} BY <1>1
    <2>3. U \ T = {h \in W : h.buffer = x} BY <1>1
    <2>4. LockedBy(S, x) = Cardinality(U) /\ LockedBy(T, x) = Cardinality(U \cap T)
          /\ LockedBy(W, x) = Cardinality(U \ T)
      BY <2>2, <2>3 DEF LockedBy
    <2> HIDE DEF U
    <2> QED BY <1>2, <2>1, <2>4
  <1>4. /\ ReferredBy(S, x) \in Nat /\ ReferredBy(T, x) \in Nat /\ ReferredBy(W, x) \in Nat
        /\ ReferredBy(S, x) = ReferredBy(W, x) + ReferredBy(T, x)
    <2> DEFINE U == {h \in S : h.point = x}
    <2>1. U \in SUBSET S OBVIOUS
    <2>2. U \cap T = {h \in T : h.point = x} BY <1>1
    <2>3. U \ T = {h \in W : h.point = x} BY <1>1
    <2>4. ReferredBy(S, x) = Cardinality(U) /\ ReferredBy(T, x) = Cardinality(U \cap T)
          /\ ReferredBy(W, x) = Cardinality(U \ T)
      BY <2>2, <2>3 DEF ReferredBy
    <2> HIDE DEF U
    <2> QED BY <1>2, <2>1, <2>4
  <1> QED BY <1>3, <1>4

\* A hold more is one lock and one reference more.
LEMMA AnotherHold ==
  ASSUME NEW S, NEW h, NEW T, Adds(S, h, T), NEW x
  PROVE  /\ LockedBy(T, x) = LockedBy(S, x) + One(h.buffer = x)
         /\ ReferredBy(T, x) = ReferredBy(S, x) + One(h.point = x)
  <1> DEFINE H == {h}
  <1>1. IsFiniteSet(S) /\ h \notin S /\ T = S \cup {h} BY DEF Adds
  <1>2. IsFiniteSet(T) BY <1>1, FS_AddElement
  <1>3. Splits(T, H, S) BY <1>1, <1>2 DEF Splits
  <1> HIDE DEF H
  <1>4. /\ LockedBy(T, x) = LockedBy(S, x) + LockedBy(H, x)
        /\ ReferredBy(T, x) = ReferredBy(S, x) + ReferredBy(H, x)
    BY <1>3, SplitHolds
  <1>5. LockedBy({h}, x) = One(h.buffer = x)
    <2>1. CASE h.buffer = x
      <3>1. {y \in {h} : y.buffer = x} = {h} BY <2>1
      <3> QED BY <3>1, <2>1, FS_Singleton DEF LockedBy, One
    <2>2. CASE h.buffer # x
      <3>1. {y \in {h} : y.buffer = x} = {} BY <2>2
      <3> QED BY <3>1, <2>2, FS_EmptySet DEF LockedBy, One
    <2> QED BY <2>1, <2>2
  <1>6. ReferredBy({h}, x) = One(h.point = x)
    <2>1. CASE h.point = x
      <3>1. {y \in {h} : y.point = x} = {h} BY <2>1
      <3> QED BY <3>1, <2>1, FS_Singleton DEF ReferredBy, One
    <2>2. CASE h.point # x
      <3>1. {y \in {h} : y.point = x} = {} BY <2>2
      <3> QED BY <3>1, <2>2, FS_EmptySet DEF ReferredBy, One
    <2> QED BY <2>1, <2>2
  <1> QED BY <1>4, <1>5, <1>6 DEF H

\* A hold of a buffer or of a point counts.
LEMMA HoldCounts ==
  ASSUME NEW S, IsFiniteSet(S), NEW h \in S
  PROVE  LockedBy(S, h.buffer) > 0 /\ ReferredBy(S, h.point) > 0
  <1>1. h \in {x \in S : x.buffer = h.buffer} /\ h \in {x \in S : x.point = h.point} OBVIOUS
  <1>2. IsFiniteSet({x \in S : x.buffer = h.buffer}) /\ IsFiniteSet({x \in S : x.point = h.point})
    BY FS_Subset
  <1>3. /\ Cardinality({x \in S : x.buffer = h.buffer}) \in Nat
        /\ Cardinality({x \in S : x.point = h.point}) \in Nat
        /\ Cardinality({x \in S : x.buffer = h.buffer}) # 0
        /\ Cardinality({x \in S : x.point = h.point}) # 0
    BY <1>1, <1>2, FS_CardinalityType, FS_EmptySet
  <1> QED BY <1>3 DEF LockedBy, ReferredBy

LEMMA NoHoldCounts ==
  ASSUME NEW S, IsFiniteSet(S)
  PROVE  /\ \A b : LockedBy(S, b) > 0 => \E h \in S : h.buffer = b
         /\ \A p : ReferredBy(S, p) > 0 => \E h \in S : h.point = p
  <1>1. ASSUME NEW b, ~\E h \in S : h.buffer = b PROVE LockedBy(S, b) = 0
    <2>1. {h \in S : h.buffer = b} = {} BY <1>1
    <2> QED BY <2>1, FS_EmptySet DEF LockedBy
  <1>2. ASSUME NEW p, ~\E h \in S : h.point = p PROVE ReferredBy(S, p) = 0
    <2>1. {h \in S : h.point = p} = {} BY <1>2
    <2> QED BY <2>1, FS_EmptySet DEF ReferredBy
  <1> QED BY <1>1, <1>2

\* The holds on B let go, with which the last locks of C end.
Announces(s, B, t, C) ==
  /\ \A b \in B : s.buf[b].locks = 0
  /\ t = hold_released(s, B) /\ C \in SUBSET Buffers
  /\ \A x \in Buffers : x \in C <=> s.buf[x].locks > 0 /\ t.buf[x].locks = 0

\* Those whose last lock ended are announced.
LEMMA Announced ==
  ASSUME NEW s, NEW R \in [Buffers -> Nat], NEW Q \in [Points -> Nat], NEW n \in Nat,
         NEW B \in SUBSET Buffers, Counted(s, R, Q, n, B), NEW t, NEW C, Announces(s, B, t, C)
  PROVE  /\ Counted(t, R, Q, n, C)
         /\ \A h : h \in t.holds <=> h \in s.holds /\ h.on \notin B
         /\ C \in SUBSET Gpu
         /\ B \in SUBSET Gpu => C = {}
  <1> DEFINE gone == {h \in s.holds : h.on \in B}
             S == s.holds
             stay == S \ gone
             buf == [b \in Buffers |-> [s.buf[b] EXCEPT !.locks = @ - LockedBy(gone, b)]]
             refs == [p \in Points |-> s.refs[p] - ReferredBy(gone, p)]
             new == {p \in Points : ReferredBy(gone, p) > 0 /\ s.refs[p] = ReferredBy(gone, p)}
  <1>1. /\ s \in [buf : [Buffers -> BufferRecord], refs : [Points -> Nat],
                   signalled : SUBSET Points, holds : SUBSET Hold]
        /\ IsFiniteSet(S) /\ gone \in SUBSET S
    BY DEF Counted, PoolTypes
  <1>2. /\ s.buf \in [Buffers -> BufferRecord] /\ s.refs \in [Points -> Nat]
        /\ s.signalled \in SUBSET Points /\ S \in SUBSET Hold
    BY <1>1
  <1>3. t = [buf |-> buf, refs |-> refs, signalled |-> s.signalled \cup new, holds |-> stay]
    BY DEF hold_released, Announces
  <1>4. /\ t.buf = buf /\ t.refs = refs /\ t.signalled = s.signalled \cup new /\ t.holds = stay
    BY <1>3
  <1>5. /\ \A b : /\ LockedBy(S, b) \in Nat /\ LockedBy(gone, b) \in Nat /\ LockedBy(stay, b) \in Nat
                  /\ LockedBy(S, b) = LockedBy(stay, b) + LockedBy(gone, b)
        /\ \A p : /\ ReferredBy(S, p) \in Nat /\ ReferredBy(gone, p) \in Nat /\ ReferredBy(stay, p) \in Nat
                  /\ ReferredBy(S, p) = ReferredBy(stay, p) + ReferredBy(gone, p)
    <2>1. Splits(S, gone, stay) BY <1>1 DEF Splits
    <2> HIDE DEF stay, S, gone
    <2>2. ASSUME NEW b
          PROVE  /\ LockedBy(S, b) \in Nat /\ LockedBy(gone, b) \in Nat /\ LockedBy(stay, b) \in Nat
                 /\ LockedBy(S, b) = LockedBy(stay, b) + LockedBy(gone, b)
      BY <2>1, SplitHolds
    <2>3. ASSUME NEW p
          PROVE  /\ ReferredBy(S, p) \in Nat /\ ReferredBy(gone, p) \in Nat /\ ReferredBy(stay, p) \in Nat
                 /\ ReferredBy(S, p) = ReferredBy(stay, p) + ReferredBy(gone, p)
      BY <2>1, SplitHolds
    <2> QED BY <2>2, <2>3
  <1>6. \A b \in Buffers : /\ s.buf[b].locks = R[b] + LockedBy(S, b) /\ R[b] \in Nat
                           /\ s.buf[b].locks > 0 => s.buf[b].made
                           /\ s.buf[b].resource => s.buf[b].made
    BY DEF Counted
  <1>7. \A p \in Points : /\ s.refs[p] = Q[p] + ReferredBy(S, p) /\ Q[p] \in Nat
                          /\ p \in s.signalled => s.refs[p] = 0
                          /\ p > n => s.refs[p] = 0 /\ p \notin s.signalled
    BY DEF Counted
  <1>8. \A h \in S : /\ h.on \in Gpu => h.buffer = None
                     /\ h.on \notin B => s.buf[h.on].locks > 0
    BY DEF Counted
  <1>9. \A h \in S : h.on \in Buffers /\ h.buffer \in Gpu \cup {None}
    BY <1>2 DEF Hold, Buffers
  <1> HIDE DEF gone, S, stay
  <1>10. ASSUME NEW b \in Buffers
        PROVE  /\ buf[b] \in BufferRecord /\ buf[b].locks = R[b] + LockedBy(stay, b)
               /\ buf[b].locks = s.buf[b].locks - LockedBy(gone, b)
               /\ buf[b].made = s.buf[b].made /\ buf[b].resource = s.buf[b].resource
    <2> DEFINE k == LockedBy(gone, b)
    <2>1. s.buf[b] \in BufferRecord BY <1>2
    <2>2. s.buf[b].locks - k = R[b] + LockedBy(stay, b) /\ s.buf[b].locks - k \in Nat
      BY <1>5, <1>6
    <2> HIDE DEF k
    <2>3. buf[b] = [s.buf[b] EXCEPT !.locks = @ - k] BY DEF k
    <2> HIDE DEF buf
    <2>4. /\ buf[b] \in BufferRecord /\ buf[b].locks = s.buf[b].locks - k
          /\ buf[b].made = s.buf[b].made /\ buf[b].resource = s.buf[b].resource
      BY <2>1, <2>2, <2>3 DEF BufferRecord
    <2> QED BY <2>2, <2>4 DEF k
  <1>11. buf \in [Buffers -> BufferRecord] BY <1>10
  <1>12. ASSUME NEW p \in Points
         PROVE  refs[p] \in Nat /\ refs[p] = Q[p] + ReferredBy(stay, p)
    BY <1>5, <1>7
  <1>13. refs \in [Points -> Nat] BY <1>12
  <1>14. stay \in SUBSET Hold /\ IsFiniteSet(stay)
    <2>1. stay \in SUBSET S BY DEF stay
    <2> QED BY <2>1, <1>1, <1>2, FS_Subset
  <1> HIDE DEF buf, refs
  <1>15. PoolTypes(t)
    <2>1. s.signalled \cup new \in SUBSET Points BY <1>2
    <2> HIDE DEF new
    <2> QED BY <1>3, <1>4, <1>11, <1>13, <1>14, <2>1 DEF PoolTypes
  <1>16. ASSUME NEW p \in Points
         PROVE  /\ p \in t.signalled => refs[p] = 0
                /\ p > n => refs[p] = 0 /\ p \notin t.signalled
    <2>1. refs[p] = s.refs[p] - ReferredBy(gone, p) BY DEF refs
    <2>2. s.refs[p] \in Nat /\ ReferredBy(gone, p) \in Nat /\ ReferredBy(gone, p) <= s.refs[p]
      BY <1>2, <1>5, <1>7
    <2>3. CASE p \in new BY <2>1, <2>2, <2>3, <1>7
    <2>4. CASE p \notin new
      <3>1. p \in t.signalled => p \in s.signalled BY <1>4, <2>4
      <3> QED BY <3>1, <2>1, <2>2, <1>7
    <2> QED BY <2>3, <2>4
  <1>17. \A h \in stay : /\ h.on \in Gpu => h.buffer = None
                         /\ h.on \notin C => t.buf[h.on].locks > 0
    <2> TAKE h \in stay
    <2>1. h \in S /\ h.on \notin B BY DEF stay, gone, S
    <2>2. s.buf[h.on].locks > 0 /\ h.on \in Buffers BY <2>1, <1>8, <1>9
    <2>3. buf[h.on].locks \in Nat BY <2>2, <1>11 DEF BufferRecord
    <2> QED BY <2>1, <2>2, <2>3, <1>4, <1>8 DEF Announces
  <1>18. Counted(t, R, Q, n, C)
    <2>1. \A b \in Buffers : /\ t.buf[b].locks = R[b] + LockedBy(t.holds, b)
                             /\ t.buf[b].locks > 0 => t.buf[b].made
                             /\ t.buf[b].resource => t.buf[b].made
      <3> TAKE b \in Buffers
      <3>1. t.buf[b].locks > 0 => s.buf[b].locks > 0
        <4>1. s.buf[b].locks \in Nat /\ LockedBy(gone, b) \in Nat BY <1>2, <1>5 DEF BufferRecord
        <4> QED BY <4>1, <1>4, <1>10
      <3> QED BY <3>1, <1>4, <1>6, <1>10
    <2>2. \A p \in Points : t.refs[p] = Q[p] + ReferredBy(t.holds, p) BY <1>4, <1>12
    <2> QED BY <2>1, <2>2, <1>4, <1>15, <1>16, <1>17 DEF Counted
  <1>19. \A h : h \in t.holds <=> h \in s.holds /\ h.on \notin B BY <1>4 DEF stay, gone, S
  <1>20. C \in SUBSET Buffers BY DEF Announces
  <1>21. ASSUME NEW x \in C PROVE \E h \in gone : h.buffer = x
    <2>1. x \in Buffers /\ s.buf[x].locks > 0 /\ buf[x].locks = 0 BY <1>4, <1>20 DEF Announces
    <2>2. LockedBy(gone, x) > 0
      <3>1. s.buf[x].locks \in Nat /\ LockedBy(gone, x) \in Nat BY <2>1, <1>2, <1>5 DEF BufferRecord
      <3> QED BY <3>1, <2>1, <1>10
    <2>3. IsFiniteSet(gone) BY <1>1, FS_Subset
    <2> QED BY <2>2, <2>3, NoHoldCounts
  <1>22. C \in SUBSET Gpu
    BY <1>1, <1>9, <1>20, <1>21, Apart
  <1>23. B \in SUBSET Gpu => C = {}
    <2>1. SUFFICES ASSUME B \in SUBSET Gpu, NEW x \in C PROVE FALSE OBVIOUS
    <2>2. PICK h \in gone : h.buffer = x BY <1>21
    <2>3. h \in S /\ h.on \in Gpu BY <2>1 DEF gone, S
    <2> QED BY <2>2, <2>3, <1>8, <1>20, Apart
  <1> QED BY <1>18, <1>19, <1>22, <1>23

\* To lock a buffer is to use it once more.
LEMMA Locks ==
  ASSUME NEW s, NEW R \in [Buffers -> Nat], NEW Q \in [Points -> Nat], NEW n \in Nat,
         Counted(s, R, Q, n, {}), NEW b \in Buffers \cup {None}, b # None => s.buf[b].made
  PROVE  LET t == buffer_lock(s, b)
         IN /\ Counted(t, Plus(R, b), Q, n, {})
            /\ Plus(R, b) \in [Buffers -> Nat]
            /\ t.holds = s.holds
            /\ \A x \in Buffers : t.buf[x].made <=> s.buf[x].made
  <1> DEFINE t == buffer_lock(s, b)
             r == Plus(R, b)
  <1>1. /\ s \in [buf : [Buffers -> BufferRecord], refs : [Points -> Nat],
                  signalled : SUBSET Points, holds : SUBSET Hold]
        /\ IsFiniteSet(s.holds)
    BY DEF Counted, PoolTypes
  <1>2. /\ s.buf \in [Buffers -> BufferRecord] /\ s.holds \in SUBSET Hold BY <1>1
  <1>3. r \in [Buffers -> Nat] /\ \A x \in Buffers : r[x] = R[x] + One(x = b)
    BY DEF Plus, One
  <1>4. CASE b = None
    <2>1. t = s BY <1>4 DEF buffer_lock
    <2>2. \A x \in Buffers : r[x] = R[x] BY <1>3, <1>4, Apart DEF One
    <2> HIDE DEF t, r
    <2> QED BY <2>1, <2>2, <1>3 DEF Counted, t, r
  <1>5. CASE b # None
    <2> DEFINE e == [s.buf[b] EXCEPT !.locks = @ + 1]
               buf == [s.buf EXCEPT ![b] = e]
    <2>1. b \in Buffers BY <1>5
    <2>2. t = [s EXCEPT !.buf = buf]
      BY <1>1, <1>5 DEF buffer_lock
    <2>3. s.buf[b] \in BufferRecord BY <2>1, <1>2
    <2>4. /\ e \in BufferRecord /\ e.locks = s.buf[b].locks + 1 /\ e.made = s.buf[b].made
          /\ e.resource = s.buf[b].resource
      BY <2>3 DEF BufferRecord
    <2> HIDE DEF e
    <2>5. /\ buf \in [Buffers -> BufferRecord] /\ buf[b] = e
          /\ \A x \in Buffers : x # b => buf[x] = s.buf[x]
      BY <2>1, <2>4, <1>2
    <2> HIDE DEF buf, t, r
    <2>6. t.buf = buf /\ t.refs = s.refs /\ t.signalled = s.signalled /\ t.holds = s.holds
      BY <2>2, <1>1
    <2>7. PoolTypes(t)
      <3>1. t \in [buf : [Buffers -> BufferRecord], refs : [Points -> Nat],
                   signalled : SUBSET Points, holds : SUBSET Hold]
        BY <2>2, <2>5, <1>1
      <3> QED BY <3>1, <2>6, <1>1 DEF PoolTypes
    <2>8. \A x \in Buffers : /\ t.buf[x].locks = r[x] + LockedBy(t.holds, x)
                             /\ t.buf[x].locks > 0 => t.buf[x].made
                             /\ t.buf[x].resource => t.buf[x].made
      <3> TAKE x \in Buffers
      <3>1. LockedBy(s.holds, x) \in Nat BY <1>1, CountsAreNatural
      <3>2. /\ s.buf[x].locks = R[x] + LockedBy(s.holds, x)
            /\ s.buf[x].locks > 0 => s.buf[x].made
            /\ s.buf[x].resource => s.buf[x].made
        BY DEF Counted
      <3>3. CASE x = b BY <3>1, <3>2, <3>3, <2>4, <2>5, <2>6, <1>3, <1>5 DEF One
      <3>4. CASE x # b BY <3>1, <3>2, <3>4, <2>5, <2>6, <1>3 DEF One
      <3> QED BY <3>3, <3>4
    <2>9. \A p \in Points : /\ t.refs[p] = Q[p] + ReferredBy(t.holds, p)
                            /\ p \in t.signalled => t.refs[p] = 0
                            /\ p > n => t.refs[p] = 0 /\ p \notin t.signalled
      BY <2>6 DEF Counted
    <2>10. \A h \in t.holds : /\ h.on \in Gpu => h.buffer = None
                              /\ h.on \notin {} => t.buf[h.on].locks > 0
      <3> TAKE h \in t.holds
      <3>1. h.on \in Buffers BY <2>6, <1>2 DEF Hold, Buffers
      <3>2. (h.on \in Gpu => h.buffer = None) /\ s.buf[h.on].locks > 0 BY <2>6 DEF Counted
      <3>3. s.buf[b].locks \in Nat BY <2>3 DEF BufferRecord
      <3> QED BY <3>1, <3>2, <3>3, <2>4, <2>5, <2>6
    <2>11. Counted(t, r, Q, n, {}) BY <2>7, <2>8, <2>9, <2>10 DEF Counted
    <2>12. \A x \in Buffers : t.buf[x].made <=> s.buf[x].made
      <3> TAKE x \in Buffers
      <3> QED BY <2>4, <2>5, <2>6
    <2> QED BY <2>6, <2>11, <2>12, <1>3 DEF t, r
  <1> QED BY <1>4, <1>5

\* What is dropped and unlocked goes.
LEMMA Considered ==
  ASSUME NEW s, NEW R \in [Buffers -> Nat], NEW Q \in [Points -> Nat], NEW n \in Nat,
         NEW B \in SUBSET Buffers, Counted(s, R, Q, n, {})
  PROVE  LET t == buffer_consider(s, B)
         IN Counted(t, R, Q, n, {}) /\ t.holds = s.holds
  <1> DEFINE t == buffer_consider(s, B)
             buf == [b \in Buffers |-> IF b \in B /\ s.buf[b].dropped /\ s.buf[b].locks = 0
                                       THEN NoBuffer ELSE s.buf[b]]
  <1>1. /\ s \in [buf : [Buffers -> BufferRecord], refs : [Points -> Nat],
                  signalled : SUBSET Points, holds : SUBSET Hold]
        /\ IsFiniteSet(s.holds)
    BY DEF Counted, PoolTypes
  <1>2. /\ s.buf \in [Buffers -> BufferRecord] /\ s.holds \in SUBSET Hold BY <1>1
  <1>3. t = [s EXCEPT !.buf = buf] BY DEF buffer_consider
  <1>4. NoBuffer \in BufferRecord /\ NoBuffer.locks = 0 /\ ~NoBuffer.resource
    BY DEF NoBuffer, BufferRecord
  <1>5. ASSUME NEW b \in Buffers
        PROVE  /\ buf[b] \in BufferRecord /\ buf[b].locks = s.buf[b].locks
               /\ buf[b] = s.buf[b] \/ buf[b] = NoBuffer
    BY <1>2, <1>4
  <1>6. buf \in [Buffers -> BufferRecord] BY <1>5
  <1> HIDE DEF buf, t
  <1>7. t.buf = buf /\ t.refs = s.refs /\ t.signalled = s.signalled /\ t.holds = s.holds
    BY <1>1, <1>3
  <1>8. PoolTypes(t)
    <2>1. t \in [buf : [Buffers -> BufferRecord], refs : [Points -> Nat],
                 signalled : SUBSET Points, holds : SUBSET Hold]
      BY <1>1, <1>3, <1>6
    <2> QED BY <2>1, <1>1, <1>7 DEF PoolTypes
  <1>9. \A b \in Buffers : /\ t.buf[b].locks = R[b] + LockedBy(t.holds, b)
                           /\ t.buf[b].locks > 0 => t.buf[b].made
                           /\ t.buf[b].resource => t.buf[b].made
    <2> TAKE b \in Buffers
    <2>1. /\ s.buf[b].locks = R[b] + LockedBy(s.holds, b)
          /\ s.buf[b].locks > 0 => s.buf[b].made
          /\ s.buf[b].resource => s.buf[b].made
      BY DEF Counted
    <2>2. CASE buf[b] = s.buf[b] BY <2>1, <2>2, <1>7
    <2>3. CASE buf[b] = NoBuffer BY <2>1, <2>3, <1>4, <1>5, <1>7
    <2> QED BY <2>2, <2>3, <1>5
  <1>10. \A h \in t.holds : /\ h.on \in Gpu => h.buffer = None
                            /\ h.on \notin {} => t.buf[h.on].locks > 0
    <2> TAKE h \in t.holds
    <2>1. h.on \in Buffers BY <1>7, <1>2 DEF Hold, Buffers
    <2>2. (h.on \in Gpu => h.buffer = None) /\ s.buf[h.on].locks > 0 BY <1>7 DEF Counted
    <2> QED BY <2>1, <2>2, <1>5, <1>7
  <1>11. \A p \in Points : /\ t.refs[p] = Q[p] + ReferredBy(t.holds, p)
                           /\ p \in t.signalled => t.refs[p] = 0
                           /\ p > n => t.refs[p] = 0 /\ p \notin t.signalled
    BY <1>7 DEF Counted
  <1>12. Counted(t, R, Q, n, {}) BY <1>8, <1>9, <1>10, <1>11 DEF Counted
  <1> QED BY <1>7, <1>12 DEF t

\* To unlock a buffer is to use it once less: what is no longer used is released, and
\* the holds on what is still used stay.
LEMMA Unlocks ==
  ASSUME NEW s, NEW R \in [Buffers -> Nat], NEW Q \in [Points -> Nat], NEW n \in Nat,
         Counted(s, R, Q, n, {}), NEW b \in Buffers \cup {None}, b # None => R[b] > 0
  PROVE  LET t == buffer_unlock(s, b)
         IN /\ Counted(t, Minus(R, b), Q, n, {})
            /\ Minus(R, b) \in [Buffers -> Nat]
            /\ t.holds \in SUBSET s.holds
            /\ \A h \in s.holds : Minus(R, b)[h.on] > 0 => h \in t.holds
  <1> DEFINE t == buffer_unlock(s, b)
             r == Minus(R, b)
  <1>1. /\ s \in [buf : [Buffers -> BufferRecord], refs : [Points -> Nat],
                  signalled : SUBSET Points, holds : SUBSET Hold]
        /\ IsFiniteSet(s.holds)
    BY DEF Counted, PoolTypes
  <1>2. /\ s.buf \in [Buffers -> BufferRecord] /\ s.holds \in SUBSET Hold BY <1>1
  <1>3. r \in [Buffers -> Nat] /\ \A x \in Buffers : r[x] = R[x] - One(x = b)
    <2>1. ASSUME NEW x \in Buffers PROVE R[x] - One(x = b) \in Nat
      <3>1. CASE x = b
        <4>1. R[b] \in Nat /\ R[b] > 0 BY <3>1, Apart
        <4> QED BY <3>1, <4>1 DEF One
      <3>2. CASE x # b BY <3>2 DEF One
      <3> QED BY <3>1, <3>2
    <2> QED BY <2>1 DEF Minus
  <1>4. CASE b = None
    <2>1. t = s BY <1>4 DEF buffer_unlock
    <2>2. \A x \in Buffers : r[x] = R[x] BY <1>3, <1>4, Apart DEF One
    <2> HIDE DEF t, r
    <2> QED BY <2>1, <2>2, <1>3 DEF Counted, t, r
  <1>5. CASE b # None
    <2> DEFINE e == [s.buf[b] EXCEPT !.locks = @ - 1]
               buf == [s.buf EXCEPT ![b] = e]
               u == [s EXCEPT !.buf[b].locks = @ - 1]
               first == {x \in {b} : u.buf[x].locks = 0}
               v == hold_released(u, first)
               second == {x \in Buffers : u.buf[x].locks > 0 /\ v.buf[x].locks = 0}
               w == hold_released(v, second)
    <2>1. b \in Buffers BY <1>5
    <2>2. u = [s EXCEPT !.buf = buf] BY <1>1
    <2>3. t = buffer_consider(w, {b} \cup second) BY <1>5 DEF buffer_unlock
    <2>4. s.buf[b] \in BufferRecord /\ s.buf[b].locks > 0
      <3>1. s.buf[b].locks = R[b] + LockedBy(s.holds, b) /\ LockedBy(s.holds, b) \in Nat /\ R[b] \in Nat
        BY <2>1, <1>1, CountsAreNatural DEF Counted
      <3> QED BY <3>1, <2>1, <1>2, <1>5
    <2>5. /\ e \in BufferRecord /\ e.locks = s.buf[b].locks - 1 /\ e.made = s.buf[b].made
          /\ e.resource = s.buf[b].resource
      BY <2>4 DEF BufferRecord
    <2> HIDE DEF e
    <2>6. /\ buf \in [Buffers -> BufferRecord] /\ buf[b] = e
          /\ \A x \in Buffers : x # b => buf[x] = s.buf[x]
      BY <2>1, <2>5, <1>2
    <2> HIDE DEF buf, u, t, r
    <2>7. u.buf = buf /\ u.refs = s.refs /\ u.signalled = s.signalled /\ u.holds = s.holds
      BY <2>2, <1>1
    <2>8. first \in SUBSET Buffers /\ \A x \in first : u.buf[x].locks = 0 BY <2>1
    <2>9. \A x \in Buffers : /\ u.buf[x].locks = r[x] + LockedBy(u.holds, x)
                             /\ u.buf[x].locks > 0 => u.buf[x].made
                             /\ u.buf[x].resource => u.buf[x].made
      <3> TAKE x \in Buffers
      <3>1. LockedBy(s.holds, x) \in Nat BY <1>1, CountsAreNatural
      <3>2. /\ s.buf[x].locks = R[x] + LockedBy(s.holds, x)
            /\ s.buf[x].locks > 0 => s.buf[x].made
            /\ s.buf[x].resource => s.buf[x].made
        BY DEF Counted
      <3>3. CASE x = b BY <3>1, <3>2, <3>3, <2>4, <2>5, <2>6, <2>7, <1>3, <1>5 DEF One
      <3>4. CASE x # b BY <3>1, <3>2, <3>4, <2>6, <2>7, <1>3 DEF One
      <3> QED BY <3>3, <3>4
    <2>10. \A h \in u.holds : /\ h.on \in Gpu => h.buffer = None
                              /\ h.on \notin first => u.buf[h.on].locks > 0
      <3> TAKE h \in u.holds
      <3>1. h.on \in Buffers BY <2>7, <1>2 DEF Hold, Buffers
      <3>2. (h.on \in Gpu => h.buffer = None) /\ s.buf[h.on].locks > 0 BY <2>7 DEF Counted
      <3>3. u.buf[h.on].locks \in Nat BY <3>1, <2>6, <2>7 DEF BufferRecord
      <3>4. h.on # b => u.buf[h.on].locks > 0 BY <3>1, <3>2, <2>6, <2>7
      <3> QED BY <3>2, <3>3, <3>4
    <2>11. Counted(u, r, Q, n, first)
      <3>1. PoolTypes(u)
        <4>1. u \in [buf : [Buffers -> BufferRecord], refs : [Points -> Nat],
                     signalled : SUBSET Points, holds : SUBSET Hold]
          BY <2>2, <2>6, <1>1
        <4> QED BY <4>1, <2>7, <1>1 DEF PoolTypes
      <3>2. \A p \in Points : /\ u.refs[p] = Q[p] + ReferredBy(u.holds, p)
                              /\ p \in u.signalled => u.refs[p] = 0
                              /\ p > n => u.refs[p] = 0 /\ p \notin u.signalled
        BY <2>7 DEF Counted
      <3> HIDE DEF first
      <3> QED BY <3>1, <3>2, <2>9, <2>10 DEF Counted
    <2> HIDE DEF first
    <2>12. /\ second \in SUBSET Buffers
           /\ \A x \in Buffers : x \in second <=> u.buf[x].locks > 0 /\ v.buf[x].locks = 0
      OBVIOUS
    <2>13. v = hold_released(u, first) /\ w = hold_released(v, second) OBVIOUS
    <2> HIDE DEF v, second, w
    <2>14. Announces(u, first, v, second) BY <2>8, <2>12, <2>13 DEF Announces
    <2>15. first \in SUBSET Buffers BY <2>8
    <2>16. r \in [Buffers -> Nat] BY <1>3
    <2>17. /\ Counted(v, r, Q, n, second)
           /\ \A h : h \in v.holds <=> h \in u.holds /\ h.on \notin first
           /\ second \in SUBSET Gpu
      <3>1. Counted(v, r, Q, n, second) BY <2>11, <2>14, <2>15, <2>16, Announced
      <3>2. \A h : h \in v.holds <=> h \in u.holds /\ h.on \notin first BY <2>11, <2>14, <2>15, <2>16, Announced
      <3>3. second \in SUBSET Gpu BY <2>11, <2>14, <2>15, <2>16, Announced
      <3> QED BY <3>1, <3>2, <3>3
    <2>18. Counted(w, r, Q, n, {}) /\ \A h : h \in w.holds <=> h \in v.holds /\ h.on \notin second
      <3> DEFINE third == {x \in Buffers : v.buf[x].locks > 0 /\ w.buf[x].locks = 0}
      <3>1. /\ third \in SUBSET Buffers
            /\ \A x \in Buffers : x \in third <=> v.buf[x].locks > 0 /\ w.buf[x].locks = 0
        OBVIOUS
      <3> HIDE DEF third
      <3>2. Announces(v, second, w, third) BY <3>1, <2>12, <2>13 DEF Announces
      <3>3. /\ Counted(w, r, Q, n, third) /\ \A h : h \in w.holds <=> h \in v.holds /\ h.on \notin second
            /\ second \in SUBSET Gpu => third = {}
        BY <3>2, <2>17, <2>12, <1>3, Announced
      <3> QED BY <3>3, <2>17
    <2>19. {b} \cup second \in SUBSET Buffers BY <2>1, <2>12
    <2>20. Counted(t, r, Q, n, {}) /\ t.holds = w.holds
      <3> DEFINE D == {b} \cup second
      <3>1. D \in SUBSET Buffers /\ t = buffer_consider(w, D) BY <2>3, <2>19
      <3> HIDE DEF D
      <3> QED BY <3>1, <2>18, <1>3, Considered
    <2>21. ASSUME NEW h \in s.holds, r[h.on] > 0 PROVE h \in t.holds
      <3>1. h.on \in Buffers BY <1>2 DEF Hold, Buffers
      <3>2. r[h.on] \in Nat BY <3>1, <1>3
      <3>3. h.on \notin first
        <4>1. u.buf[h.on].locks = r[h.on] + LockedBy(u.holds, h.on) BY <3>1, <2>9
        <4>2. LockedBy(u.holds, h.on) \in Nat BY <2>7, <1>1, CountsAreNatural
        <4>3. u.buf[h.on].locks > 0 BY <4>1, <4>2, <3>2, <2>21
        <4> QED BY <4>3, <2>8
      <3>4. h \in v.holds BY <3>3, <2>7, <2>17
      <3>5. h.on \notin second
        <4>1. v.buf[h.on].locks = r[h.on] + LockedBy(v.holds, h.on) BY <3>1, <2>17 DEF Counted
        <4>2. LockedBy(v.holds, h.on) \in Nat
          <5>1. IsFiniteSet(v.holds) BY <2>17 DEF Counted, PoolTypes
          <5> QED BY <5>1, CountsAreNatural
        <4>3. v.buf[h.on].locks > 0 BY <4>1, <4>2, <3>2, <2>21
        <4> QED BY <4>3, <2>12
      <3> QED BY <3>4, <3>5, <2>18, <2>20
    <2>22. t.holds \in SUBSET s.holds BY <2>7, <2>17, <2>18, <2>20
    <2> QED BY <2>20, <2>21, <2>22, <1>3 DEF t, r
  <1> QED BY <1>4, <1>5

\* To let go of a release point is to refer to it once less.
LEMMA Unrefs ==
  ASSUME NEW s, NEW R \in [Buffers -> Nat], NEW Q \in [Points -> Nat], NEW n \in Nat,
         Counted(s, R, Q, n, {}), NEW p \in Points \cup {0}, p # 0 => Q[p] > 0
  PROVE  LET t == release_unref(s, p)
         IN /\ Counted(t, R, Unreferred(Q, p), n, {})
            /\ Unreferred(Q, p) \in [Points -> Nat]
            /\ t.holds = s.holds /\ t.buf = s.buf
  <1> DEFINE t == release_unref(s, p)
             q == Unreferred(Q, p)
  <1>1. /\ s \in [buf : [Buffers -> BufferRecord], refs : [Points -> Nat],
                  signalled : SUBSET Points, holds : SUBSET Hold]
        /\ IsFiniteSet(s.holds)
    BY DEF Counted, PoolTypes
  <1>2. /\ s.refs \in [Points -> Nat] /\ s.signalled \in SUBSET Points BY <1>1
  <1>3. q \in [Points -> Nat] /\ \A x \in Points : q[x] = Q[x] - One(x = p)
    <2>1. ASSUME NEW x \in Points PROVE Q[x] - One(x = p) \in Nat
      <3>1. CASE x = p
        <4>1. Q[p] \in Nat /\ Q[p] > 0 BY <3>1 DEF Points
        <4> QED BY <3>1, <4>1 DEF One
      <3>2. CASE x # p BY <3>2 DEF One
      <3> QED BY <3>1, <3>2
    <2> QED BY <2>1 DEF Unreferred
  <1>4. CASE p = 0
    <2>1. t = s BY <1>4 DEF release_unref
    <2>2. \A x \in Points : q[x] = Q[x] BY <1>3, <1>4 DEF One, Points
    <2> HIDE DEF t, q
    <2> QED BY <2>1, <2>2, <1>3 DEF Counted, t, q
  <1>5. CASE p # 0
    <2> DEFINE refs == [s.refs EXCEPT ![p] = @ - 1]
               signalled == IF s.refs[p] = 1 THEN s.signalled \cup {p} ELSE s.signalled
    <2>1. p \in Points BY <1>5
    <2>2. t = [[s EXCEPT !.refs = refs] EXCEPT !.signalled = signalled]
      BY <1>1, <1>5 DEF release_unref
    <2>3. s.refs[p] \in Nat /\ s.refs[p] > 0
      <3>1. s.refs[p] = Q[p] + ReferredBy(s.holds, p) /\ ReferredBy(s.holds, p) \in Nat /\ Q[p] \in Nat
        BY <2>1, <1>1, CountsAreNatural DEF Counted
      <3> QED BY <3>1, <2>1, <1>2, <1>5
    <2>4. /\ refs \in [Points -> Nat] /\ refs[p] = s.refs[p] - 1
          /\ \A x \in Points : x # p => refs[x] = s.refs[x]
      BY <2>1, <2>3, <1>2
    <2>5. /\ signalled \in SUBSET Points
          /\ \A x \in Points : x \in signalled <=> x \in s.signalled \/ (x = p /\ s.refs[p] = 1)
      BY <2>1, <1>2
    <2> HIDE DEF refs, signalled, t, q
    <2>6. t.refs = refs /\ t.signalled = signalled /\ t.buf = s.buf /\ t.holds = s.holds
      BY <2>2, <1>1
    <2>7. PoolTypes(t)
      <3>1. t \in [buf : [Buffers -> BufferRecord], refs : [Points -> Nat],
                   signalled : SUBSET Points, holds : SUBSET Hold]
        BY <2>2, <2>4, <2>5, <1>1
      <3> QED BY <3>1, <2>6, <1>1 DEF PoolTypes
    <2>8. \A x \in Points : /\ t.refs[x] = q[x] + ReferredBy(t.holds, x)
                            /\ x \in t.signalled => t.refs[x] = 0
                            /\ x > n => t.refs[x] = 0 /\ x \notin t.signalled
      <3> TAKE x \in Points
      <3>1. ReferredBy(s.holds, x) \in Nat BY <1>1, CountsAreNatural
      <3>2. /\ s.refs[x] = Q[x] + ReferredBy(s.holds, x)
            /\ x \in s.signalled => s.refs[x] = 0
            /\ x > n => s.refs[x] = 0 /\ x \notin s.signalled
        BY DEF Counted
      <3>3. CASE x = p BY <3>1, <3>2, <3>3, <2>3, <2>4, <2>5, <2>6, <1>3 DEF One
      <3>4. CASE x # p BY <3>1, <3>2, <3>4, <2>4, <2>5, <2>6, <1>3 DEF One
      <3> QED BY <3>3, <3>4
    <2>9. Counted(t, R, q, n, {}) BY <2>6, <2>7, <2>8 DEF Counted
    <2> QED BY <2>6, <2>9, <1>3 DEF t, q
  <1> QED BY <1>4, <1>5

\* A release point that is not reached is referred to once more.
LEMMA References ==
  ASSUME NEW s, NEW R \in [Buffers -> Nat], NEW Q \in [Points -> Nat], NEW n \in Nat, NEW m \in Nat,
         Counted(s, R, Q, n, {}), NEW p \in Points, p \notin s.signalled, p <= m, n <= m,
         NEW k, k = s.refs[p] + 1
  PROVE  LET t == [s EXCEPT !.refs[p] = k]
         IN /\ Counted(t, R, Referred(Q, p), m, {})
            /\ Referred(Q, p) \in [Points -> Nat]
            /\ t.holds = s.holds /\ t.buf = s.buf
  <1> DEFINE t == [s EXCEPT !.refs[p] = k]
             q == Referred(Q, p)
             refs == [s.refs EXCEPT ![p] = k]
  <1>1. /\ s \in [buf : [Buffers -> BufferRecord], refs : [Points -> Nat],
                  signalled : SUBSET Points, holds : SUBSET Hold]
        /\ IsFiniteSet(s.holds)
    BY DEF Counted, PoolTypes
  <1>2. /\ s.refs \in [Points -> Nat] /\ s.signalled \in SUBSET Points BY <1>1
  <1>3. q \in [Points -> Nat] /\ \A x \in Points : q[x] = Q[x] + One(x = p)
    BY DEF Referred, One
  <1>4. t = [s EXCEPT !.refs = refs] BY <1>1
  <1>5. /\ refs \in [Points -> Nat] /\ refs[p] = s.refs[p] + 1
        /\ \A x \in Points : x # p => refs[x] = s.refs[x]
    BY <1>2
  <1> HIDE DEF refs, t, q
  <1>6. t.refs = refs /\ t.signalled = s.signalled /\ t.buf = s.buf /\ t.holds = s.holds
    BY <1>1, <1>4
  <1>7. PoolTypes(t)
    <2>1. t \in [buf : [Buffers -> BufferRecord], refs : [Points -> Nat],
                 signalled : SUBSET Points, holds : SUBSET Hold]
      BY <1>4, <1>5, <1>1
    <2> QED BY <2>1, <1>6, <1>1 DEF PoolTypes
  <1>8. \A x \in Points : /\ t.refs[x] = q[x] + ReferredBy(t.holds, x)
                          /\ x \in t.signalled => t.refs[x] = 0
                          /\ x > m => t.refs[x] = 0 /\ x \notin t.signalled
    <2> TAKE x \in Points
    <2>1. x \in Nat /\ p \in Nat BY DEF Points
    <2>2. ReferredBy(s.holds, x) \in Nat BY <1>1, CountsAreNatural
    <2>3. /\ s.refs[x] = Q[x] + ReferredBy(s.holds, x)
          /\ x \in s.signalled => s.refs[x] = 0
          /\ x > n => s.refs[x] = 0 /\ x \notin s.signalled
      BY DEF Counted
    <2>4. CASE x = p BY <2>1, <2>2, <2>3, <2>4, <1>3, <1>5, <1>6 DEF One
    <2>5. CASE x # p BY <2>1, <2>2, <2>3, <2>5, <1>3, <1>5, <1>6 DEF One
    <2> QED BY <2>4, <2>5
  <1>9. Counted(t, R, q, m, {}) BY <1>6, <1>7, <1>8 DEF Counted
  <1> QED BY <1>3, <1>6, <1>9 DEF t, q

\* A hold takes over a lock and a reference.
LEMMA Holds ==
  ASSUME NEW s, NEW R \in [Buffers -> Nat], NEW Q \in [Points -> Nat], NEW n \in Nat,
         NEW h \in Hold, h \notin s.holds,
         Counted(s, Plus(R, h.buffer), Referred(Q, h.point), n, {}),
         h.on \in Gpu => h.buffer = None, s.buf[h.on].locks > 0
  PROVE  LET t == [s EXCEPT !.holds = @ \cup {h}]
         IN Counted(t, R, Q, n, {}) /\ t.holds = s.holds \cup {h}
  <1> DEFINE S == s.holds \cup {h}
             t == [s EXCEPT !.holds = @ \cup {h}]
  <1>1. /\ s \in [buf : [Buffers -> BufferRecord], refs : [Points -> Nat],
                  signalled : SUBSET Points, holds : SUBSET Hold]
        /\ IsFiniteSet(s.holds)
    BY DEF Counted, PoolTypes
  <1>2. t = [s EXCEPT !.holds = S] BY <1>1
  <1>3. /\ IsFiniteSet(S)
        /\ \A b : LockedBy(S, b) = LockedBy(s.holds, b) + One(h.buffer = b)
        /\ \A p : ReferredBy(S, p) = ReferredBy(s.holds, p) + One(h.point = p)
    <2> DEFINE Z == s.holds
    <2>1. IsFiniteSet(Z) /\ Adds(Z, h, S) BY <1>1 DEF Adds
    <2> HIDE DEF Z, S
    <2>2. IsFiniteSet(S) BY <2>1, FS_AddElement DEF Adds
    <2>3. ASSUME NEW b PROVE LockedBy(S, b) = LockedBy(Z, b) + One(h.buffer = b)
      BY <2>1, AnotherHold
    <2>4. ASSUME NEW p PROVE ReferredBy(S, p) = ReferredBy(Z, p) + One(h.point = p)
      BY <2>1, AnotherHold
    <2> QED BY <2>2, <2>3, <2>4 DEF Z
  <1>4. S \in SUBSET Hold
    <2>1. s.holds \in SUBSET Hold BY <1>1
    <2> QED BY <2>1
  <1>5. \A x \in S : x \in s.holds \/ x = h OBVIOUS
  <1> HIDE DEF S, t
  <1>6. t.refs = s.refs /\ t.signalled = s.signalled /\ t.buf = s.buf /\ t.holds = S
    BY <1>1, <1>2
  <1>7. PoolTypes(t)
    <2>1. t \in [buf : [Buffers -> BufferRecord], refs : [Points -> Nat],
                 signalled : SUBSET Points, holds : SUBSET Hold]
      BY <1>1, <1>2, <1>4
    <2> QED BY <2>1, <1>3, <1>6 DEF PoolTypes
  <1>8. \A b \in Buffers : /\ t.buf[b].locks = R[b] + LockedBy(t.holds, b)
                           /\ t.buf[b].locks > 0 => t.buf[b].made
                           /\ t.buf[b].resource => t.buf[b].made
    <2> TAKE b \in Buffers
    <2>1. LockedBy(s.holds, b) \in Nat BY <1>1, CountsAreNatural
    <2>2. /\ s.buf[b].locks = R[b] + One(b = h.buffer) + LockedBy(s.holds, b)
          /\ s.buf[b].locks > 0 => s.buf[b].made
          /\ s.buf[b].resource => s.buf[b].made
      BY DEF Counted, Plus
    <2>3. /\ t.buf[b] = s.buf[b] /\ LockedBy(t.holds, b) = LockedBy(s.holds, b) + One(h.buffer = b)
          /\ R[b] \in Nat
      BY <1>3, <1>6
    <2>4. CASE h.buffer = b BY <2>1, <2>2, <2>3, <2>4 DEF One
    <2>5. CASE h.buffer # b BY <2>1, <2>2, <2>3, <2>5 DEF One
    <2> QED BY <2>4, <2>5
  <1>9. \A p \in Points : /\ t.refs[p] = Q[p] + ReferredBy(t.holds, p)
                          /\ p \in t.signalled => t.refs[p] = 0
                          /\ p > n => t.refs[p] = 0 /\ p \notin t.signalled
    <2> TAKE p \in Points
    <2>1. ReferredBy(s.holds, p) \in Nat BY <1>1, CountsAreNatural
    <2>2. /\ s.refs[p] = Q[p] + One(p = h.point) + ReferredBy(s.holds, p)
          /\ p \in s.signalled => s.refs[p] = 0
          /\ p > n => s.refs[p] = 0 /\ p \notin s.signalled
      BY DEF Counted, Referred
    <2>3. /\ t.refs[p] = s.refs[p] /\ ReferredBy(t.holds, p) = ReferredBy(s.holds, p) + One(h.point = p)
          /\ Q[p] \in Nat /\ t.signalled = s.signalled
      BY <1>3, <1>6
    <2>4. CASE h.point = p BY <2>1, <2>2, <2>3, <2>4 DEF One
    <2>5. CASE h.point # p BY <2>1, <2>2, <2>3, <2>5 DEF One
    <2> QED BY <2>4, <2>5
  <1>10. \A x \in t.holds : /\ x.on \in Gpu => x.buffer = None
                            /\ x.on \notin {} => t.buf[x.on].locks > 0
    BY <1>5, <1>6 DEF Counted
  <1>11. Counted(t, R, Q, n, {}) BY <1>7, <1>8, <1>9, <1>10 DEF Counted
  <1> QED BY <1>6, <1>11 DEF t, S

\* The counts speak of the users only.
LEMMA SameUsers ==
  ASSUME NEW s, NEW R, NEW Q, NEW n \in Nat, NEW B, Counted(s, R, Q, n, B),
         NEW r, NEW q, NEW m \in Nat, n <= m,
         \A b \in Buffers : R[b] = r[b], \A p \in Points : Q[p] = q[p]
  PROVE  Counted(s, r, q, m, B)
  <1>1. \A p \in Points : /\ s.refs[p] = q[p] + ReferredBy(s.holds, p)
                          /\ p \in s.signalled => s.refs[p] = 0
                          /\ p > m => s.refs[p] = 0 /\ p \notin s.signalled
    BY DEF Counted, Points
  <1> QED BY <1>1 DEF Counted

\* Buffers are dropped.
LEMMA Drops ==
  ASSUME NEW s, NEW R \in [Buffers -> Nat], NEW Q \in [Points -> Nat], NEW n \in Nat,
         NEW B \in SUBSET Buffers, Counted(s, R, Q, n, {})
  PROVE  LET t == buffer_drop(s, B)
         IN Counted(t, R, Q, n, {}) /\ t.holds = s.holds
  <1> DEFINE buf == [b \in Buffers |-> IF b \in B THEN [s.buf[b] EXCEPT !.dropped = TRUE, !.resource = FALSE]
                                                ELSE s.buf[b]]
             u == [s EXCEPT !.buf = buf]
  <1>1. /\ s \in [buf : [Buffers -> BufferRecord], refs : [Points -> Nat],
                  signalled : SUBSET Points, holds : SUBSET Hold]
        /\ IsFiniteSet(s.holds)
    BY DEF Counted, PoolTypes
  <1>2. /\ s.buf \in [Buffers -> BufferRecord] /\ s.holds \in SUBSET Hold BY <1>1
  <1>3. ASSUME NEW b \in Buffers
        PROVE  /\ buf[b] \in BufferRecord /\ buf[b].locks = s.buf[b].locks /\ buf[b].made = s.buf[b].made
               /\ buf[b].resource => s.buf[b].resource
    <2>1. s.buf[b] \in BufferRecord BY <1>2
    <2>2. CASE b \in B BY <2>1, <2>2 DEF BufferRecord
    <2>3. CASE b \notin B BY <2>1, <2>3
    <2> QED BY <2>2, <2>3
  <1>4. buf \in [Buffers -> BufferRecord] BY <1>3
  <1> HIDE DEF buf
  <1>5. u.buf = buf /\ u.refs = s.refs /\ u.signalled = s.signalled /\ u.holds = s.holds
    BY <1>1
  <1>6. PoolTypes(u)
    <2>1. u \in [buf : [Buffers -> BufferRecord], refs : [Points -> Nat],
                 signalled : SUBSET Points, holds : SUBSET Hold]
      BY <1>1, <1>4
    <2> HIDE DEF u
    <2> QED BY <2>1, <1>1, <1>5 DEF PoolTypes
  <1>7. buffer_drop(s, B) = buffer_consider(u, B) BY DEF buffer_drop, buf
  <1> HIDE DEF u
  <1>8. \A b \in Buffers : /\ u.buf[b].locks = R[b] + LockedBy(u.holds, b)
                           /\ u.buf[b].locks > 0 => u.buf[b].made
                           /\ u.buf[b].resource => u.buf[b].made
    <2> TAKE b \in Buffers
    <2> QED BY <1>3, <1>5 DEF Counted
  <1>9. \A h \in u.holds : /\ h.on \in Gpu => h.buffer = None
                           /\ h.on \notin {} => u.buf[h.on].locks > 0
    <2> TAKE h \in u.holds
    <2>1. h.on \in Buffers BY <1>5, <1>2 DEF Hold, Buffers
    <2>2. (h.on \in Gpu => h.buffer = None) /\ s.buf[h.on].locks > 0 BY <1>5 DEF Counted
    <2> QED BY <2>1, <2>2, <1>3, <1>5
  <1>10. \A p \in Points : /\ u.refs[p] = Q[p] + ReferredBy(u.holds, p)
                           /\ p \in u.signalled => u.refs[p] = 0
                           /\ p > n => u.refs[p] = 0 /\ p \notin u.signalled
    BY <1>5 DEF Counted
  <1>11. Counted(u, R, Q, n, {}) BY <1>6, <1>8, <1>9, <1>10 DEF Counted
  <1>12. Counted(buffer_drop(s, B), R, Q, n, {}) /\ buffer_drop(s, B).holds = u.holds
    BY <1>7, <1>11, Considered
  <1> QED BY <1>5, <1>12

\* Who is counted is there, and a point that is referred to is not reached.
LEMMA Counts ==
  ASSUME NEW s, NEW R \in [Buffers -> Nat], NEW Q \in [Points -> Nat], NEW n \in Nat,
         Counted(s, R, Q, n, {})
  PROVE  /\ IsFiniteSet(s.holds) /\ s.holds \in SUBSET Hold
         /\ \A b \in Buffers : /\ s.buf[b] \in BufferRecord
                               /\ s.buf[b].locks = R[b] + LockedBy(s.holds, b)
                               /\ LockedBy(s.holds, b) \in Nat
                               /\ R[b] > 0 => s.buf[b].locks > 0 /\ s.buf[b].made
         /\ \A p \in Points : Q[p] > 0 => p <= n /\ p \notin s.signalled
         /\ \A h \in s.holds : /\ h.on \in Buffers /\ s.buf[h.on].locks > 0
                               /\ h.buffer \in Buffers => s.buf[h.buffer].locks > 0
                               /\ h.point \in Points => h.point \notin s.signalled
  <1>1. /\ s \in [buf : [Buffers -> BufferRecord], refs : [Points -> Nat],
                  signalled : SUBSET Points, holds : SUBSET Hold]
        /\ IsFiniteSet(s.holds)
    BY DEF Counted, PoolTypes
  <1>2. s.buf \in [Buffers -> BufferRecord] /\ s.holds \in SUBSET Hold BY <1>1
  <1>3. \A x : LockedBy(s.holds, x) \in Nat /\ ReferredBy(s.holds, x) \in Nat BY <1>1, CountsAreNatural
  <1>4. \A b \in Buffers : /\ s.buf[b].locks = R[b] + LockedBy(s.holds, b)
                           /\ s.buf[b].locks > 0 => s.buf[b].made
    BY DEF Counted
  <1>5. \A b \in Buffers : /\ s.buf[b] \in BufferRecord
                           /\ s.buf[b].locks = R[b] + LockedBy(s.holds, b)
                           /\ LockedBy(s.holds, b) \in Nat
                           /\ R[b] > 0 => s.buf[b].locks > 0 /\ s.buf[b].made
    BY <1>2, <1>3, <1>4
  <1>6. \A p \in Points : /\ s.refs[p] = Q[p] + ReferredBy(s.holds, p)
                          /\ p \in s.signalled => s.refs[p] = 0
                          /\ p > n => s.refs[p] = 0
    BY DEF Counted
  <1>7. \A p \in Points : Q[p] > 0 => p <= n /\ p \notin s.signalled
    <2> TAKE p \in Points
    <2>1. p \in Nat /\ Q[p] \in Nat /\ ReferredBy(s.holds, p) \in Nat BY <1>3 DEF Points
    <2> QED BY <2>1, <1>6
  <1>8. \A h \in s.holds : /\ h.on \in Buffers /\ s.buf[h.on].locks > 0
                           /\ h.buffer \in Buffers => s.buf[h.buffer].locks > 0
                           /\ h.point \in Points => h.point \notin s.signalled
    <2> TAKE h \in s.holds
    <2>1. h.on \in Buffers /\ s.buf[h.on].locks > 0 BY <1>2 DEF Counted, Hold, Buffers
    <2>2. LockedBy(s.holds, h.buffer) > 0 /\ ReferredBy(s.holds, h.point) > 0 BY <1>1, HoldCounts
    <2>3. ASSUME h.buffer \in Buffers PROVE s.buf[h.buffer].locks > 0
      <3>1. R[h.buffer] \in Nat /\ LockedBy(s.holds, h.buffer) \in Nat BY <2>3, <1>3
      <3> QED BY <3>1, <2>2, <2>3, <1>4
    <2>4. ASSUME h.point \in Points PROVE h.point \notin s.signalled
      <3>1. Q[h.point] \in Nat /\ ReferredBy(s.holds, h.point) \in Nat BY <2>4, <1>3
      <3> QED BY <3>1, <2>2, <2>4, <1>6
    <2> QED BY <2>1, <2>3, <2>4
  <1> QED BY <1>1, <1>2, <1>5, <1>7, <1>8

\* A frame that reads the surface holds what it reads.
LEMMA FrameHolds ==
  ASSUME NEW s, NEW R \in [Buffers -> Nat], NEW Q \in [Points -> Nat], NEW n \in Nat,
         Counted(s, R, Q, n, {}), WinTypes, NEW b \in Gpu \cup RingBuffers, R[b] > 0,
         b \in Gpu => win.kept = b, win.kept \in Gpu => R[win.kept] > 0,
         win.release # 0 => Q[win.release] > 0, Unheld(s) # {}
  PROVE  LET t == surface_release_after(s, b)
         IN /\ Counted(t, R, Q, n, {})
            /\ s.holds \in SUBSET t.holds
            /\ HeldFor(b, Drawn, t.holds)
  <1> DEFINE t == surface_release_after(s, b)
             p == win.release
             read == IF p = 0 /\ win.kept \in Gpu /\ win.kept # b THEN win.kept ELSE None
             c == IF p = 0 THEN s ELSE [s EXCEPT !.refs[p] = @ + 1]
             l == buffer_lock(c, read)
             h == [id |-> CHOOSE i \in Unheld(s) : TRUE, on |-> b, point |-> p, buffer |-> read]
  <1>1. /\ p \in Points \cup {0} /\ win.kept \in Gpu \cup {None} /\ b \in Buffers
        /\ win.texture \in Gpu => win.kept = win.texture
    BY DEF WinTypes, Buffers
  <1>2. read \in Gpu \cup {None} /\ read \in Buffers \cup {None} BY <1>1 DEF Buffers
  <1>3. CASE p = 0 /\ read = None
    <2>1. t = s BY <1>3 DEF surface_release_after
    <2>2. win.texture \in Gpu => win.texture = b BY <1>1, <1>3, Apart DEF Buffers
    <2>3. HeldFor(b, Drawn, s.holds) BY <2>2, <1>3 DEF HeldFor, Drawn
    <2> QED BY <2>1, <2>3
  <1>4. CASE ~(p = 0 /\ read = None)
    <2>1. t = [l EXCEPT !.holds = @ \cup {h}] BY <1>4 DEF surface_release_after
    <2>2. Referred(Q, p) \in [Points -> Nat] BY DEF Referred, One
    <2>3. Counted(c, R, Referred(Q, p), n, {}) /\ c.holds = s.holds /\ c.buf = s.buf
      <3>1. CASE p = 0
        <4>1. \A x \in Points : Q[x] = Referred(Q, p)[x] BY <3>1 DEF Referred, One, Points
        <4> QED BY <4>1, <3>1, SameUsers
      <3>2. CASE p # 0
        <4> DEFINE k == s.refs[p] + 1
        <4>1. p \in Points /\ p \notin s.signalled /\ p <= n BY <3>2, <1>1, Counts
        <4>2. s \in [buf : [Buffers -> BufferRecord], refs : [Points -> Nat],
                     signalled : SUBSET Points, holds : SUBSET Hold]
          BY DEF Counted, PoolTypes
        <4>3. c = [s EXCEPT !.refs[p] = k] BY <3>2, <4>1, <4>2
        <4>4. k = s.refs[p] + 1 OBVIOUS
        <4> HIDE DEF c, k, p
        <4>5. n <= n OBVIOUS
        <4>6. /\ Counted([s EXCEPT !.refs[p] = k], R, Referred(Q, p), n, {})
              /\ [s EXCEPT !.refs[p] = k].holds = s.holds /\ [s EXCEPT !.refs[p] = k].buf = s.buf
          BY <4>1, <4>4, <4>5, References
        <4> QED BY <4>3, <4>6
      <3> QED BY <3>1, <3>2
    <2> HIDE DEF c, p
    <2>4. read # None => R[read] > 0 BY <1>2
    <2> HIDE DEF read
    <2>5. read # None => c.buf[read].made BY <2>3, <2>4, <1>2, Counts
    <2>6. /\ Counted(l, Plus(R, read), Referred(Q, p), n, {}) /\ l.holds = s.holds
          /\ Plus(R, read) \in [Buffers -> Nat]
      BY <2>2, <2>3, <2>5, <1>2, Locks
    <2> HIDE DEF l
    <2>7. l.buf[b].locks > 0
      <3>1. Plus(R, read)[b] > 0
        <4>1. Plus(R, read)[b] = R[b] + One(b = read) /\ R[b] \in Nat BY <1>1 DEF Plus
        <4> QED BY <4>1 DEF One
      <3> QED BY <3>1, <2>2, <2>6, <1>1, Counts
    <2>8. h \in Hold /\ h \notin l.holds /\ h.buffer = read /\ h.point = p /\ h.on = b
      <3>1. (CHOOSE i \in Unheld(s) : TRUE) \in Unheld(s) OBVIOUS
      <3>2. h.id \in Holders /\ \A g \in s.holds : g.id # h.id BY <3>1 DEF Unheld
      <3> QED BY <3>2, <2>6, <1>1, <1>2 DEF Hold
    <2>9. b \in Gpu => read = None BY <1>1 DEF read
    <2> HIDE DEF h, t
    <2>10. Counted(t, R, Q, n, {}) /\ t.holds = l.holds \cup {h}
      <3>1. /\ Counted([l EXCEPT !.holds = @ \cup {h}], R, Q, n, {})
            /\ [l EXCEPT !.holds = @ \cup {h}].holds = l.holds \cup {h}
        BY <2>6, <2>7, <2>8, <2>9, Holds
      <3> QED BY <3>1, <2>1
    <2>11. HeldFor(b, Drawn, t.holds)
      <3>1. h \in t.holds BY <2>10
      <3>2. SUFFICES ASSUME win.texture \in Gpu
                     PROVE  IF p = 0
                            THEN win.texture = b \/ \E g \in t.holds : g.on = b /\ g.buffer = win.texture
                            ELSE \E g \in t.holds : g.on = b /\ g.point = p
        BY DEF HeldFor, Drawn, p
      <3>3. CASE p # 0 BY <3>1, <3>3, <2>8
      <3>4. CASE p = 0
        <4>1. win.kept = win.texture /\ win.kept # None BY <3>2, <1>1, Apart DEF Buffers
        <4>2. win.kept = b \/ read = win.kept BY <3>2, <3>4, <4>1 DEF read
        <4> QED BY <3>1, <3>4, <4>1, <4>2, <2>8
      <3> QED BY <3>3, <3>4
    <2> QED BY <2>6, <2>10, <2>11 DEF t
  <1> QED BY <1>3, <1>4

LEMMA UsesTyped == Uses \in [Buffers -> Nat] /\ Refers \in [Points -> Nat]
  BY DEF Uses, Refers, Users, One

LEMMA UsesTypedNext == Uses' \in [Buffers -> Nat] /\ Refers' \in [Points -> Nat]
  BY DEF Uses, Refers, Users, One

\* A buffer somebody uses is used.
LEMMA InUse ==
  ASSUME NEW b \in Buffers,
         \/ b \in {win.pending, win.kept, win.texture}
         \/ b \in {output.queued, output.current, output.presented[1], output.presented[2]}
  PROVE  Uses[b] > 0
  BY DEF Uses, Users, One

LEMMA InUseNext ==
  ASSUME NEW b \in Buffers,
         \/ b \in {win.pending', win.kept', win.texture'}
         \/ b \in {output.queued', output.current', output.presented[1]', output.presented[2]'}
  PROVE  Uses'[b] > 0
  BY DEF Uses, Users, One

\* What is shown stays held while the output does not change and its holds stay.
LEMMA StillHeld ==
  ASSUME DrawnIsHeld, output' = output,
         \A h \in pool.holds : h.on \in {output.queued, output.current} => h \in pool.holds'
  PROVE  DrawnIsHeld'
  BY DEF DrawnIsHeld, HeldFor

LEMMA CreateBufferKept ==
  ASSUME BuffersInv, NEW b \in Shm \cup Gpu, CreateBuffer(b)
  PROVE  BuffersInv'
  <1> DEFINE e == [NoBuffer EXCEPT !.made = TRUE, !.resource = TRUE]
             buf == [pool.buf EXCEPT ![b] = e]
  <1>1. /\ pool \in [buf : [Buffers -> BufferRecord], refs : [Points -> Nat],
                     signalled : SUBSET Points, holds : SUBSET Hold]
        /\ IsFiniteSet(pool.holds)
    BY DEF BuffersInv, Counted, PoolTypes
  <1>2. b \in Buffers BY DEF Buffers
  <1>3. pool' = [pool EXCEPT !.buf = buf] /\ ~pool.buf[b].made /\ win' = win /\ output' = output
    BY <1>1 DEF CreateBuffer
  <1>4. e \in BufferRecord /\ e.made /\ e.locks = 0 BY DEF NoBuffer, BufferRecord
  <1> HIDE DEF e
  <1>5. /\ buf \in [Buffers -> BufferRecord] /\ buf[b] = e
        /\ \A x \in Buffers : x # b => buf[x] = pool.buf[x]
    BY <1>1, <1>2, <1>4
  <1> HIDE DEF buf
  <1>6. /\ pool.buf' = buf /\ pool.refs' = pool.refs /\ pool.signalled' = pool.signalled
        /\ pool.holds' = pool.holds
    BY <1>1, <1>3
  <1>7. Uses' = Uses /\ Refers' = Refers BY <1>3 DEF Uses, Refers, Users
  <1>8. Counted(pool, Uses, Refers, win.number, {}) BY DEF BuffersInv
  <1>9. win.number \in Nat BY DEF BuffersInv, WinTypes
  <1>10. pool.buf[b].locks = 0
    <2>1. pool.buf[b].locks > 0 => pool.buf[b].made BY <1>2, <1>8 DEF Counted
    <2>2. pool.buf[b].locks \in Nat BY <1>1, <1>2 DEF BufferRecord
    <2> QED BY <2>1, <2>2, <1>3
  <1>11. Counted(pool', Uses, Refers, win.number, {})
    <2>1. PoolTypes(pool')
      <3>1. pool' \in [buf : [Buffers -> BufferRecord], refs : [Points -> Nat],
                       signalled : SUBSET Points, holds : SUBSET Hold]
        BY <1>1, <1>3, <1>5
      <3> QED BY <3>1, <1>1, <1>6 DEF PoolTypes
    <2>2. \A x \in Buffers : /\ pool'.buf[x].locks = Uses[x] + LockedBy(pool'.holds, x)
                             /\ pool'.buf[x].locks > 0 => pool'.buf[x].made
                             /\ pool'.buf[x].resource => pool'.buf[x].made
      <3> TAKE x \in Buffers
      <3>1. /\ pool.buf[x].locks = Uses[x] + LockedBy(pool.holds, x)
            /\ pool.buf[x].locks > 0 => pool.buf[x].made
            /\ pool.buf[x].resource => pool.buf[x].made
        BY <1>8 DEF Counted
      <3>2. CASE x = b BY <3>1, <3>2, <1>4, <1>5, <1>6, <1>10
      <3>3. CASE x # b BY <3>1, <3>3, <1>5, <1>6
      <3> QED BY <3>2, <3>3
    <2>3. \A h \in pool'.holds : /\ h.on \in Gpu => h.buffer = None
                                 /\ h.on \notin {} => pool'.buf[h.on].locks > 0
      <3> TAKE h \in pool'.holds
      <3>1. h.on \in Buffers /\ pool.buf[h.on].locks > 0
        BY <1>6, <1>8, <1>9, UsesTyped, Counts
      <3>2. h.on \in Gpu => h.buffer = None BY <1>6, <1>8 DEF Counted
      <3>3. h.on # b BY <3>1, <1>10
      <3> QED BY <3>1, <3>2, <3>3, <1>5, <1>6
    <2>4. \A p \in Points : /\ pool'.refs[p] = Refers[p] + ReferredBy(pool'.holds, p)
                            /\ p \in pool'.signalled => pool'.refs[p] = 0
                            /\ p > win.number => pool'.refs[p] = 0 /\ p \notin pool'.signalled
      BY <1>6, <1>8 DEF Counted
    <2> QED BY <2>1, <2>2, <2>3, <2>4 DEF Counted
  <1>12. WinTypes' /\ OutputTypes' /\ AskedOfPast' /\ PresentedIsShown'
    BY <1>3 DEF BuffersInv, WinTypes, OutputTypes, AskedOfPast, PresentedIsShown
  <1>13. DrawnIsHeld' BY <1>3, <1>6, StillHeld DEF BuffersInv
  <1> QED BY <1>3, <1>7, <1>11, <1>12, <1>13 DEF BuffersInv

LEMMA DropKept ==
  ASSUME BuffersInv, NEW B \in SUBSET Buffers, pool' = buffer_drop(pool, B), UNCHANGED <<win, output>>
  PROVE  BuffersInv'
  <1>1. Counted(pool, Uses, Refers, win.number, {}) /\ win.number \in Nat BY DEF BuffersInv, WinTypes
  <1>2. Counted(pool', Uses, Refers, win.number, {}) /\ pool'.holds = pool.holds
    BY <1>1, UsesTyped, Drops
  <1>3. Uses' = Uses /\ Refers' = Refers BY DEF Uses, Refers, Users
  <1>4. WinTypes' /\ OutputTypes' /\ AskedOfPast' /\ PresentedIsShown'
    BY DEF BuffersInv, WinTypes, OutputTypes, AskedOfPast, PresentedIsShown
  <1>5. DrawnIsHeld' BY <1>2, StillHeld DEF BuffersInv
  <1> QED BY <1>2, <1>3, <1>4, <1>5 DEF BuffersInv

LEMMA FeedbackKept ==
  ASSUME BuffersInv, presentation_feedback
  PROVE  BuffersInv'
  <1>1. WinTypes' /\ win.number' = win.number /\ win.current' = win.current
    BY DEF BuffersInv, WinTypes, presentation_feedback
  <1>2. pool' = pool /\ output' = output BY DEF presentation_feedback
  <1>3. Uses' = Uses /\ Refers' = Refers
    BY DEF Uses, Refers, Users, presentation_feedback, BuffersInv, WinTypes
  <1>4. OutputTypes' /\ AskedOfPast' /\ PresentedIsShown' /\ DrawnIsHeld'
    BY <1>1, <1>2 DEF BuffersInv, OutputTypes, AskedOfPast, PresentedIsShown, DrawnIsHeld
  <1> QED BY <1>1, <1>2, <1>3, <1>4 DEF BuffersInv

\* The surface lets go of what it used before, and uses other buffers.
LEMMA WinKept ==
  ASSUME BuffersInv, output' = output, WinTypes', AskedOfPast', win.number <= win.number',
         NEW R \in [Buffers -> Nat], NEW Q \in [Points -> Nat],
         Counted(pool', R, Q, win.number', {}),
         \A x \in Buffers : R[x] = Uses'[x], \A p \in Points : Q[p] = Refers'[p],
         \A h \in pool.holds : R[h.on] > 0 => h \in pool.holds'
  PROVE  BuffersInv'
  <1>1. Counted(pool', Uses', Refers', win.number', {})
    BY UsesTypedNext, SameUsers DEF WinTypes
  <1>2. OutputTypes' /\ PresentedIsShown' BY DEF BuffersInv, OutputTypes, PresentedIsShown
  <1>3. DrawnIsHeld'
    <2>1. ASSUME NEW h \in pool.holds, h.on \in {output.queued, output.current}
          PROVE  h \in pool.holds'
      <3>1. h.on \in Buffers
        <4>1. Counted(pool, Uses, Refers, win.number, {}) /\ win.number \in Nat BY DEF BuffersInv, WinTypes
        <4> QED BY <4>1, UsesTyped, Counts
      <3>2. Uses'[h.on] > 0 BY <2>1, <3>1, InUseNext
      <3> QED BY <3>1, <3>2
    <2> QED BY <2>1, StillHeld DEF BuffersInv
  <1> QED BY <1>1, <1>2, <1>3 DEF BuffersInv

LEMMA AttachKept ==
  ASSUME BuffersInv, NEW b \in Shm \cup Gpu \cup {None}, NEW sync \in BOOLEAN, surface_attach(b, sync)
  PROVE  BuffersInv'
  <1> DEFINE s1 == buffer_lock(pool, b)
             R1 == Plus(Uses, b)
             R2 == Minus(R1, win.pending)
  <1>1. /\ Counted(pool, Uses, Refers, win.number, {}) /\ win.number \in Nat /\ WinTypes
        /\ win.pending \in Shm \cup Gpu \cup {None} /\ AskedOfPast
    BY DEF BuffersInv, WinTypes
  <1>2. /\ b # None => pool.buf[b].resource
        /\ pool' = buffer_unlock(s1, win.pending)
        /\ win' = [win EXCEPT !.pending = b, !.attached = TRUE, !.sync = sync] /\ output' = output
    BY DEF surface_attach
  <1>3. b \in Buffers \cup {None} /\ win.pending \in Buffers \cup {None} BY <1>1 DEF Buffers
  <1>4. b # None => pool.buf[b].made BY <1>1, <1>2, <1>3 DEF Counted
  <1>5. /\ Counted(s1, R1, Refers, win.number, {}) /\ R1 \in [Buffers -> Nat] /\ s1.holds = pool.holds
    BY <1>1, <1>3, <1>4, UsesTyped, Locks
  <1>6. \A x \in Buffers : R1[x] = Uses[x] + One(x = b) /\ Uses[x] \in Nat BY UsesTyped DEF Plus
  <1>7. \A x \in Buffers : R2[x] = R1[x] - One(x = win.pending) BY DEF Minus
  <1>8. win.pending # None => R1[win.pending] > 0
    <2>1. SUFFICES ASSUME win.pending # None PROVE R1[win.pending] > 0 OBVIOUS
    <2>2. Uses[win.pending] > 0 BY <1>3, <2>1, InUse
    <2> HIDE DEF R1
    <2> QED BY <1>3, <1>6, <2>1, <2>2 DEF One
  <1> HIDE DEF s1, R1
  <1>9. /\ Counted(pool', R2, Refers, win.number, {}) /\ R2 \in [Buffers -> Nat]
        /\ \A h \in s1.holds : R2[h.on] > 0 => h \in pool'.holds
    BY <1>1, <1>2, <1>3, <1>5, <1>8, UsesTyped, Unlocks
  <1> HIDE DEF R2
  <1>10. /\ WinTypes' /\ AskedOfPast' /\ win.number' = win.number /\ win.pending' = b
        /\ win.kept' = win.kept /\ win.texture' = win.texture /\ win.release' = win.release
    BY <1>1, <1>2 DEF WinTypes, AskedOfPast
  <1>11. \A x \in Buffers : R2[x] = Uses'[x]
    <2> TAKE x \in Buffers
    <2>1. Uses'[x] = Uses[x] + One(b = x) - One(win.pending = x)
      BY <1>2, <1>10 DEF Uses, Users, One
    <2>2. CASE b = x BY <2>1, <2>2, <1>6, <1>7 DEF One
    <2>3. CASE b # x BY <2>1, <2>3, <1>6, <1>7 DEF One
    <2> QED BY <2>2, <2>3
  <1>12. Refers' = Refers BY <1>10 DEF Refers
  <1> QED BY <1>1, <1>2, <1>5, <1>9, <1>10, <1>11, <1>12, UsesTyped, WinKept

\* What a texture owns.
LEMMA OwnedIs ==
  ASSUME NEW t \in Textures
  PROVE  /\ Owned(t) \in Gpu \cup {None} /\ Owned(t) \in Buffers \cup {None}
         /\ \A x \in Buffers : x = Owned(t) <=> t = x
  BY Apart DEF Owned, Textures, Buffers

\* How often the surface uses a buffer.
LEMMA WinUses ==
  ASSUME WinTypes, NEW x \in Buffers
  PROVE  /\ Uses[x] \in Nat
         /\ Uses[x] >= One(x = win.pending) + One(x = win.kept) + One(x = Owned(win.texture))
         /\ x \in {output.queued, output.current} =>
              Uses[x] > One(x = win.pending) + One(x = win.kept) + One(x = Owned(win.texture))
  <1>1. x = Owned(win.texture) <=> win.texture = x BY OwnedIs DEF WinTypes
  <1> HIDE DEF WinTypes
  <1> QED BY <1>1 DEF Uses, Users, One

LEMMA SurfaceGoesKept ==
  ASSUME BuffersInv, SurfaceGoes
  PROVE  BuffersInv'
  <1> DEFINE o == Owned(win.texture)
             s1 == release_unref(pool, win.release)
             s2 == buffer_unlock(s1, win.pending)
             s3 == buffer_unlock(s2, o)
             Q1 == Unreferred(Refers, win.release)
             R2 == Minus(Uses, win.pending)
             R3 == Minus(R2, o)
             R4 == Minus(R3, win.kept)
  <1>1. /\ Counted(pool, Uses, Refers, win.number, {}) /\ win.number \in Nat /\ WinTypes
        /\ win.pending \in Buffers \cup {None} /\ win.release \in Points \cup {0}
        /\ win.kept \in Buffers \cup {None} /\ win.texture \in Textures /\ AskedOfPast
    BY DEF BuffersInv, WinTypes, Buffers
  <1>2. /\ pool' = buffer_unlock(s3, win.kept) /\ output' = output
        /\ win' = [win EXCEPT !.pending = None, !.attached = FALSE, !.sync = FALSE, !.kept = None,
                              !.texture = None, !.release = 0, !.feedback = FALSE, !.current = {}]
    BY DEF SurfaceGoes
  <1>3. o \in Buffers \cup {None} /\ \A x \in Buffers : x = o <=> win.texture = x BY <1>1, OwnedIs
  <1>4. \A x \in Buffers : /\ Uses[x] \in Nat /\ R2[x] = Uses[x] - One(x = win.pending)
                           /\ R3[x] = R2[x] - One(x = o) /\ R4[x] = R3[x] - One(x = win.kept)
    BY <1>1, WinUses DEF Minus
  <1>5. \A x \in Buffers : Uses[x] >= One(x = win.pending) + One(x = win.kept) + One(x = o)
    BY <1>1, WinUses
  <1>6. win.release # 0 => Refers[win.release] > 0 BY <1>1 DEF Refers, One
  <1>7. /\ Counted(s1, Uses, Q1, win.number, {}) /\ Q1 \in [Points -> Nat] /\ s1.holds = pool.holds
    BY <1>1, <1>6, UsesTyped, Unrefs
  <1>8. Q1 = Unreferred(Refers, win.release) OBVIOUS
  <1> HIDE DEF s1, Q1, R2, R3, R4, o
  <1>9. win.pending # None => Uses[win.pending] > 0
    <2>1. SUFFICES ASSUME win.pending # None PROVE Uses[win.pending] > 0 OBVIOUS
    <2>2. win.pending \in Buffers BY <1>1, <2>1
    <2> QED BY <2>2, InUse
  <1>10. /\ Counted(s2, R2, Q1, win.number, {}) /\ R2 \in [Buffers -> Nat]
        /\ \A h \in s1.holds : R2[h.on] > 0 => h \in s2.holds
    BY <1>1, <1>7, <1>9, UsesTyped, Unlocks DEF R2
  <1> HIDE DEF s2
  <1>11. o # None => R2[o] > 0
    <2>1. SUFFICES ASSUME o # None PROVE R2[o] > 0 OBVIOUS
    <2>2. o \in Buffers BY <1>3, <2>1
    <2> QED BY <2>2, <1>4, <1>5 DEF One
  <1>12. /\ Counted(s3, R3, Q1, win.number, {}) /\ R3 \in [Buffers -> Nat]
         /\ \A h \in s2.holds : R3[h.on] > 0 => h \in s3.holds
    BY <1>1, <1>3, <1>7, <1>10, <1>11, Unlocks DEF R3
  <1> HIDE DEF s3
  <1>13. win.kept # None => R3[win.kept] > 0
    <2>1. SUFFICES ASSUME win.kept # None PROVE R3[win.kept] > 0 OBVIOUS
    <2>2. win.kept \in Buffers BY <1>1, <2>1
    <2> QED BY <2>2, <1>4, <1>5 DEF One
  <1>14. /\ Counted(pool', R4, Q1, win.number, {}) /\ R4 \in [Buffers -> Nat]
         /\ \A h \in s3.holds : R4[h.on] > 0 => h \in pool'.holds
    BY <1>1, <1>2, <1>7, <1>12, <1>13, Unlocks DEF R4
  <1>15. /\ WinTypes' /\ AskedOfPast' /\ win.number' = win.number /\ win.pending' = None
         /\ win.kept' = None /\ win.texture' = None /\ win.release' = 0
    <2>1. win.number \in Nat /\ None \notin Gpu BY <1>1, Apart DEF Buffers
    <2>2. /\ win.number' = win.number /\ win.pending' = None /\ win.current' = {} /\ win.attached' = FALSE
          /\ win.kept' = None /\ win.texture' = None /\ win.release' = 0
      BY <1>1, <1>2 DEF WinTypes
    <2>3. win' \in [number : Nat, pending : Shm \cup Gpu \cup {None}, attached : BOOLEAN, sync : BOOLEAN,
                    kept : Gpu \cup {None}, texture : Textures, release : Points \cup {0},
                    feedback : BOOLEAN, current : SUBSET Nat]
      BY <1>1, <1>2 DEF WinTypes, Textures
    <2>4. WinTypes' BY <2>1, <2>2, <2>3 DEF WinTypes
    <2>5. AskedOfPast' BY <1>1, <1>2, <2>2 DEF AskedOfPast
    <2> QED BY <2>2, <2>4, <2>5
  <1>16. \A x \in Buffers : R4[x] = Uses'[x]
    <2> TAKE x \in Buffers
    <2>1. Uses'[x] = Uses[x] - One(win.pending = x) - One(win.kept = x) - One(win.texture = x)
      BY <1>2, <1>15, Apart DEF Uses, Users, One
    <2>2. One(win.pending = x) = One(x = win.pending) /\ One(win.kept = x) = One(x = win.kept)
          /\ One(win.texture = x) = One(x = o)
      BY <1>3 DEF One
    <2>3. One(x = win.pending) \in Int /\ One(x = win.kept) \in Int /\ One(x = o) \in Int BY DEF One
    <2> QED BY <2>1, <2>2, <2>3, <1>4
  <1>17. \A p \in Points : Q1[p] = Refers'[p]
    BY <1>1, <1>15, <1>8 DEF Refers, Unreferred, One, Points
  <1>18. \A h \in pool.holds : R4[h.on] > 0 => h \in pool.holds'
    <2> TAKE h \in pool.holds
    <2>1. h.on \in Buffers BY <1>1, UsesTyped, Counts
    <2>2. R4[h.on] > 0 => R2[h.on] > 0 /\ R3[h.on] > 0
      BY <2>1, <1>4, <1>10, <1>12, <1>14 DEF One
    <2> QED BY <2>2, <1>7, <1>10, <1>12, <1>14
  <1> QED BY <1>1, <1>2, <1>7, <1>14, <1>15, <1>16, <1>17, <1>18, WinKept

LEMMA CommitKept ==
  ASSUME BuffersInv, NEW ok \in BOOLEAN, CommitBuffer(ok)
  PROVE  BuffersInv'
  <1> DEFINE b == win.pending
             number == IF win.attached THEN win.number + 1 ELSE win.number
             point == IF win.attached /\ win.sync THEN number ELSE 0
             texture == IF b = None THEN None ELSE Textured(b, ok)
             kept == IF b \in Gpu THEN b ELSE None
  <1>1. /\ Counted(pool, Uses, Refers, win.number, {}) /\ win.number \in Nat /\ WinTypes
        /\ b \in Shm \cup Gpu \cup {None} /\ b \in Buffers \cup {None}
        /\ win.release \in Points \cup {0} /\ win.attached \in BOOLEAN /\ win.sync \in BOOLEAN
        /\ win.kept \in Buffers \cup {None} /\ win.texture \in Textures /\ AskedOfPast
        /\ win.current \in SUBSET Nat /\ win.feedback \in BOOLEAN
    BY DEF BuffersInv, WinTypes, Buffers
  <1>2. /\ number <= MaxApplied /\ output' = output
        /\ pool' = IF win.attached THEN buffer_unlock(apply_buffer(pool, b, point, ok), b) ELSE pool
        /\ win' = [win EXCEPT
                     !.number = number, !.pending = None, !.attached = FALSE, !.sync = FALSE,
                     !.kept = IF ~win.attached THEN @ ELSE IF b \in Gpu THEN b ELSE None,
                     !.texture = IF ~win.attached THEN @ ELSE IF b = None THEN None ELSE Textured(b, ok),
                     !.release = IF win.attached THEN point ELSE @,
                     !.feedback = FALSE,
                     !.current = IF win.feedback THEN {number} ELSE {}]
    BY DEF CommitBuffer
  <1>3. /\ number \in Nat /\ win.number <= number /\ point \in Points \cup {0}
        /\ win.attached => number = win.number + 1
        /\ win.attached /\ point # 0 => point = number
        /\ ~win.attached => number = win.number /\ point = 0
    BY <1>1, <1>2 DEF Points
  <1>4. kept \in Gpu \cup {None} /\ kept \in Buffers \cup {None} BY DEF Buffers
  <1>5. texture \in Textures /\ (texture \in Gpu => texture = kept) /\ Owned(texture) \in {b, None}
        /\ Owned(texture) \in Buffers \cup {None}
    BY <1>1, Apart DEF Textured, Textures, Owned, Buffers
  <1> HIDE DEF number, point, texture, kept
  <1>6. /\ win.number' = number /\ win.pending' = None /\ ~win.attached'
        /\ win.kept' = IF win.attached THEN kept ELSE win.kept
        /\ win.texture' = IF win.attached THEN texture ELSE win.texture
        /\ win.release' = IF win.attached THEN point ELSE win.release
        /\ win.current' = IF win.feedback THEN {number} ELSE {}
    BY <1>1, <1>2 DEF WinTypes, kept, texture
  <1>7. WinTypes'
    <2>1. win' \in [number : Nat, pending : Shm \cup Gpu \cup {None}, attached : BOOLEAN, sync : BOOLEAN,
                    kept : Gpu \cup {None}, texture : Textures, release : Points \cup {0},
                    feedback : BOOLEAN, current : SUBSET Nat]
      <3> DEFINE k == win.kept'
                 t == win.texture'
                 r == win.release'
                 c == win.current'
      <3>1. k \in Gpu \cup {None} /\ t \in Textures /\ r \in Points \cup {0} /\ c \in SUBSET Nat
        BY <1>1, <1>3, <1>4, <1>5, <1>6 DEF WinTypes
      <3>2. win' = [win EXCEPT !.number = number, !.pending = None, !.attached = FALSE, !.sync = FALSE,
                               !.kept = k, !.texture = t, !.release = r, !.feedback = FALSE, !.current = c]
        BY <1>1, <1>2, <1>6 DEF WinTypes, kept, texture
      <3> HIDE DEF k, t, r, c
      <3> QED BY <3>1, <3>2, <1>1, <1>3 DEF WinTypes
    <2>2. win.texture' \in Gpu => win.kept' = win.texture' BY <1>1, <1>5, <1>6 DEF WinTypes
    <2>3. win.release' <= win.number' BY <1>1, <1>3, <1>6 DEF WinTypes
    <2> QED BY <2>1, <2>2, <2>3, <1>6 DEF WinTypes
  <1>8. AskedOfPast'
    <2>1. \A f \in output.asked : f.number \in Nat /\ f.number <= win.number
      BY DEF BuffersInv, OutputTypes, AskedOfPast
    <2> QED BY <2>1, <1>1, <1>2, <1>3, <1>6 DEF AskedOfPast
  <1>9. CASE ~win.attached
    <2>1. pool' = pool /\ b = None BY <1>1, <1>2, <1>9 DEF WinTypes
    <2>2. Uses' = Uses /\ Refers' = Refers BY <1>2, <1>6, <1>9, <2>1 DEF Uses, Refers, Users
    <2>3. number = win.number BY <1>3, <1>9
    <2> QED BY <2>1, <2>2, <2>3, <1>1, <1>2, <1>3, <1>6, <1>7, <1>8, UsesTyped, WinKept
  <1>10. CASE win.attached
    <2> DEFINE o == Owned(win.texture)
               n == Owned(texture)
               s1 == release_unref(pool, win.release)
               s2 == buffer_lock(s1, n)
               s3 == buffer_unlock(s2, o)
               s4 == buffer_unlock(s3, win.kept)
               s5 == buffer_lock(s4, kept)
               s6 == IF point = 0 THEN s5 ELSE [s5 EXCEPT !.refs[point] = 1]
               Q1 == Unreferred(Refers, win.release)
               Q6 == Referred(Q1, point)
               R2 == Plus(Uses, n)
               R3 == Minus(R2, o)
               R4 == Minus(R3, win.kept)
               R5 == Plus(R4, kept)
               R7 == Minus(R5, b)
    <2>1. pool' = buffer_unlock(s6, b)
      BY <1>2, <1>10 DEF apply_buffer, texture, kept
    <2>2. /\ o \in Buffers \cup {None} /\ \A x \in Buffers : x = o <=> win.texture = x
          /\ n \in Buffers \cup {None} /\ \A x \in Buffers : x = n <=> texture = x
          /\ n \in {b, None}
      BY <1>1, <1>5, OwnedIs
    <2>3. \A x \in Buffers : /\ Uses[x] \in Nat /\ R2[x] = Uses[x] + One(x = n)
                             /\ R3[x] = R2[x] - One(x = o) /\ R4[x] = R3[x] - One(x = win.kept)
                             /\ R5[x] = R4[x] + One(x = kept) /\ R7[x] = R5[x] - One(x = b)
      BY <1>1, WinUses DEF Minus, Plus
    <2>4. \A x \in Buffers : /\ Uses[x] >= One(x = b) + One(x = win.kept) + One(x = o)
                             /\ x \in {output.queued, output.current} =>
                                  Uses[x] > One(x = b) + One(x = win.kept) + One(x = o)
      BY <1>1, WinUses
    <2>5. win.release # 0 => Refers[win.release] > 0 BY <1>1 DEF Refers, One
    <2>6. Q1 = Unreferred(Refers, win.release) /\ Q6 = Referred(Q1, point) OBVIOUS
    <2>7. /\ Counted(s1, Uses, Q1, win.number, {}) /\ Q1 \in [Points -> Nat] /\ s1.holds = pool.holds
      BY <1>1, <2>5, UsesTyped, Unrefs
    <2> HIDE DEF s1, Q1, Q6, R2, R3, R4, R5, R7, o, n
    <2>8. n # None => s1.buf[n].made
      <3>1. SUFFICES ASSUME n # None PROVE s1.buf[n].made OBVIOUS
      <3>2. n = b /\ n \in Buffers BY <2>2, <3>1
      <3>3. Uses[n] > 0 BY <3>2, InUse
      <3> QED BY <3>2, <3>3, <2>7, <1>1, UsesTyped, Counts
    <2>9. Counted(s2, R2, Q1, win.number, {}) /\ R2 \in [Buffers -> Nat] /\ s2.holds = s1.holds
      BY <1>1, <2>2, <2>7, <2>8, UsesTyped, Locks DEF R2
    <2> HIDE DEF s2
    <2>10. o # None => R2[o] > 0
      <3>1. SUFFICES ASSUME o # None PROVE R2[o] > 0 OBVIOUS
      <3>2. o \in Buffers BY <2>2, <3>1
      <3> QED BY <3>2, <2>3, <2>4 DEF One
    <2>11. /\ Counted(s3, R3, Q1, win.number, {}) /\ R3 \in [Buffers -> Nat]
           /\ \A h \in s2.holds : R3[h.on] > 0 => h \in s3.holds
      BY <1>1, <2>2, <2>7, <2>9, <2>10, Unlocks DEF R3
    <2> HIDE DEF s3
    <2>12. win.kept # None => R3[win.kept] > 0
      <3>1. SUFFICES ASSUME win.kept # None PROVE R3[win.kept] > 0 OBVIOUS
      <3>2. win.kept \in Buffers BY <1>1, <3>1
      <3> QED BY <3>2, <2>3, <2>4 DEF One
    <2>13. /\ Counted(s4, R4, Q1, win.number, {}) /\ R4 \in [Buffers -> Nat]
           /\ \A h \in s3.holds : R4[h.on] > 0 => h \in s4.holds
      BY <1>1, <2>7, <2>11, <2>12, Unlocks DEF R4
    <2> HIDE DEF s4
    <2>14. \A x \in Buffers : x = b => R4[x] > 0
      <3> TAKE x \in Buffers
      <3> QED BY <2>3, <2>4 DEF One
    <2>15. kept # None => s4.buf[kept].made
      <3>1. SUFFICES ASSUME kept # None PROVE s4.buf[kept].made OBVIOUS
      <3>2. kept = b /\ kept \in Buffers BY <1>4, <3>1 DEF kept
      <3>3. R4[kept] > 0 BY <3>2, <2>14
      <3> QED BY <3>2, <3>3, <2>7, <2>13, <1>1, Counts
    <2>16. Counted(s5, R5, Q1, win.number, {}) /\ R5 \in [Buffers -> Nat] /\ s5.holds = s4.holds
      BY <1>1, <1>4, <2>7, <2>13, <2>15, Locks DEF R5
    <2> HIDE DEF s5
    <2>17. Counted(s6, R5, Q6, number, {}) /\ Q6 \in [Points -> Nat] /\ s6.holds = s5.holds
      <3>1. CASE point = 0
        <4>1. Q6 \in [Points -> Nat] /\ \A p \in Points : Q1[p] = Q6[p]
          BY <2>7, <3>1 DEF Q6, Referred, One, Points
        <4>2. s6 = s5 BY <3>1
        <4> QED BY <4>1, <4>2, <1>1, <1>3, <2>16, SameUsers
      <3>2. CASE point # 0
        <4>1. point \in Points /\ point > win.number /\ point <= number BY <3>2, <1>1, <1>3, <1>10
        <4>2. s5.refs[point] = 0 /\ point \notin s5.signalled BY <4>1, <2>16 DEF Counted
        <4>3. 1 = s5.refs[point] + 1 BY <4>2
        <4> DEFINE k == 1
        <4>4. s6 = [s5 EXCEPT !.refs[point] = k] /\ k = s5.refs[point] + 1 BY <3>2, <4>3
        <4> HIDE DEF k, s6
        <4>5. /\ Counted([s5 EXCEPT !.refs[point] = k], R5, Referred(Q1, point), number, {})
              /\ Referred(Q1, point) \in [Points -> Nat]
              /\ [s5 EXCEPT !.refs[point] = k].holds = s5.holds
          BY <4>1, <4>2, <4>4, <1>1, <1>3, <2>7, <2>16, References
        <4> QED BY <4>4, <4>5 DEF Q6
      <3> QED BY <3>1, <3>2
    <2> HIDE DEF s6
    <2>18. b # None => R5[b] > 0
      <3>1. SUFFICES ASSUME b # None PROVE R5[b] > 0 OBVIOUS
      <3>2. b \in Buffers BY <1>1, <3>1
      <3>3. R4[b] > 0 /\ R4[b] \in Nat BY <3>2, <2>13, <2>14
      <3> QED BY <3>2, <3>3, <2>3 DEF One
    <2>19. /\ Counted(pool', R7, Q6, number, {}) /\ R7 \in [Buffers -> Nat]
           /\ \A h \in s6.holds : R7[h.on] > 0 => h \in pool'.holds
      BY <1>1, <1>3, <2>1, <2>16, <2>17, <2>18, Unlocks DEF R7
    <2>20. \A x \in Buffers : R7[x] = Uses'[x]
      <3> TAKE x \in Buffers
      <3>1. win.pending' = None /\ win.kept' = kept /\ win.texture' = texture BY <1>6, <1>10
      <3>2. x # None BY Apart
      <3>3. Uses'[x] = Uses[x] - One(b = x) - One(win.kept = x) - One(win.texture = x)
                       + One(kept = x) + One(texture = x)
        BY <1>2, <3>1, <3>2 DEF Uses, Users, One
      <3>4. /\ One(b = x) = One(x = b) /\ One(win.kept = x) = One(x = win.kept)
            /\ One(win.texture = x) = One(x = o) /\ One(kept = x) = One(x = kept)
            /\ One(texture = x) = One(x = n)
        BY <2>2 DEF One
      <3>5. /\ One(x = b) \in Int /\ One(x = win.kept) \in Int /\ One(x = o) \in Int /\ One(x = n) \in Int
            /\ One(x = kept) \in Int
        BY DEF One
      <3> QED BY <3>3, <3>4, <3>5, <2>3
    <2>21. \A p \in Points : Q6[p] = Refers'[p]
      <3> TAKE p \in Points
      <3>1. Q6[p] = One(win.release = p) - One(p = win.release) + One(p = point)
        BY <2>6 DEF Refers, Unreferred, Referred
      <3>2. win.release' = point BY <1>6, <1>10
      <3> QED BY <3>1, <3>2 DEF Refers, One
    <2>22. \A h \in pool.holds : R7[h.on] > 0 => h \in pool.holds'
      <3> TAKE h \in pool.holds
      <3>1. h.on \in Buffers BY <1>1, UsesTyped, Counts
      <3>2. h.on = kept => h.on = b BY <3>1, Apart DEF kept
      <3>3. R7[h.on] > 0 => R4[h.on] > 0 BY <3>1, <3>2, <2>3, <2>13 DEF One
      <3>4. R4[h.on] > 0 => R3[h.on] > 0 BY <3>1, <2>3, <2>11 DEF One
      <3> QED BY <3>3, <3>4, <2>7, <2>9, <2>11, <2>13, <2>16, <2>17, <2>19
    <2> QED BY <1>1, <1>2, <1>3, <1>6, <1>7, <1>8, <2>17, <2>19, <2>20, <2>21, <2>22, WinKept
  <1> QED BY <1>1, <1>9, <1>10

\* The output uses a buffer.
LEMMA OutUses ==
  ASSUME OutputTypes, NEW x \in Buffers
  PROVE  /\ Uses[x] \in Nat
         /\ Uses[x] >= One(x = output.queued) + One(x = output.current) + One(x = output.presented[2])
         /\ win.kept = x => Uses[x] > One(x = output.queued) + One(x = output.current)
                                      + One(x = output.presented[2])
  BY DEF Uses, Users, One

LEMMA FlipKept ==
  ASSUME BuffersInv, page_flip
  PROVE  BuffersInv'
  <1> DEFINE R == Minus(Uses, output.current)
             Q == output.queued
             drawn == [b \in Buffers |-> IF b = Q THEN output.drawn[b] ELSE Blank]
             asked == {f \in output.asked : ~f.committed}
  <1>1. /\ Counted(pool, Uses, Refers, win.number, {}) /\ win.number \in Nat /\ WinTypes /\ OutputTypes
        /\ output.current \in Buffers \cup {None} /\ Q \in Buffers \cup {None}
        /\ AskedOfPast /\ DrawnIsHeld
    BY DEF BuffersInv, WinTypes, OutputTypes, Shown, Buffers
  <1>2. /\ pool' = buffer_unlock(pool, output.current) /\ win' = win
        /\ output' = [output EXCEPT !.flip = FALSE, !.current = Q, !.queued = None,
                                    !.drawn = drawn, !.asked = asked]
    BY <1>1 DEF page_flip, OutputTypes
  <1>3. output.current # None => Uses[output.current] > 0
    <2>1. SUFFICES ASSUME output.current # None PROVE Uses[output.current] > 0 OBVIOUS
    <2>2. output.current \in Buffers BY <1>1, <2>1
    <2> QED BY <2>2, InUse
  <1>4. /\ Counted(pool', R, Refers, win.number, {}) /\ R \in [Buffers -> Nat]
        /\ \A h \in pool.holds : R[h.on] > 0 => h \in pool'.holds
    BY <1>1, <1>2, <1>3, UsesTyped, Unlocks
  <1>5. \A x \in Buffers : Uses[x] \in Nat /\ R[x] = Uses[x] - One(x = output.current)
    BY UsesTyped DEF Minus
  <1> HIDE DEF R
  <1>6. /\ drawn \in [Buffers -> [number : Nat, read : Textures, point : Points \cup {0}]]
        /\ asked \in SUBSET [number : Nat, committed : BOOLEAN]
    BY <1>1 DEF OutputTypes, Blank, Textures
  <1>7. /\ output.flip' = FALSE /\ output.current' = Q /\ output.queued' = None
        /\ output.drawn' = drawn /\ output.asked' = asked /\ output.presented' = output.presented
    BY <1>1, <1>2 DEF OutputTypes
  <1>8. OutputTypes'
    <2> HIDE DEF drawn, asked
    <2>1. Q \in Shown /\ None \in Shown BY <1>1 DEF OutputTypes, Shown
    <2>2. output' \in [queued : Shown, current : Shown, flip : BOOLEAN, presented : Shown \X Shown,
                       drawn : [Buffers -> [number : Nat, read : Textures, point : Points \cup {0}]],
                       asked : SUBSET [number : Nat, committed : BOOLEAN]]
      <3> HIDE DEF Q
      <3> QED BY <1>1, <1>2, <1>6, <2>1 DEF OutputTypes
    <2> QED BY <2>2, <1>7 DEF OutputTypes
  <1>9. \A x \in Buffers : R[x] = Uses'[x]
    <2> TAKE x \in Buffers
    <2>1. x # None BY Apart
    <2>2. Uses'[x] = Uses[x] - One(output.current = x)
      BY <1>2, <1>7, <2>1 DEF Uses, Users, One
    <2> QED BY <2>2, <1>5 DEF One
  <1>10. Counted(pool', Uses', Refers', win.number', {})
    <2>1. Refers' = Refers BY <1>2 DEF Refers
    <2> QED BY <2>1, <1>1, <1>2, <1>4, <1>9, SameUsers
  <1>11. DrawnIsHeld'
    <2>1. SUFFICES ASSUME Q # None PROVE HeldFor(Q, drawn[Q], pool'.holds)
      BY <1>7 DEF DrawnIsHeld
    <2>2. Q \in Buffers /\ drawn[Q] = output.drawn[Q] BY <2>1, <1>1
    <2>3. HeldFor(Q, output.drawn[Q], pool.holds) BY <2>1, <1>1 DEF DrawnIsHeld
    <2>4. R[Q] > 0
      <3>1. Q = output.current' BY <1>7
      <3> QED BY <3>1, <2>2, <1>9, InUseNext
    <2>5. \A h \in pool.holds : h.on = Q => h \in pool'.holds BY <2>4, <1>4
    <2> QED BY <2>2, <2>3, <2>5 DEF HeldFor
  <1>12. WinTypes' /\ AskedOfPast' BY <1>1, <1>2, <1>7 DEF WinTypes, AskedOfPast
  <1>13. PresentedIsShown' BY <1>7 DEF PresentedIsShown
  <1> QED BY <1>8, <1>10, <1>11, <1>12, <1>13 DEF BuffersInv

LEMMA OffKept ==
  ASSUME BuffersInv, ConnectorOff
  PROVE  BuffersInv'
  <1> DEFINE s1 == buffer_unlock(pool, output.queued)
             R1 == Minus(Uses, output.queued)
             R2 == Minus(R1, output.current)
             drawn == [b \in Buffers |-> Blank]
  <1>1. /\ Counted(pool, Uses, Refers, win.number, {}) /\ win.number \in Nat /\ WinTypes /\ OutputTypes
        /\ output.current \in Buffers \cup {None} /\ output.queued \in Buffers \cup {None}
        /\ AskedOfPast
    BY DEF BuffersInv, WinTypes, OutputTypes, Shown, Buffers
  <1>2. /\ pool' = buffer_unlock(s1, output.current) /\ win' = win
        /\ output' = [output EXCEPT !.queued = None, !.current = None, !.flip = FALSE, !.drawn = drawn]
    BY DEF ConnectorOff
  <1>3. \A x \in Buffers : /\ Uses[x] \in Nat /\ R1[x] = Uses[x] - One(x = output.queued)
                           /\ R2[x] = R1[x] - One(x = output.current)
    BY UsesTyped DEF Minus
  <1>4. output.queued # None => Uses[output.queued] > 0
    <2>1. SUFFICES ASSUME output.queued # None PROVE Uses[output.queued] > 0 OBVIOUS
    <2>2. output.queued \in Buffers BY <1>1, <2>1
    <2> QED BY <2>2, InUse
  <1> HIDE DEF R1, R2
  <1>5. Counted(s1, R1, Refers, win.number, {}) /\ R1 \in [Buffers -> Nat]
    BY <1>1, <1>4, UsesTyped, Unlocks DEF R1
  <1> HIDE DEF s1
  <1>6. output.current # None => R1[output.current] > 0
    <2>1. SUFFICES ASSUME output.current # None PROVE R1[output.current] > 0 OBVIOUS
    <2>2. output.current \in Buffers BY <1>1, <2>1
    <2> QED BY <2>2, <1>1, <1>3, OutUses DEF One
  <1>7. Counted(pool', R2, Refers, win.number, {}) /\ R2 \in [Buffers -> Nat]
    BY <1>1, <1>2, <1>5, <1>6, UsesTyped, Unlocks DEF R2
  <1>8. /\ output.flip' = FALSE /\ output.current' = None /\ output.queued' = None
        /\ output.drawn' = drawn /\ output.asked' = output.asked /\ output.presented' = output.presented
    BY <1>1, <1>2 DEF OutputTypes
  <1>9. OutputTypes'
    <2>1. drawn \in [Buffers -> [number : Nat, read : Textures, point : Points \cup {0}]]
      BY DEF Blank, Textures
    <2> HIDE DEF drawn
    <2>2. output' \in [queued : Shown, current : Shown, flip : BOOLEAN, presented : Shown \X Shown,
                       drawn : [Buffers -> [number : Nat, read : Textures, point : Points \cup {0}]],
                       asked : SUBSET [number : Nat, committed : BOOLEAN]]
      BY <1>1, <1>2, <2>1 DEF OutputTypes, Shown
    <2> QED BY <2>2, <1>8 DEF OutputTypes
  <1>10. \A x \in Buffers : R2[x] = Uses'[x]
    <2> TAKE x \in Buffers
    <2>1. x # None BY Apart
    <2>2. Uses'[x] = Uses[x] - One(output.queued = x) - One(output.current = x)
      BY <1>2, <1>8, <2>1 DEF Uses, Users, One
    <2> QED BY <2>2, <1>3 DEF One
  <1>11. Counted(pool', Uses', Refers', win.number', {})
    <2>1. Refers' = Refers BY <1>2 DEF Refers
    <2> QED BY <2>1, <1>1, <1>2, <1>7, <1>10, SameUsers
  <1>12. WinTypes' /\ AskedOfPast' /\ PresentedIsShown' /\ DrawnIsHeld'
    BY <1>1, <1>2, <1>8 DEF WinTypes, AskedOfPast, PresentedIsShown, DrawnIsHeld
  <1> QED BY <1>9, <1>11, <1>12 DEF BuffersInv

\* The feedback that a frame takes.
LEMMA AskedTyped ==
  ASSUME BuffersInv
  PROVE  /\ surface_presented \in SUBSET [number : Nat, committed : BOOLEAN]
         /\ \A f \in surface_presented : f.number <= win.number
  <1>1. /\ win.current \in SUBSET Nat /\ output.asked \in SUBSET [number : Nat, committed : BOOLEAN]
        /\ \A i \in win.current : i <= win.number
        /\ \A f \in output.asked : f.number <= win.number
    BY DEF BuffersInv, WinTypes, OutputTypes, AskedOfPast
  <1>2. ASSUME NEW f \in surface_presented
        PROVE  f \in [number : Nat, committed : BOOLEAN] /\ f.number <= win.number
    <2>1. CASE f \in output.asked BY <2>1, <1>1
    <2>2. CASE \E n \in win.current : f = [number |-> n, committed |-> FALSE] BY <2>2, <1>1
    <2> QED BY <2>1, <2>2 DEF surface_presented
  <1> QED BY <1>2

LEMMA ConnectorCommitKept ==
  ASSUME BuffersInv, NEW s, NEW R \in [Buffers -> Nat], NEW b \in Gpu \cup RingBuffers,
         NEW asked \in SUBSET [number : Nat, committed : BOOLEAN], NEW presented \in Shown \X Shown,
         connector_commit(s, b, asked, presented),
         Counted(s, R, Refers, win.number, {}), output.queued # None => R[output.queued] > 0,
         \A f \in asked : f.number <= win.number,
         HeldFor(b, Drawn, s.holds),
         \A h \in pool.holds : h.on \in {output.queued, output.current} => h \in s.holds,
         WinTypes', Refers' = Refers, win.number' = win.number, \A i \in win.current' : i <= win.number,
         \A x \in Buffers : Uses'[x] = R[x] - One(x = output.queued)
  PROVE  BuffersInv'
  <1> DEFINE t1 == buffer_unlock(s, output.queued)
             t2 == buffer_lock(t1, b)
             R1 == Minus(R, output.queued)
             R2 == Plus(R1, b)
             R3 == Minus(R2, b)
             drawn == [output.drawn EXCEPT ![b] = Drawn]
             answered == {[f EXCEPT !.committed = TRUE] : f \in asked}
  <1>1. /\ win.number \in Nat /\ WinTypes /\ OutputTypes /\ output.queued \in Buffers \cup {None}
        /\ output.current \in Buffers \cup {None} /\ AskedOfPast /\ DrawnIsHeld
        /\ b \in Buffers /\ b \in Buffers \cup {None} /\ b # None /\ b \in Shown
    BY Apart DEF BuffersInv, WinTypes, OutputTypes, Shown, Buffers
  <1>2. /\ pool' = buffer_unlock(t2, b)
        /\ output' = [output EXCEPT !.queued = b, !.flip = TRUE, !.drawn = drawn, !.presented = presented,
                                    !.asked = answered]
    BY <1>1 DEF connector_commit, OutputTypes
  <1>3. Drawn \in [number : Nat, read : Textures, point : Points \cup {0}] /\ Drawn.number = win.number
    BY <1>1 DEF WinTypes, Drawn
  <1>4. /\ drawn \in [Buffers -> [number : Nat, read : Textures, point : Points \cup {0}]]
        /\ drawn[b] = Drawn /\ \A x \in Buffers : x # b => drawn[x] = output.drawn[x]
    BY <1>1, <1>3 DEF OutputTypes
  <1>5. /\ answered \in SUBSET [number : Nat, committed : BOOLEAN]
        /\ \A f \in answered : f.number <= win.number
    <2>1. ASSUME NEW f \in asked
          PROVE  /\ [f EXCEPT !.committed = TRUE] \in [number : Nat, committed : BOOLEAN]
                 /\ [f EXCEPT !.committed = TRUE].number <= win.number
      <3>1. f \in [number : Nat, committed : BOOLEAN] /\ f.number <= win.number OBVIOUS
      <3> QED BY <3>1
    <2> QED BY <2>1
  <1> HIDE DEF t1, t2, drawn, answered
  <1>6. /\ output.flip' = TRUE /\ output.current' = output.current /\ output.queued' = b
        /\ output.drawn' = drawn /\ output.asked' = answered
    BY <1>1, <1>2 DEF OutputTypes
  <1>7. OutputTypes'
    <2>1. output' \in [queued : Shown, current : Shown, flip : BOOLEAN, presented : Shown \X Shown,
                       drawn : [Buffers -> [number : Nat, read : Textures, point : Points \cup {0}]],
                       asked : SUBSET [number : Nat, committed : BOOLEAN]]
      BY <1>1, <1>2, <1>4, <1>5 DEF OutputTypes
    <2> QED BY <2>1, <1>1, <1>6 DEF OutputTypes
  <1>8. \A x \in Buffers : /\ R[x] \in Nat /\ R1[x] = R[x] - One(x = output.queued)
                           /\ R2[x] = R1[x] + One(x = b) /\ R3[x] = R2[x] - One(x = b)
                           /\ R1[x] = Uses'[x]
    BY DEF Minus, Plus
  <1> HIDE DEF R1, R2, R3
  <1>9. /\ Counted(t1, R1, Refers, win.number, {}) /\ R1 \in [Buffers -> Nat]
        /\ \A h \in s.holds : R1[h.on] > 0 => h \in t1.holds
    BY <1>1, UsesTyped, Unlocks DEF t1, R1
  <1>10. R1[b] > 0 BY <1>1, <1>6, <1>8, InUseNext
  <1>11. t1.buf[b].made BY <1>1, <1>9, <1>10, UsesTyped, Counts
  <1>12. Counted(t2, R2, Refers, win.number, {}) /\ R2 \in [Buffers -> Nat] /\ t2.holds = t1.holds
    <2>1. b \in Buffers \cup {None} /\ (b # None => t1.buf[b].made) BY <1>1, <1>11
    <2>2. win.number \in Nat /\ Refers \in [Points -> Nat] BY <1>1, UsesTyped
    <2> QED BY <1>9, <2>1, <2>2, Locks DEF t2, R2
  <1>13. R2[b] > 0 BY <1>1, <1>8, <1>10, <1>12 DEF One
  <1>14. /\ Counted(pool', R3, Refers, win.number, {}) /\ R3 \in [Buffers -> Nat]
         /\ \A h \in t2.holds : R3[h.on] > 0 => h \in pool'.holds
    BY <1>1, <1>2, <1>12, <1>13, UsesTyped, Unlocks DEF R3
  <1>15. \A x \in Buffers : R3[x] = R1[x] BY <1>8, <1>9 DEF One
  <1>16. Counted(pool', Uses', Refers', win.number', {})
    BY <1>1, <1>8, <1>14, <1>15, SameUsers
  <1>17. ASSUME NEW h \in s.holds, h.on \in {b, output.current} PROVE h \in pool.holds'
    <2>1. h.on \in Buffers BY <1>1, UsesTyped, Counts
    <2>2. R1[h.on] > 0 BY <2>1, <1>6, <1>8, <1>17, InUseNext
    <2> QED BY <2>1, <2>2, <1>9, <1>12, <1>14, <1>15
  <1>18. DrawnIsHeld'
    <2>1. HeldFor(b, Drawn, pool.holds') BY <1>17 DEF HeldFor
    <2>2. ASSUME output.current # None, output.current # b
          PROVE  HeldFor(output.current, output.drawn[output.current], pool.holds')
      <3>1. HeldFor(output.current, output.drawn[output.current], pool.holds) BY <1>1, <2>2 DEF DrawnIsHeld
      <3>2. \A h \in pool.holds : h.on = output.current => h \in pool.holds' BY <1>17
      <3> QED BY <3>1, <3>2 DEF HeldFor
    <2> QED BY <2>1, <2>2, <1>1, <1>4, <1>6 DEF DrawnIsHeld
  <1>19. AskedOfPast' BY <1>5, <1>6 DEF AskedOfPast
  <1>20. PresentedIsShown' BY <1>3, <1>4, <1>5, <1>6 DEF PresentedIsShown
  <1> QED BY <1>7, <1>16, <1>18, <1>19, <1>20 DEF BuffersInv

\* A frame takes the feedback of the surface, and nothing else of it.
LEMMA TakesFeedback ==
  ASSUME BuffersInv, win' = [win EXCEPT !.current = {}] \/ win' = win
  PROVE  /\ WinTypes' /\ Refers' = Refers /\ win.number' = win.number
         /\ \A i \in win.current' : i <= win.number
         /\ win.pending' = win.pending /\ win.kept' = win.kept /\ win.texture' = win.texture
  BY DEF BuffersInv, WinTypes, Refers, AskedOfPast

LEMMA ScanoutKept ==
  ASSUME BuffersInv, NEW commits \in BOOLEAN, ScanoutFrame(commits)
  PROVE  BuffersInv'
  <1> DEFINE b == win.kept
             s1 == buffer_lock(pool, b)
             s2 == surface_release_after(s1, b)
             R == Plus(Uses, b)
  <1>1. /\ Counted(pool, Uses, Refers, win.number, {}) /\ win.number \in Nat /\ WinTypes /\ OutputTypes
        /\ b \in Gpu /\ b \in Buffers /\ Unheld(pool) # {} /\ output.queued \in Shown /\ DrawnIsHeld
        /\ b \in Gpu \cup RingBuffers /\ b \in Buffers \cup {None} /\ output.presented \in Shown \X Shown
    BY DEF BuffersInv, WinTypes, OutputTypes, ScanoutFrame, Buffers
  <1>2. win' = [win EXCEPT !.current = {}] BY DEF ScanoutFrame
  <1>3. /\ WinTypes' /\ Refers' = Refers /\ win.number' = win.number
        /\ \A i \in win.current' : i <= win.number
        /\ win.pending' = win.pending /\ win.kept' = win.kept /\ win.texture' = win.texture
    BY <1>2, TakesFeedback
  <1>4. /\ surface_presented \in SUBSET [number : Nat, committed : BOOLEAN]
        /\ \A f \in surface_presented : f.number <= win.number
    BY AskedTyped
  <1>5. CASE commits
    <2>1. connector_commit(s2, b, surface_presented, output.presented) BY <1>5 DEF ScanoutFrame
    <2>2. Uses[b] > 0 BY <1>1, InUse
    <2>3. pool.buf[b].made BY <2>2, <1>1, UsesTyped, Counts
    <2>4. Counted(s1, R, Refers, win.number, {}) /\ R \in [Buffers -> Nat] /\ s1.holds = pool.holds
      BY <2>3, <1>1, UsesTyped, Locks
    <2>5. \A x \in Buffers : Uses[x] \in Nat /\ R[x] = Uses[x] + One(x = b) BY UsesTyped DEF Plus
    <2> HIDE DEF s1, R
    <2>6. R[b] > 0 BY <2>2, <2>5, <1>1 DEF One
    <2>7. Unheld(s1) # {} BY <2>4, <1>1 DEF Unheld
    <2>8. win.release # 0 => Refers[win.release] > 0 BY <1>1 DEF WinTypes, Refers, One
    <2>9. /\ Counted(s2, R, Refers, win.number, {}) /\ s1.holds \in SUBSET s2.holds
          /\ HeldFor(b, Drawn, s2.holds)
      BY <2>4, <2>6, <2>7, <2>8, <1>1, UsesTyped, FrameHolds
    <2> HIDE DEF s2
    <2>10. output.queued # None => R[output.queued] > 0
      <3>1. SUFFICES ASSUME output.queued # None PROVE R[output.queued] > 0 OBVIOUS
      <3>2. output.queued \in Buffers BY <3>1, <1>1 DEF Shown, Buffers
      <3>3. Uses[output.queued] > 0 BY <3>2, InUse
      <3> QED BY <3>2, <3>3, <2>5 DEF One
    <2>11. \A x \in Buffers : Uses'[x] = R[x] - One(x = output.queued)
      <3> TAKE x \in Buffers
      <3>1. output.queued' = b /\ output.current' = output.current /\ output.presented' = output.presented
        BY <2>1, <1>1 DEF connector_commit, OutputTypes
      <3>2. Uses'[x] = Uses[x] + One(b = x) - One(output.queued = x)
        BY <3>1, <1>3 DEF Uses, Users, One
      <3> QED BY <3>2, <2>5 DEF One
    <2>12. \A h \in pool.holds : h.on \in {output.queued, output.current} => h \in s2.holds
      BY <2>4, <2>9
    <2> DEFINE A == surface_presented
               P == output.presented
    <2>13. /\ A \in SUBSET [number : Nat, committed : BOOLEAN] /\ P \in Shown \X Shown
           /\ \A f \in A : f.number <= win.number /\ connector_commit(s2, b, A, P)
      BY <2>1, <1>1, <1>4
    <2>14. connector_commit(s2, b, A, P) BY <2>1
    <2> HIDE DEF A, P, b
    <2> QED BY <2>4, <2>9, <2>10, <2>11, <2>12, <2>13, <2>14, <1>1, <1>3, ConnectorCommitKept
  <1>6. CASE ~commits
    <2>1. pool' = pool /\ output' = [output EXCEPT !.asked = surface_presented]
      BY <1>6 DEF ScanoutFrame
    <2>2. /\ output.queued' = output.queued /\ output.current' = output.current /\ output.flip' = output.flip
          /\ output.presented' = output.presented /\ output.drawn' = output.drawn
          /\ output.asked' = surface_presented
      BY <2>1, <1>1 DEF OutputTypes
    <2>3. Uses' = Uses BY <2>2, <1>3 DEF Uses, Users
    <2>4. OutputTypes'
      <3>1. output' \in [queued : Shown, current : Shown, flip : BOOLEAN, presented : Shown \X Shown,
                         drawn : [Buffers -> [number : Nat, read : Textures, point : Points \cup {0}]],
                         asked : SUBSET [number : Nat, committed : BOOLEAN]]
        BY <2>1, <1>1, <1>4 DEF OutputTypes
      <3> QED BY <3>1, <2>2, <1>1 DEF OutputTypes
    <2>5. AskedOfPast' BY <2>2, <1>3, <1>4 DEF AskedOfPast
    <2>6. PresentedIsShown' BY <2>2 DEF PresentedIsShown, ScanoutFrame
    <2>7. DrawnIsHeld' BY <2>1, <2>2, <1>1 DEF DrawnIsHeld
    <2> QED BY <2>1, <2>3, <2>4, <2>5, <2>6, <2>7, <1>1, <1>3 DEF BuffersInv
  <1> QED BY <1>5, <1>6

\* A buffer of the ring that is taken for a frame was not used.
LEMMA Acquired ==
  ASSUME BuffersInv, NEW b \in RingBuffers, ring_acquire(b)
  PROVE  LET s == [pool EXCEPT !.buf[b] =
                     [made |-> TRUE, resource |-> TRUE, dropped |-> FALSE, locks |-> 1]]
         IN /\ Counted(s, Plus(Uses, b), Refers, win.number, {}) /\ Plus(Uses, b) \in [Buffers -> Nat]
            /\ s.holds = pool.holds
            /\ Uses[b] = 0
  <1> DEFINE e == [made |-> TRUE, resource |-> TRUE, dropped |-> FALSE, locks |-> 1]
             s == [pool EXCEPT !.buf[b] = e]
             R == Plus(Uses, b)
             buf == [pool.buf EXCEPT ![b] = e]
  <1>1. /\ pool \in [buf : [Buffers -> BufferRecord], refs : [Points -> Nat],
                     signalled : SUBSET Points, holds : SUBSET Hold]
        /\ IsFiniteSet(pool.holds) /\ b \in Buffers /\ win.number \in Nat
        /\ Counted(pool, Uses, Refers, win.number, {})
    BY DEF BuffersInv, Counted, PoolTypes, WinTypes, Buffers
  <1>2. /\ pool.buf[b] \in BufferRecord /\ pool.buf[b].locks = Uses[b] + LockedBy(pool.holds, b)
        /\ LockedBy(pool.holds, b) \in Nat /\ Uses[b] \in Nat
        /\ pool.buf[b].locks > 0 => pool.buf[b].made
    <2>1. pool.buf[b].locks > 0 => pool.buf[b].made BY <1>1 DEF Counted
    <2> QED BY <2>1, <1>1, UsesTyped, Counts
  <1>3. pool.buf[b].locks = 0
    <2>1. pool.buf[b].locks \in Nat BY <1>2 DEF BufferRecord
    <2>2. pool.buf[b].locks = 0 \/ ~pool.buf[b].made BY DEF ring_acquire
    <2> QED BY <2>1, <2>2, <1>2
  <1>4. Uses[b] = 0 /\ LockedBy(pool.holds, b) = 0 BY <1>2, <1>3
  <1>5. e \in BufferRecord /\ e.made /\ e.locks = 1 BY DEF BufferRecord
  <1>6. s = [pool EXCEPT !.buf = buf] BY <1>1
  <1> HIDE DEF e
  <1>7. /\ buf \in [Buffers -> BufferRecord] /\ buf[b] = e
        /\ \A x \in Buffers : x # b => buf[x] = pool.buf[x]
    BY <1>1, <1>5
  <1>8. R \in [Buffers -> Nat] /\ \A x \in Buffers : R[x] = Uses[x] + One(x = b) /\ Uses[x] \in Nat
    BY UsesTyped DEF Plus, One
  <1> HIDE DEF buf, s, R
  <1>9. s.buf = buf /\ s.refs = pool.refs /\ s.signalled = pool.signalled /\ s.holds = pool.holds
    BY <1>1, <1>6
  <1>10. PoolTypes(s)
    <2>1. s \in [buf : [Buffers -> BufferRecord], refs : [Points -> Nat],
                 signalled : SUBSET Points, holds : SUBSET Hold]
      BY <1>1, <1>6, <1>7
    <2> QED BY <2>1, <1>1, <1>9 DEF PoolTypes
  <1>11. \A x \in Buffers : /\ s.buf[x].locks = R[x] + LockedBy(s.holds, x)
                            /\ s.buf[x].locks > 0 => s.buf[x].made
                            /\ s.buf[x].resource => s.buf[x].made
    <2> TAKE x \in Buffers
    <2>1. /\ pool.buf[x].locks = Uses[x] + LockedBy(pool.holds, x)
          /\ pool.buf[x].locks > 0 => pool.buf[x].made
          /\ pool.buf[x].resource => pool.buf[x].made
      BY <1>1 DEF Counted
    <2>2. CASE x = b BY <2>2, <1>4, <1>5, <1>7, <1>8, <1>9 DEF One
    <2>3. CASE x # b BY <2>1, <2>3, <1>7, <1>8, <1>9 DEF One
    <2> QED BY <2>2, <2>3
  <1>12. \A h \in s.holds : /\ h.on \in Gpu => h.buffer = None
                            /\ h.on \notin {} => s.buf[h.on].locks > 0
    <2> TAKE h \in s.holds
    <2>1. h.on \in Buffers /\ pool.buf[h.on].locks > 0 BY <1>1, <1>9, UsesTyped, Counts
    <2>2. h.on \in Gpu => h.buffer = None BY <1>1, <1>9 DEF Counted
    <2> QED BY <2>1, <2>2, <1>3, <1>7, <1>9
  <1>13. \A p \in Points : /\ s.refs[p] = Refers[p] + ReferredBy(s.holds, p)
                           /\ p \in s.signalled => s.refs[p] = 0
                           /\ p > win.number => s.refs[p] = 0 /\ p \notin s.signalled
    BY <1>1, <1>9 DEF Counted
  <1>14. Counted(s, R, Refers, win.number, {}) BY <1>10, <1>11, <1>12, <1>13 DEF Counted
  <1> QED BY <1>4, <1>8, <1>9, <1>14 DEF s, R, e

LEMMA RenderKept ==
  ASSUME BuffersInv, NEW b \in RingBuffers, NEW drawn \in BOOLEAN, NEW commits \in BOOLEAN,
         RenderFrame(b, drawn, commits)
  PROVE  BuffersInv'
  <1> DEFINE taken == [pool EXCEPT !.buf[b] =
                        [made |-> TRUE, resource |-> TRUE, dropped |-> FALSE, locks |-> 1]]
             reads == IF win.texture = None THEN taken ELSE surface_release_after(taken, b)
             asked == IF drawn /\ win.texture # None THEN surface_presented ELSE output.asked
             last == output.presented[2]
             s3 == buffer_lock(reads, b)
             shown == buffer_unlock(s3, last)
             R == Plus(Uses, b)
             R3 == Plus(R, b)
             R4 == Minus(R3, last)
             R5 == Minus(R, b)
  <1>1. /\ Counted(pool, Uses, Refers, win.number, {}) /\ win.number \in Nat /\ WinTypes /\ OutputTypes
        /\ output.queued \in Shown /\ output.current \in Shown /\ DrawnIsHeld /\ AskedOfPast
        /\ output.presented \in Shown \X Shown
        /\ last \in Shown /\ last \in Buffers \cup {None} /\ win.kept \in Gpu \cup {None}
        /\ b \in Buffers /\ b \in Gpu \cup RingBuffers /\ b \in Buffers \cup {None} /\ b # None
        /\ b \notin Gpu /\ b \in Shown
    BY Apart DEF BuffersInv, WinTypes, OutputTypes, Shown, Buffers
  <1>2. /\ ~output.flip /\ ring_acquire(b) /\ Unheld(pool) # {}
        /\ win' = [win EXCEPT !.current = {}] \/ win' = win
    BY DEF RenderFrame
  <1>3. /\ WinTypes' /\ Refers' = Refers /\ win.number' = win.number
        /\ \A i \in win.current' : i <= win.number
        /\ win.pending' = win.pending /\ win.kept' = win.kept /\ win.texture' = win.texture
    BY <1>2, TakesFeedback
  <1>4. /\ asked \in SUBSET [number : Nat, committed : BOOLEAN]
        /\ \A f \in asked : f.number <= win.number
    <2>1. /\ surface_presented \in SUBSET [number : Nat, committed : BOOLEAN]
          /\ \A f \in surface_presented : f.number <= win.number
      BY AskedTyped
    <2>2. /\ output.asked \in SUBSET [number : Nat, committed : BOOLEAN]
          /\ \A f \in output.asked : f.number <= win.number
      BY <1>1 DEF OutputTypes, AskedOfPast
    <2> QED BY <2>1, <2>2
  <1>5. /\ Counted(taken, R, Refers, win.number, {}) /\ R \in [Buffers -> Nat]
        /\ taken.holds = pool.holds /\ Uses[b] = 0
    BY <1>2, Acquired
  <1>6. \A x \in Buffers : /\ Uses[x] \in Nat /\ R[x] = Uses[x] + One(x = b)
                           /\ R3[x] = R[x] + One(x = b) /\ R4[x] = R3[x] - One(x = last)
                           /\ R5[x] = R[x] - One(x = b)
    BY UsesTyped DEF Plus, Minus
  <1>7. /\ IF commits THEN connector_commit(shown, b, asked, <<b, output.presented[1]>>)
           ELSE /\ pool' = buffer_unlock(reads, b)
                /\ output' = [output EXCEPT !.asked = asked,
                                !.drawn[b] = IF b \in {output.queued, output.current} THEN Drawn ELSE @]
    BY DEF RenderFrame
  <1> HIDE DEF taken, asked, R, R3, R4, R5
  <1>8. R[b] > 0 BY <1>1, <1>5, <1>6 DEF One
  <1>9. /\ Counted(reads, R, Refers, win.number, {}) /\ pool.holds \in SUBSET reads.holds
        /\ HeldFor(b, Drawn, reads.holds)
    <2>1. CASE win.texture = None
      <3>1. Drawn.read \notin Gpu BY <2>1, Apart DEF Drawn, Buffers
      <3> QED BY <3>1, <2>1, <1>5 DEF HeldFor
    <2>2. CASE win.texture # None
      <3> DEFINE t == surface_release_after(taken, b)
      <3>1. Unheld(taken) # {} BY <1>2, <1>5 DEF Unheld
      <3>2. win.release # 0 => Refers[win.release] > 0 BY <1>1 DEF WinTypes, Refers, One
      <3>3. win.kept \in Gpu => R[win.kept] > 0
        <4>1. SUFFICES ASSUME win.kept \in Gpu PROVE R[win.kept] > 0 OBVIOUS
        <4>2. win.kept \in Buffers BY <4>1 DEF Buffers
        <4>3. Uses[win.kept] > 0 BY <4>2, InUse
        <4> QED BY <4>2, <4>3, <1>6 DEF One
      <3>4. /\ Counted(t, R, Refers, win.number, {}) /\ taken.holds \in SUBSET t.holds
            /\ HeldFor(b, Drawn, t.holds)
        BY <3>1, <3>2, <3>3, <1>1, <1>5, <1>8, UsesTyped, FrameHolds
      <3> QED BY <3>4, <2>2, <1>5
    <2> QED BY <2>1, <2>2
  <1> HIDE DEF reads
  <1>10. CASE commits
    <2>1. reads.buf[b].made BY <1>1, <1>5, <1>8, <1>9, UsesTyped, Counts
    <2>2. Counted(s3, R3, Refers, win.number, {}) /\ R3 \in [Buffers -> Nat] /\ s3.holds = reads.holds
      BY <2>1, <1>1, <1>5, <1>9, UsesTyped, Locks DEF R3
    <2> HIDE DEF s3
    <2>3. last # None => R3[last] > 0
      <3>1. SUFFICES ASSUME last # None PROVE R3[last] > 0 OBVIOUS
      <3>2. last \in Buffers BY <3>1, <1>1
      <3>3. Uses[last] > 0 BY <3>2, InUse
      <3> QED BY <3>2, <3>3, <1>6 DEF One
    <2>4. /\ Counted(shown, R4, Refers, win.number, {}) /\ R4 \in [Buffers -> Nat]
          /\ \A h \in s3.holds : R4[h.on] > 0 => h \in shown.holds
      BY <2>2, <2>3, <1>1, UsesTyped, Unlocks DEF R4
    <2> HIDE DEF shown
    <2>5. \A x \in Buffers : x \in {b, output.queued, output.current} => R4[x] > 0
      <3> TAKE x \in Buffers
      <3>1. Uses[x] >= One(x = output.queued) + One(x = output.current) + One(x = last)
        BY <1>1, OutUses
      <3> QED BY <3>1, <1>6 DEF One
    <2>6. ASSUME NEW h \in reads.holds, h.on \in {b, output.queued, output.current}
          PROVE  h \in shown.holds
      <3>1. h.on \in Buffers BY <1>1, <1>5, <1>9, UsesTyped, Counts
      <3> QED BY <3>1, <2>2, <2>4, <2>5, <2>6
    <2>7. HeldFor(b, Drawn, shown.holds) BY <2>6, <1>9 DEF HeldFor
    <2>8. \A h \in pool.holds : h.on \in {output.queued, output.current} => h \in shown.holds
      BY <2>6, <1>9
    <2>9. output.queued # None => R4[output.queued] > 0
      <3>1. SUFFICES ASSUME output.queued # None PROVE R4[output.queued] > 0 OBVIOUS
      <3>2. output.queued \in Buffers BY <3>1, <1>1 DEF Shown, Buffers
      <3> QED BY <3>2, <2>5
    <2> DEFINE P == <<b, output.presented[1]>>
    <2>10. connector_commit(shown, b, asked, P) BY <1>7, <1>10
    <2>11. P \in Shown \X Shown BY <1>1
    <2>12. \A x \in Buffers : Uses'[x] = R4[x] - One(x = output.queued)
      <3> TAKE x \in Buffers
      <3>1. /\ output.queued' = b /\ output.current' = output.current
            /\ output.presented[1]' = b /\ output.presented[2]' = output.presented[1]
        BY <2>10, <1>1 DEF connector_commit, OutputTypes
      <3>2. Uses'[x] = Uses[x] + One(b = x) + One(b = x) - One(output.queued = x) - One(last = x)
        BY <3>1, <1>3 DEF Uses, Users, One
      <3> QED BY <3>2, <1>6 DEF One
    <2> HIDE DEF P
    <2> QED BY <2>4, <2>7, <2>8, <2>9, <2>10, <2>11, <2>12, <1>1, <1>3, <1>4, ConnectorCommitKept
  <1>11. CASE ~commits
    <2>1. b \notin {output.queued, output.current}
      <3>1. Uses[b] >= One(b = output.queued) + One(b = output.current) + One(b = last) BY <1>1, OutUses
      <3>2. One(b = last) \in Nat BY DEF One
      <3> QED BY <3>1, <3>2, <1>5 DEF One
    <2>2. pool' = buffer_unlock(reads, b) /\ output' = [output EXCEPT !.asked = asked]
      <3> DEFINE d == output.drawn
                 e == [d EXCEPT ![b] = d[b]]
      <3>1. d \in [Buffers -> [number : Nat, read : Textures, point : Points \cup {0}]]
        BY <1>1 DEF OutputTypes
      <3>2. e = d
        <4> HIDE DEF d
        <4> QED BY <3>1, <1>1
      <3>3. output' = [output EXCEPT !.asked = asked, !.drawn = e]
        BY <1>1, <1>7, <1>11, <2>1 DEF OutputTypes
      <3>4. output' = [output EXCEPT !.asked = asked, !.drawn = output.drawn]
        BY <3>2, <3>3
      <3> QED BY <3>4, <1>1, <1>7, <1>11 DEF OutputTypes
    <2>3. /\ output.queued' = output.queued /\ output.current' = output.current /\ output.flip' = output.flip
          /\ output.presented' = output.presented /\ output.drawn' = output.drawn
          /\ output.asked' = asked
      BY <2>2, <1>1 DEF OutputTypes
    <2>4. Uses' = Uses BY <2>3, <1>3 DEF Uses, Users
    <2>5. /\ Counted(pool', R5, Refers, win.number, {}) /\ R5 \in [Buffers -> Nat]
          /\ \A h \in reads.holds : R5[h.on] > 0 => h \in pool'.holds
      BY <2>2, <1>1, <1>5, <1>8, <1>9, UsesTyped, Unlocks DEF R5
    <2>6. \A x \in Buffers : R5[x] = Uses[x] BY <1>6 DEF One
    <2>7. Counted(pool', Uses', Refers', win.number', {})
      <3>1. win.number <= win.number BY <1>1
      <3> QED BY <3>1, <2>4, <2>5, <2>6, <1>1, <1>3, SameUsers
    <2>8. OutputTypes'
      <3>1. output' \in [queued : Shown, current : Shown, flip : BOOLEAN, presented : Shown \X Shown,
                         drawn : [Buffers -> [number : Nat, read : Textures, point : Points \cup {0}]],
                         asked : SUBSET [number : Nat, committed : BOOLEAN]]
        BY <2>2, <1>1, <1>4 DEF OutputTypes
      <3> QED BY <3>1, <2>3, <1>1 DEF OutputTypes
    <2>9. AskedOfPast' BY <2>3, <1>3, <1>4 DEF AskedOfPast
    <2>10. PresentedIsShown' BY <2>3, <1>2 DEF PresentedIsShown
    <2>11. DrawnIsHeld'
      <3>1. ASSUME NEW x \in {output.queued, output.current}, x # None
            PROVE  HeldFor(x, output.drawn[x], pool.holds')
        <4>1. x \in Buffers BY <3>1, <1>1 DEF Shown, Buffers
        <4>2. R5[x] > 0 BY <4>1, <2>6, InUse
        <4>3. HeldFor(x, output.drawn[x], pool.holds) BY <3>1, <1>1 DEF DrawnIsHeld
        <4>4. \A h \in pool.holds : h.on = x => h \in pool.holds' BY <4>2, <2>5, <1>9
        <4> QED BY <4>3, <4>4 DEF HeldFor
      <3> QED BY <3>1, <2>3 DEF DrawnIsHeld
    <2> QED BY <2>7, <2>8, <2>9, <2>10, <2>11, <1>3 DEF BuffersInv
  <1> QED BY <1>10, <1>11

LEMMA BuffersInitially == BuffersInit => BuffersInv
  <1> SUFFICES ASSUME BuffersInit PROVE BuffersInv OBVIOUS
  <1>1. None \notin Buffers /\ Gpu \in SUBSET Buffers /\ "copy" # None BY Apart DEF Buffers
  <1>2. WinTypes BY <1>1 DEF BuffersInit, WinTypes, Textures
  <1>3. OutputTypes
    <2>1. Blank \in [number : Nat, read : Textures, point : Points \cup {0}] BY DEF Blank, Textures
    <2>2. output \in [queued : Shown, current : Shown, flip : BOOLEAN, presented : Shown \X Shown,
                      drawn : [Buffers -> [number : Nat, read : Textures, point : Points \cup {0}]],
                      asked : SUBSET [number : Nat, committed : BOOLEAN]]
      BY <2>1 DEF BuffersInit, Shown
    <2> QED BY <2>2 DEF OutputTypes, BuffersInit
  <1>4. /\ pool.buf = [b \in Buffers |-> NoBuffer] /\ pool.refs = [p \in Points |-> 0]
        /\ pool.signalled = {} /\ pool.holds = {}
    BY DEF BuffersInit
  <1>5. PoolTypes(pool)
    <2>1. NoBuffer \in BufferRecord BY DEF NoBuffer, BufferRecord
    <2>2. pool \in [buf : [Buffers -> BufferRecord], refs : [Points -> Nat],
                    signalled : SUBSET Points, holds : SUBSET Hold]
      BY <2>1 DEF BuffersInit
    <2> QED BY <2>2, <1>4, FS_EmptySet DEF PoolTypes
  <1>6. \A x : LockedBy({}, x) = 0 /\ ReferredBy({}, x) = 0
    <2> TAKE x
    <2>1. {h \in {} : h.buffer = x} = {} /\ {h \in {} : h.point = x} = {} OBVIOUS
    <2> QED BY <2>1, FS_EmptySet DEF LockedBy, ReferredBy
  <1>7. \A b \in Buffers : Uses[b] = 0
    BY <1>1 DEF BuffersInit, Uses, Users, One
  <1>8. \A p \in Points : Refers[p] = 0 BY DEF BuffersInit, Refers, One, Points
  <1>9. Counted(pool, Uses, Refers, win.number, {})
    <2>1. \A b \in Buffers : pool.buf[b].locks = 0 /\ ~pool.buf[b].resource BY <1>4 DEF NoBuffer
    <2> QED BY <2>1, <1>4, <1>5, <1>6, <1>7, <1>8 DEF Counted
  <1>10. DrawnIsHeld /\ AskedOfPast /\ PresentedIsShown
    BY DEF BuffersInit, DrawnIsHeld, AskedOfPast, PresentedIsShown
  <1> QED BY <1>2, <1>3, <1>9, <1>10 DEF BuffersInv

LEMMA BuffersStep == BuffersInv /\ [BuffersNext]_<<pool, win, output>> => BuffersInv'
  <1> SUFFICES ASSUME BuffersInv, [BuffersNext]_<<pool, win, output>> PROVE BuffersInv' OBVIOUS
  <1>1. ASSUME NEW b \in Shm \cup Gpu, DestroyResource(b) PROVE BuffersInv'
    <2>1. {b} \in SUBSET Buffers BY DEF Buffers
    <2> DEFINE B == {b}
    <2>2. pool' = buffer_drop(pool, B) /\ UNCHANGED <<win, output>> BY <1>1 DEF DestroyResource
    <2> HIDE DEF B
    <2> QED BY <2>1, <2>2, DropKept DEF B
  <1>2. ASSUME ring_finish PROVE BuffersInv'
    <2>1. InRing \in SUBSET Buffers BY DEF InRing, Buffers
    <2> QED BY <2>1, <1>2, DropKept DEF ring_finish
  <1>3. CASE UNCHANGED <<pool, win, output>>
    <2>1. /\ Uses' = Uses /\ Refers' = Refers /\ WinTypes' /\ OutputTypes' /\ DrawnIsHeld' /\ AskedOfPast'
          /\ PresentedIsShown'
      BY <1>3 DEF BuffersInv, Uses, Refers, Users, WinTypes, OutputTypes, DrawnIsHeld, AskedOfPast,
                  PresentedIsShown
    <2> QED BY <2>1, <1>3 DEF BuffersInv
  <1> QED
    BY <1>1, <1>2, <1>3, CreateBufferKept, AttachKept, CommitKept, RenderKept, ScanoutKept, SurfaceGoesKept,
       FeedbackKept, FlipKept, OffKept
    DEF BuffersNext

LEMMA BuffersInvSafe == BuffersInv => BuffersAreSafe
  <1> SUFFICES ASSUME BuffersInv PROVE BuffersAreSafe OBVIOUS
  <1>1. Counted(pool, Uses, Refers, win.number, {}) /\ win.number \in Nat /\ OutputTypes
    BY DEF BuffersInv, WinTypes
  <1>2. UsersAreCounted
    <2>1. \A b \in Buffers : Uses[b] = Users(b) BY DEF Uses
    <2>2. \A p \in Points : Refers[p] = One(win.release = p) BY DEF Refers
    <2> QED BY <2>1, <2>2, <1>1 DEF UsersAreCounted, Counted
  <1>3. ReadersAreDone
    <2>1. ASSUME NEW b \in {output.queued, output.current} \ {None}, output.drawn[b].read \in Gpu
          PROVE  IF output.drawn[b].point = 0 THEN pool.buf[output.drawn[b].read].locks > 0
                 ELSE output.drawn[b].point \notin pool.signalled
      <3> DEFINE d == output.drawn[b]
      <3>1. b \in Buffers /\ d.read \in Buffers /\ d.point \in Points \cup {0}
        BY <2>1, <1>1 DEF OutputTypes, Shown, Buffers
      <3>2. HeldFor(b, d, pool.holds) BY DEF BuffersInv, DrawnIsHeld
      <3> HIDE DEF d
      <3>3. CASE d.point = 0
        <4>1. d.read = b \/ \E h \in pool.holds : h.on = b /\ h.buffer = d.read
          BY <3>2, <3>3, <2>1 DEF HeldFor, d
        <4>2. Uses[b] > 0 BY <3>1, InUse
        <4>3. pool.buf[d.read].locks > 0 BY <4>1, <4>2, <3>1, <1>1, UsesTyped, Counts
        <4> QED BY <4>3, <3>3 DEF d
      <3>4. CASE d.point # 0
        <4>1. PICK h \in pool.holds : h.point = d.point
          BY <3>2, <3>4, <2>1 DEF HeldFor, d
        <4>2. d.point \notin pool.signalled BY <4>1, <3>1, <3>4, <1>1, UsesTyped, Counts
        <4> QED BY <4>2, <3>4 DEF d
      <3> QED BY <3>3, <3>4
    <2> QED BY <2>1 DEF ReadersAreDone
  <1> QED BY <1>2, <1>3 DEF BuffersInv, BuffersAreSafe

\* n_locks counts the users of a buffer and a release point those who refer to it, a
\* client is told of neither while a frame that reads the buffer is shown or on its
\* way, and of no presentation that did not happen: for any buffers and any ring.
THEOREM BuffersHeld == BuffersSpec => []BuffersAreSafe
  <1>1. BuffersSpec => []BuffersInv BY BuffersInitially, BuffersStep, PTL DEF BuffersSpec
  <1> QED BY <1>1, BuffersInvSafe, PTL
=============================================================================
