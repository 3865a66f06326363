------------------------------ MODULE Screens ------------------------------
(***************************************************************************)
(* Outputs and their frames: native/screen.c over native/kms.c, with       *)
(* native/output.c, power.c and session.c.                                 *)
(*                                                                         *)
(* A frame is drawn when a page flip completes or, when none is pending,   *)
(* from an idle callback.  A commit of several kinds (a frame, a           *)
(* configuration, powering off) first waits for the flips pending on its   *)
(* screens, and the events it reads meanwhile draw frames of any screen    *)
(* inside the handler that waits: "call" is that handler.  A commit made   *)
(* while the seat is away succeeds and does nothing.  The operators below  *)
(* take the content frames are drawn with (look) from the module that      *)
(* composes them with the session lock.  Atomic mode setting only.         *)
(***************************************************************************)
EXTENDS Naturals

CONSTANTS
  Screens,   \* connectors
  MaxOwed    \* bounds a run: page-flip events of a connector not read yet

ASSUME ScreensAssumption == MaxOwed \in Nat \ {0}

VARIABLES
  screen,    \* the struct screen, struct output and struct connector of each
  seat,      \* session->active
  call       \* the handler in which drain_flips reads events, or Idle

screenVars == <<screen, seat, call>>

Absent ==
  [there   |-> FALSE,   \* it is connected, and has a struct output
   enabled |-> FALSE,   \* screen->enabled, of an admitted output
   off     |-> FALSE,   \* power_off
   needs   |-> FALSE,   \* needs_frame
   pending |-> FALSE,   \* frame_pending
   idle    |-> FALSE,   \* idle_frame
   flip    |-> FALSE,   \* flip_pending
   owed    |-> 0,       \* events the kernel owes or has not been asked for
   shown   |-> "none",  \* what was committed to its CRTC since it was last lit: "open" or "locked"
   missed  |-> FALSE]   \* history: its frame failed, or was sent while it was off

\* The handler that waits: none, a frame of one screen, powering one off, or a
\* configuration that enables a set of screens.
Idle  == [kind |-> "none", on |-> {}]

Lit(r)     == r.enabled /\ ~r.off
Present(f) == {x \in Screens : f[x].there}
Active(f)  == {x \in Screens : f[x].there /\ f[x].enabled}

\* screen_schedule_frame, and schedule_scene of every active output.
Scheduled(r) == [r EXCEPT !.needs = TRUE, !.missed = FALSE, !.idle = @ \/ ~r.pending]

SceneScheduled(f) == [x \in Screens |-> IF x \in Active(f) THEN Scheduled(f[x]) ELSE f[x]]

\* Mutant: frame_pending is kept.
Restarted_Pending(r) == Scheduled(r)

\* Frame_pending forgotten, and a frame scheduled at once.
Restarted(r) == Scheduled([r EXCEPT !.pending = FALSE])

\* Bounds a run: a flip is started over the event of a forgotten one only while
\* there is a single output.
OwedBound == IF \E x, y \in Present(screen) : x # y THEN 1 ELSE MaxOwed

\* A commit of a buffer: the kernel takes no page flip while it has one under
\* way, and a mode set waits for it.
MayCommit(r, modeset) == seat => IF modeset THEN r.owed < OwedBound ELSE r.owed = 0

Committed(r, look) ==
  IF ~seat THEN [r EXCEPT !.pending = TRUE]
  ELSE [r EXCEPT !.pending = TRUE, !.flip = TRUE, !.owed = @ + 1, !.shown = look]

Unlit(r) == [r EXCEPT !.flip = FALSE, !.shown = "none"]

\* output_frame draws only what is active and needs it; a frame that fails is
\* not scheduled again, one that animates is.
Draws(r)   == Lit(r) /\ r.needs
Missed(r)  == [r EXCEPT !.missed = TRUE]
Started(r) == [r EXCEPT !.pending = FALSE, !.needs = FALSE]

Finished(r, ok, look, moving) ==
  IF ~ok THEN Missed(r)
  ELSE IF moving THEN Scheduled(Committed(r, look)) ELSE Committed(r, look)

\* screen_send_frame; "ok" says whether the frame it draws is committed.
Sent(r, ok, look, moving) ==
  IF Draws(r) THEN Finished(Started(r), ok, look, moving)
  ELSE IF Lit(r) THEN [r EXCEPT !.pending = FALSE]
  ELSE [r EXCEPT !.pending = FALSE, !.missed = @ \/ r.needs]

Outcome(r, ok, moving) ==
  /\ ok => Draws(r) /\ MayCommit(r, r.shown = "none")
  /\ moving => ok

----------------------------------------------------------------------------
\* drain_flips: while a handler waits, only the events of the kernel are read.  A
\* configuration waits for the flips of every output.
Draining == \E x \in IF call.kind = "apply" THEN Screens ELSE call.on : screen[x].flip

\* page_flip: the event of a flip that is not pending any more is ignored.
PageFlip(x, ok, moving, look) ==
  LET r == [screen[x] EXCEPT !.owed = @ - 1]
      done == [r EXCEPT !.flip = FALSE]
      drawn == r.flip /\ seat IN
  /\ call = Idle \/ Draining
  /\ screen[x].owed > 0
  /\ IF drawn THEN Outcome(done, ok, moving) ELSE ~ok /\ ~moving
  /\ screen' = [screen EXCEPT ![x] = IF drawn THEN Sent(done, ok, look, moving) ELSE done]
  /\ UNCHANGED <<seat, call>>

\* idle_frame, when its commit has no flip to wait for.
IdleFrame(x, ok, moving, look) ==
  LET r == [screen[x] EXCEPT !.idle = FALSE] IN
  /\ call = Idle /\ screen[x].idle
  /\ ~(r.flip /\ ~r.pending /\ Draws(r))
  /\ IF r.pending THEN ~ok /\ ~moving ELSE Outcome(r, ok, moving)
  /\ screen' = [screen EXCEPT ![x] = IF r.pending THEN r ELSE Sent(r, ok, look, moving)]
  /\ UNCHANGED <<seat, call>>

\* The same with a flip pending, after a link was found bad.
IdleFrameStart(x) ==
  LET r == [screen[x] EXCEPT !.idle = FALSE] IN
  /\ call = Idle /\ screen[x].idle
  /\ r.flip /\ ~r.pending /\ Draws(r)
  /\ screen' = [screen EXCEPT ![x] = Started(r)]
  /\ call' = [kind |-> "frame", on |-> {x}]
  /\ UNCHANGED seat

IdleFrameFinish(x, ok, moving, look) ==
  /\ call = [kind |-> "frame", on |-> {x}]
  /\ ok => MayCommit(screen[x], TRUE)
  /\ moving => ok
  /\ screen' = [screen EXCEPT ![x] = Finished(@, ok, look, moving)]
  /\ call' = Idle
  /\ UNCHANGED seat

\* A client, an animation or the policy wants something drawn.
Damage(x) ==
  /\ call = Idle /\ x \in Active(screen)
  /\ screen' = [screen EXCEPT ![x] = Scheduled(@)]
  /\ UNCHANGED <<seat, call>>

----------------------------------------------------------------------------
\* output_power.  Powering off clears the CRTC, unless the seat is away; a
\* commit that fails leaves the screen on.
PowerOn(x) ==
  /\ call = Idle /\ screen[x].there /\ screen[x].off
  /\ screen' = [screen EXCEPT ![x] = Restarted([@ EXCEPT !.off = FALSE])]
  /\ UNCHANGED <<seat, call>>

PowerOff(x) ==
  /\ call = Idle /\ screen[x].there /\ ~screen[x].off
  /\ screen' = [screen EXCEPT ![x].off = TRUE]
  /\ call' = IF seat THEN [kind |-> "off", on |-> {x}] ELSE Idle
  /\ UNCHANGED seat

PowerOffFinish(x, ok) ==
  /\ call = [kind |-> "off", on |-> {x}]
  /\ screen' = [screen EXCEPT ![x] = IF ok THEN Unlit(@) ELSE [@ EXCEPT !.off = FALSE]]
  /\ call' = Idle
  /\ UNCHANGED seat

----------------------------------------------------------------------------
\* tomoe_outputs_apply: the backend refuses what it cannot show, and anything
\* but disabling every output while the seat is away.
ApplyStart(on) ==
  /\ call = Idle /\ Present(screen) # {}
  /\ on \subseteq Present(screen)
  /\ \A x \in on \cup Active(screen) : screen[x].owed < OwedBound
  /\ seat /\ call' = [kind |-> "apply", on |-> on]
  /\ UNCHANGED <<screen, seat>>

\* Mutant: the power state is not looked at.
Configured_Powered(r, on, look) ==
  IF ~on THEN [Unlit(r) EXCEPT !.enabled = FALSE]
  ELSE [Committed(r, look) EXCEPT !.enabled = TRUE]

\* What is enabled and powered off keeps its CRTC dark.
Configured(r, on, look) ==
  IF ~on THEN [Unlit(r) EXCEPT !.enabled = FALSE]
  ELSE IF r.off THEN [Unlit(r) EXCEPT !.enabled = TRUE, !.pending = TRUE]
  ELSE [Committed(r, look) EXCEPT !.enabled = TRUE]

\* Every output is admitted, and the scene is drawn again.
ApplyFinish(look) ==
  /\ call.kind = "apply"
  /\ screen' = SceneScheduled([x \in Screens |->
                 IF screen[x].there THEN Configured(screen[x], x \in call.on, look) ELSE screen[x]])
  /\ call' = Idle
  /\ UNCHANGED seat

\* The commit fails, and the previous configuration is committed again.
ApplyRestore(look) ==
  /\ call.kind = "apply"
  /\ screen' = [x \in Screens |->
                 IF screen[x].there THEN Configured(screen[x], screen[x].enabled, look)
                 ELSE screen[x]]
  /\ call' = Idle
  /\ UNCHANGED seat

\* Disabling everything while the seat is away.
ApplyAway ==
  /\ call = Idle /\ ~seat /\ Active(screen) # {}
  /\ screen' = [x \in Screens |-> [screen[x] EXCEPT !.enabled = FALSE]]
  /\ UNCHANGED <<seat, call>>

----------------------------------------------------------------------------
\* scan_connectors: a connector that is gone, or has another EDID, is destroyed
\* and its output with it; a bad link is lit again; new connectors get an
\* output that is not admitted.
Scanned(f, gone, bad, fresh) ==
  LET left == [x \in Screens |-> IF x \in gone THEN Absent ELSE f[x]]
      drawn == IF gone = {} THEN left ELSE SceneScheduled(left) IN
  [x \in Screens |-> IF x \in bad THEN Restarted(drawn[x])
                     ELSE IF x \in fresh THEN [Absent EXCEPT !.there = TRUE, !.owed = f[x].owed]
                     ELSE drawn[x]]

MayBeBad   == {x \in Active(screen) : ~screen[x].off}
MayBeFresh == Screens \ Present(screen)

Hotplug(gone, bad, fresh) ==
  /\ call = Idle /\ seat
  /\ <<gone, bad, fresh>> # <<{}, {}, {}>>
  /\ screen' = Scanned(screen, gone, bad, fresh)
  /\ UNCHANGED <<seat, call>>

\* disable_seat and enable_seat: the flips under way are forgotten, and every
\* CRTC is set again.
Pause ==
  /\ call = Idle /\ seat
  /\ seat' = FALSE
  /\ screen' = [x \in Screens |-> [screen[x] EXCEPT !.flip = FALSE]]
  /\ UNCHANGED call

Resume(gone, bad, fresh) ==
  LET dark == [x \in Screens |-> [screen[x] EXCEPT !.shown = "none"]]
      scan == Scanned(dark, gone, bad, fresh) IN
  /\ call = Idle /\ ~seat
  /\ seat' = TRUE
  /\ screen' = [x \in Screens |-> IF x \in Active(scan) THEN Restarted(scan[x]) ELSE scan[x]]
  /\ UNCHANGED call

----------------------------------------------------------------------------
ScreensInit ==
  /\ screen = [x \in Screens |-> Absent]
  /\ seat = TRUE
  /\ call = Idle

=============================================================================
