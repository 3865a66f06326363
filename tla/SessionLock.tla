----------------------------- MODULE SessionLock -----------------------------
(***************************************************************************)
(* The session lock: native/lock.c over the frames of Screens.             *)
(*                                                                         *)
(* A lock waits, for a second at most, until its client has mapped a       *)
(* surface on every active output; from then on every frame is drawn       *)
(* locked, and when each lit output has drawn one the client is told that  *)
(* the session is locked.  The client may die at any time: the session     *)
(* stays locked, and another client may take the lock over.                *)
(***************************************************************************)
EXTENDS Screens

VARIABLES
  lock,      \* lock_state
  holder,    \* session_lock: some client holds the lock object
  told,      \* lock_confirmed
  deadline,  \* lock_deadline_source
  cover,     \* lock_surfaces: the outputs on which one is mapped
  drawn,     \* lock_rendered, of the outputs the lock waits for
  excused    \* history: the outputs confirm did not wait for

lockVars == <<lock, holder, told, deadline, cover, drawn, excused>>
vars     == <<screenVars, lockVars>>

LockActive == lock \in {"locking", "locked"}
\* Mutant: frames are drawn locked only once the lock is confirmed.
look_Confirmed == IF lock = "locked" THEN "locked" ELSE "open"

look == IF LockActive THEN "locked" ELSE "open"

\* surfaces_ready, of outputs f and surfaces c.
Ready(f, c) == Active(f) \subseteq c

\* The outputs lock_frame_rendered still waits for.
Awaited(f, d) == {x \in Active(f) : ~f[x].off} \ d

\* confirm, of outputs f: the holder, if there is one, is told.
Confirm(f, held, d) ==
  /\ lock' = "locked" /\ told' = held /\ drawn' = {}
  /\ excused' = IF lock = "locked" THEN excused ELSE Active(f) \ d

\* begin_locking, of outputs f before the scene is scheduled.
Begin(f, held) ==
  /\ deadline' = FALSE
  /\ screen' = SceneScheduled(f)
  /\ IF Awaited(f, {}) = {} THEN Confirm(f, held, {})
     ELSE lock' = "locking" /\ drawn' = {} /\ UNCHANGED <<told, excused>>

\* lock_frame_rendered, after the step that drew output x.
Rendered(x) ==
  /\ IF lock # "locking" THEN UNCHANGED <<lock, told, drawn, excused>>
     ELSE IF Awaited(screen', drawn \cup {x}) = {} THEN Confirm(screen', holder, drawn \cup {x})
     ELSE drawn' = drawn \cup {x} /\ UNCHANGED <<lock, told, excused>>
  /\ UNCHANGED <<holder, deadline, cover>>

Draw(x, ok) == IF ok THEN Rendered(x) ELSE UNCHANGED lockVars

----------------------------------------------------------------------------
\* lock: a second client finds the lock taken, or takes over a lock whose
\* client died, and is told at once.
Lock ==
  /\ call = Idle /\ ~holder
  /\ holder' = TRUE
  /\ IF LockActive
     THEN /\ Confirm(screen, TRUE, drawn)
          /\ UNCHANGED <<screen, deadline>>
     ELSE /\ lock' = "waiting" /\ deadline' = TRUE
          /\ UNCHANGED <<screen, told, drawn, excused>>
  /\ UNCHANGED <<seat, call, cover>>

\* get_lock_surface, of a wl_output whose global exists, then the commit of a
\* buffer of the size the client acknowledged: role_commit, lock_surface_commit.
CommitLockSurface(x) ==
  /\ call = Idle /\ holder /\ x \in Active(screen) \cup cover
  /\ cover' = cover \cup {x}
  /\ IF lock = "waiting" /\ Ready(screen, cover') THEN Begin(screen, holder)
     ELSE screen' = SceneScheduled(screen) /\ UNCHANGED <<lock, told, deadline, drawn, excused>>
  /\ UNCHANGED <<seat, call, holder>>

\* lock_surface_free, when the client destroys the surface.
DestroyLockSurface(x) ==
  /\ call = Idle /\ x \in cover
  /\ cover' = cover \ {x}
  /\ screen' = SceneScheduled(screen)
  /\ UNCHANGED <<seat, call, lock, holder, told, deadline, drawn, excused>>

\* unlock_and_destroy, by a client that was told; one that was not is killed.
Unlock ==
  /\ call = Idle /\ holder /\ told
  /\ holder' = FALSE /\ told' = FALSE /\ lock' = "unlocked" /\ deadline' = FALSE
  /\ cover' = {}
  /\ screen' = SceneScheduled(screen)
  /\ excused' = {}
  /\ UNCHANGED <<seat, call, drawn>>

\* lock_resource_destroy: the client dies or gives up the lock object.
LockerGone ==
  /\ call = Idle /\ holder
  /\ holder' = FALSE
  /\ cover' = {}
  /\ IF lock = "waiting" THEN Begin(screen, FALSE)
     ELSE /\ screen' = IF cover = {} THEN screen ELSE SceneScheduled(screen)
          /\ UNCHANGED <<lock, deadline, drawn, excused>>
  /\ told' = FALSE
  /\ UNCHANGED <<seat, call>>

\* lock_deadline, a second after lock; and lock_refresh, in every tomoe_step.
Deadline ==
  /\ call = Idle /\ lock = "waiting" /\ deadline
  /\ Begin(screen, holder)
  /\ UNCHANGED <<seat, call, holder, cover>>

LockRefresh ==
  /\ call = Idle /\ lock = "waiting" /\ Ready(screen, cover)
  /\ Begin(screen, holder)
  /\ UNCHANGED <<seat, call, holder, cover>>

\* lock_surface_output_destroy, and the new struct output.
Forgotten(gone) ==
  /\ cover' = cover \ gone
  /\ drawn' = drawn \ gone
  /\ excused' = excused \ gone
  /\ UNCHANGED <<lock, holder, told, deadline>>

----------------------------------------------------------------------------
LockInit ==
  /\ lock = "unlocked" /\ holder = FALSE /\ told = FALSE /\ deadline = FALSE
  /\ cover = {}
  /\ drawn = {} /\ excused = {}

Init == ScreensInit /\ LockInit

Frame(x) == \E ok, moving \in BOOLEAN :
  /\ \/ PageFlip(x, ok, moving, look)
     \/ IdleFrame(x, ok, moving, look)
     \/ IdleFrameFinish(x, ok, moving, look)
  /\ Draw(x, ok)

Power(x) == PowerOn(x) \/ PowerOff(x) \/ \E ok \in BOOLEAN : PowerOffFinish(x, ok)

Apply == (\E on \in SUBSET Present(screen) : ApplyStart(on))
         \/ ApplyFinish(look) \/ ApplyRestore(look) \/ ApplyAway

Scan == \E gone \in SUBSET Present(screen) :
        \E bad \in SUBSET (MayBeBad \ gone), fresh \in SUBSET (MayBeFresh \cup gone) :
  /\ Hotplug(gone, bad, fresh) \/ Resume(gone, bad, fresh)
  /\ Forgotten(gone)

Client == Lock \/ Unlock \/ LockerGone
          \/ \E x \in Screens : CommitLockSurface(x) \/ DestroyLockSurface(x)

Display == (\E x \in Screens : IdleFrameStart(x) \/ Damage(x) \/ Power(x)) \/ Apply \/ Pause

Next ==
  \/ \E x \in Screens : Frame(x)
  \/ Display /\ UNCHANGED lockVars
  \/ Scan
  \/ Client \/ Deadline \/ LockRefresh

Spec == Init /\ [][Next]_vars

----------------------------------------------------------------------------
Rests(x) == call # [kind |-> "frame", on |-> {x}]

\* What a lit screen still has to draw is drawn by a coming event: an idle
\* callback, or a page flip the kernel owes.  A frame is lost only where the code
\* gives it up: a commit that failed, or a frame sent while the screen was being
\* powered off in vain.
FramesAreComing == \A x \in Active(screen) :
  seat /\ call = Idle /\ ~screen[x].off /\ screen[x].needs /\ ~screen[x].missed =>
    screen[x].idle \/ (screen[x].pending /\ screen[x].flip /\ screen[x].owed > 0)

\* Once the session is locked, a lit screen shows a locked frame, whatever was
\* replugged, reconfigured, powered or taken away meanwhile.  The only outputs that
\* may still show the session are those confirm did not wait for: a second client
\* took the lock over, or the screen was being powered off in vain; and these have
\* a locked frame due.  While the lock is not confirmed, each lit output it waits
\* for has a frame due.
LockedIsCovered == \A x \in Active(screen) :
  /\ lock = "locked" /\ seat /\ ~screen[x].off /\ screen[x].shown = "open" =>
       x \in excused /\ (screen[x].needs \/ screen[x].missed \/ ~Rests(x))
  /\ lock = "locking" /\ x \in Awaited(screen, drawn) /\ Rests(x) =>
       screen[x].needs \/ screen[x].missed

\* A screen that is powered off, or disabled, shows nothing, also when it was
\* reconfigured, or its link retrained, since.
DarkIsDark == \A x \in Screens :
  seat /\ call = Idle /\ (screen[x].off \/ ~screen[x].enabled) => screen[x].shown = "none"
=============================================================================
