------------------------------- MODULE Shell --------------------------------
(***************************************************************************)
(* xdg-shell and windows (xdg_shell.c, window.c, decoration.c): the        *)
(* configures a toplevel or popup is sent, what of them the client         *)
(* acknowledges and commits, the windows that the policy places, focuses   *)
(* and makes fullscreen, and the lives of role objects, xdg surfaces and   *)
(* the popups below them.  A request that draws a protocol error is not a  *)
(* step: its client is disconnected, which destroys its surfaces.          *)
(***************************************************************************)
EXTENDS Naturals, Sequences, FiniteSets

CONSTANTS
  Toplevels, Popups,  \* the surfaces with an xdg_surface, by the role they take
  Sizes,              \* the sizes (with their scale) a window may be given
  Configures,         \* XDG_CONFIGURES
  Nobody              \* no surface, no size

ASSUME ShellAssumption ==
  /\ Toplevels \cap Popups = {} /\ Nobody \notin Toplevels \cup Popups \cup Sizes
  /\ Configures \in Nat \ {0}

VARIABLES
  xdg,     \* each surface with its xdg_surface, role object, window and decoration
  focused  \* the window the policy focused

XdgSurfaces == Toplevels \cup Popups

\* What a toplevel is told: its size, whether it is fullscreen, whether activated.
NoState == [size |-> Nobody, full |-> FALSE, act |-> FALSE]

\* The surface: attached (the pending buffer has a size), texture (it was
\* uploaded), mapped.  The xdg_surface: exists, configured, initialized, idle (a
\* configure is scheduled), sent (what is sent and not acknowledged: whether
\* fullscreen), said (the last configure).  role: it was given one, which it keeps.
\* stale: the role object was made on an xdg_surface that was not reset.
\* From sched on: xdg_toplevel, struct window and struct decoration.
Fresh ==
  [attached |-> FALSE, texture |-> FALSE, mapped |-> FALSE,
   exists |-> FALSE, role |-> FALSE, object |-> FALSE, parent |-> Nobody, stale |-> FALSE,
   configured |-> FALSE, initialized |-> FALSE, idle |-> FALSE, sent |-> <<>>, said |-> NoState,
   sched |-> NoState, pending |-> FALSE, current |-> FALSE,
   admitted |-> FALSE, known |-> Nobody, size |-> Nobody, full |-> FALSE,
   fullscreen_state |-> FALSE, decoration |-> "none"]

WithoutToplevel(r) ==
  [r EXCEPT !.sched = NoState, !.pending = FALSE, !.current = FALSE,
            !.admitted = FALSE, !.known = Nobody, !.size = Nobody, !.full = FALSE,
            !.fullscreen_state = FALSE, !.decoration = "none"]

ShellInit == xdg = [x \in XdgSurfaces |-> Fresh] /\ focused = Nobody

(***************************************************************************)
(* Configures.                                                             *)
(***************************************************************************)
Scheduled(r) == [r EXCEPT !.idle = TRUE]

\* The configures xdg_toplevel_configure_* make.
Sized(r, s)       == Scheduled([r EXCEPT !.sched.size = s])
Fullscreened(r, b) == Scheduled([r EXCEPT !.sched.full = b])
Activated(r, b)   == Scheduled([r EXCEPT !.sched.act = b])

\* The oldest configure is forgotten when the list is full.
Sent(r) ==
  [r EXCEPT !.idle = FALSE, !.said = r.sched,
            !.sent = Append(IF Len(@) = Configures THEN Tail(@) ELSE @, r.sched.full),
            !.decoration = IF @ = "none" THEN @ ELSE "told"]

configure_idle(x) ==
  /\ xdg[x].idle
  /\ xdg' = [xdg EXCEPT ![x] = Sent(@)]
  /\ UNCHANGED focused

ack_configure(x) ==
  /\ xdg[x].role
  /\ \E i \in DOMAIN xdg[x].sent :
       xdg' = [xdg EXCEPT ![x].sent = SubSeq(@, i + 1, Len(@)),
                          ![x].configured = TRUE,
                          ![x].pending = IF xdg[x].object THEN xdg[x].sent[i] ELSE @]
  /\ UNCHANGED focused

(***************************************************************************)
(* Popups go with what they hang from.  A popup that is dismissed loses    *)
(* its role object, and its xdg_surface is not reset.                      *)
(***************************************************************************)
HangsIn(f, C) == \A p \in Popups : f[p].object /\ f[p].parent \in C => p \in C

Below(f, S) ==
  {p \in Popups \ S : \A C \in SUBSET XdgSurfaces : S \subseteq C /\ HangsIn(f, C) => p \in C}

Dismissed(f, S) ==
  [x \in XdgSurfaces |->
     IF x \in S THEN [f[x] EXCEPT !.object = FALSE, !.mapped = FALSE, !.parent = Nobody] ELSE f[x]]

Emptied(r) ==
  [r EXCEPT !.configured = FALSE, !.initialized = FALSE, !.idle = FALSE, !.sent = <<>>]

\* Mutant: initialized is kept.
surface_reset_Initialized(f, x) ==
  LET g == Dismissed(f, Below(f, {x}))
  IN  [g EXCEPT ![x] = [Emptied(@) EXCEPT !.initialized = g[x].initialized]]

surface_reset(f, x) == [Dismissed(f, Below(f, {x})) EXCEPT ![x] = Emptied(@)]

\* The window goes, and with it the focus it had.
role_object_destroy(f, x) ==
  [f EXCEPT ![x] = WithoutToplevel([@ EXCEPT !.object = FALSE, !.mapped = FALSE,
                                             !.parent = Nobody, !.stale = FALSE])]

FocusWithout(x) == IF focused = x THEN Nobody ELSE focused

(***************************************************************************)
(* Windows.                                                                *)
(***************************************************************************)
configure_xdg(r) ==
  IF ~r.initialized \/ r.known = r.size THEN r
  ELSE [Sized(r, r.size) EXCEPT !.known = r.size]

window_activate(r, b) == IF r.initialized THEN Activated(r, b) ELSE r

\* Mutant: what the client has committed is compared.
tomoe_window_state_Current(r, full) ==
  LET q == [r EXCEPT !.full = full]
  IN  IF q.initialized /\ q.current # full THEN Fullscreened(q, full) ELSE q

tomoe_window_state(r, full) ==
  LET q == [r EXCEPT !.full = full]
  IN  IF q.initialized /\ q.sched.full # full THEN Fullscreened(q, full) ELSE q

\* The surface's map and unmap listeners.  A window is admitted with the size of its
\* first buffer.
mapped(r, s) ==
  [r EXCEPT !.mapped = TRUE, !.known = Nobody, !.fullscreen_state = r.current,
            !.admitted = TRUE, !.size = IF r.admitted THEN @ ELSE s]

unmapped(r) == [r EXCEPT !.mapped = FALSE, !.known = Nobody]

window_commit(r, initial, active) ==
  CASE initial /\ ~r.admitted -> Sized(r, Nobody)
    [] initial /\ r.admitted ->
         [Activated(Fullscreened(Sized(r, r.size), r.full), active) EXCEPT !.known = r.size]
    [] OTHER -> [r EXCEPT !.fullscreen_state = r.current]

popup_commit(r, initial) == IF initial THEN Scheduled(r) ELSE r

(***************************************************************************)
(* A commit: what is attached, whether its upload works, the first size of *)
(* a toplevel.  A null buffer unmaps the surface before the role looks,    *)
(* so the role is reset only when a mapped surface lost its texture.       *)
(***************************************************************************)
Attaches == {"keep", "null", "buffer"}

Applied(r, what, works) ==
  LET u == IF what = "null" /\ r.mapped THEN unmapped(r) ELSE r
  IN  [u EXCEPT !.attached = CASE what = "keep" -> @ [] what = "null" -> FALSE [] OTHER -> TRUE,
                !.texture  = CASE what = "keep" -> @ [] what = "null" -> FALSE [] OTHER -> works,
                !.current  = r.pending]

\* The role's commit, whether it was an initial one, and the listeners.
role_commit(f, x, s) ==
  LET r == f[x]
      lost == r.mapped /\ ~r.texture
      initial == ~lost /\ ~r.initialized
      g == IF lost THEN surface_reset(f, x) ELSE [f EXCEPT ![x].initialized = TRUE]
      shown == IF ~g[x].mapped /\ g[x].texture
               THEN IF x \in Toplevels THEN mapped(g[x], s) ELSE [g[x] EXCEPT !.mapped = TRUE]
               ELSE g[x]
  IN  [g EXCEPT ![x] = IF x \in Toplevels THEN window_commit(shown, initial, focused = x)
                       ELSE popup_commit(shown, initial)]

Commit(x, what, works, s) ==
  /\ xdg[x].object
  /\ x \in Popups => xdg[x].parent # Nobody
  /\ what = "buffer" \/ (what = "keep" /\ xdg[x].attached) => xdg[x].configured
  /\ xdg' = role_commit([xdg EXCEPT ![x] = Applied(@, what, works)], x, s)
  /\ UNCHANGED focused

(***************************************************************************)
(* The lives of the objects.                                               *)
(***************************************************************************)
get_xdg_surface(x) ==
  /\ ~xdg[x].exists /\ ~xdg[x].texture
  /\ xdg' = [xdg EXCEPT ![x].exists = TRUE]
  /\ UNCHANGED focused

get_toplevel(x) ==
  /\ x \in Toplevels /\ xdg[x].exists /\ ~xdg[x].object
  /\ xdg' = [xdg EXCEPT ![x] = WithoutToplevel([@ EXCEPT !.role = TRUE, !.object = TRUE,
                                                           !.stale = xdg[x].initialized])]
  /\ UNCHANGED focused

\* The parent may be a surface whose own role object is gone; that clients do not
\* hang a popup from one below it is assumed.  (A popup without a parent gets it
\* from a layer surface, get_popup in layer_shell.c.)
get_popup(x, y) ==
  /\ x \in Popups /\ xdg[x].exists /\ ~xdg[x].object
  /\ xdg[y].role /\ y \notin {x} \cup Below(xdg, {x})
  /\ xdg' = [xdg EXCEPT ![x] = [@ EXCEPT !.role = TRUE, !.object = TRUE, !.parent = y,
                                  !.stale = xdg[x].initialized]]
  /\ UNCHANGED focused

\* A popup that others hang from must not go before them.
role_resource_destroyed(x) ==
  /\ xdg[x].object
  /\ x \in Popups => Below(xdg, {x}) = {}
  /\ xdg' = surface_reset(role_object_destroy(xdg, x), x)
  /\ focused' = FocusWithout(x)

surface_destroy_request(x) ==
  /\ xdg[x].exists /\ ~xdg[x].object
  /\ LET f == surface_reset(xdg, x)
     IN  xdg' = [f EXCEPT ![x] = [Fresh EXCEPT !.attached = f[x].attached, !.texture = f[x].texture]]
  /\ UNCHANGED focused

\* The wl_surface goes, by request or with its client (surface_free of both files).
SurfaceFree(x) ==
  /\ xdg[x] # Fresh
  /\ xdg' = [surface_reset(role_object_destroy(xdg, x), x) EXCEPT ![x] = Fresh]
  /\ focused' = FocusWithout(x)

\* A grab that no seat of the client's answers for.
GrabRefused(x) ==
  /\ x \in Popups /\ xdg[x].object
  /\ xdg' = Dismissed(xdg, {x} \cup Below(xdg, {x}))
  /\ UNCHANGED focused

popup_reposition(x) ==
  /\ x \in Popups /\ xdg[x].object
  /\ xdg' = [xdg EXCEPT ![x] = Scheduled(@)]
  /\ UNCHANGED focused

\* set_fullscreen, set_maximized and their opposites: the policy decides.
window_request(x) ==
  /\ x \in Toplevels /\ xdg[x].object /\ xdg[x].initialized
  /\ xdg' = [xdg EXCEPT ![x] = Scheduled(@)]
  /\ UNCHANGED focused

\* get_toplevel_decoration, set_mode and unset_mode: a mode to be told of.
Decorate(x, fresh) ==
  /\ x \in Toplevels /\ xdg[x].object
  /\ fresh => xdg[x].decoration = "none" /\ ~xdg[x].texture
  /\ ~fresh => xdg[x].decoration # "none"
  /\ xdg' = [xdg EXCEPT ![x] = [IF @.initialized THEN Scheduled(@) ELSE @ EXCEPT !.decoration = "untold"]]
  /\ UNCHANGED focused

decoration_detach(x) ==
  /\ xdg[x].decoration # "none"
  /\ xdg' = [xdg EXCEPT ![x].decoration = "none"]
  /\ UNCHANGED focused

(***************************************************************************)
(* The policy.                                                             *)
(***************************************************************************)
windows_publish_presentation(x, s, full) ==
  /\ xdg[x].admitted
  /\ LET r == tomoe_window_state([xdg[x] EXCEPT !.size = s], full)
     IN  xdg' = [xdg EXCEPT ![x] = IF r.mapped THEN configure_xdg(r) ELSE r]
  /\ UNCHANGED focused

windows_refresh(x) ==
  /\ xdg[x].mapped
  /\ xdg' = [xdg EXCEPT ![x] = configure_xdg(@)]
  /\ UNCHANGED focused

Focus(x) ==
  /\ x # focused /\ (x # Nobody => xdg[x].admitted)
  /\ xdg' = [y \in XdgSurfaces |-> CASE y = focused -> window_activate(xdg[y], FALSE)
                                     [] y = x -> window_activate(xdg[y], TRUE)
                                     [] OTHER -> xdg[y]]
  /\ focused' = x

ShellNext ==
  \/ \E x \in XdgSurfaces :
       \/ get_xdg_surface(x) \/ get_toplevel(x) \/ role_resource_destroyed(x)
       \/ surface_destroy_request(x) \/ SurfaceFree(x) \/ GrabRefused(x)
       \/ configure_idle(x) \/ ack_configure(x) \/ popup_reposition(x)
       \/ window_request(x) \/ decoration_detach(x)
       \/ \E y \in XdgSurfaces : get_popup(x, y)
       \/ \E fresh \in BOOLEAN : Decorate(x, fresh)
       \/ \E what \in Attaches, works \in BOOLEAN, s \in Sizes : Commit(x, what, works, s)
  \/ \E x \in Toplevels :
       \/ windows_refresh(x)
       \/ \E s \in Sizes, full \in BOOLEAN : windows_publish_presentation(x, s, full)
  \/ \E x \in Toplevels \cup {Nobody} : Focus(x)

(***************************************************************************)
(* Properties                                                              *)
(***************************************************************************)
\* Whatever order the policy and the client act in, the configure that was sent last,
\* or one that is scheduled, says what the policy wants of the window now: the size
\* it was given, fullscreen or not, activated if it has the focus, and its decoration
\* mode.  Nothing said to a window while it could not be configured is lost.
WishIsSent ==
  \A x \in Toplevels :
    xdg[x].object /\ xdg[x].initialized =>
      LET r == xdg[x] IN
      /\ r.idle \/ (r.said = r.sched /\ r.decoration # "untold")
      /\ r.admitted => r.sched.full = r.full /\ r.sched.act = (focused = x)
      /\ r.mapped /\ r.known # Nobody => r.sched.size = r.size

\* The first commit of a role object is answered: a configure is scheduled, was sent
\* or acknowledged, so that the client may go on to attach a buffer.  Not so for one
\* made on an xdg_surface whose last popup the compositor dismissed: that one is not
\* reset.
FirstCommitIsAnswered ==
  \A x \in XdgSurfaces :
    xdg[x].object /\ xdg[x].initialized /\ ~xdg[x].stale =>
      xdg[x].idle \/ xdg[x].sent # <<>> \/ xdg[x].configured
=============================================================================
