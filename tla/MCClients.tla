------------------------------ MODULE MCClients ------------------------------
(***************************************************************************)
(* The objects of Wayland clients, and how their content reaches the       *)
(* screen.  A behaviour is one of one part: the parts share no state; the  *)
(* seat, the shell and the buffers are run several times, each time with   *)
(* the entry points that bear on each other.                               *)
(***************************************************************************)
EXTENDS Seat, Shell, SurfaceTree, Buffers, Damage

CONSTANTS c1, c2, w1, w2, x1, x2, x3, t1, p1, p2

VARIABLE part  \* the component whose behaviour this is

SeatParts == {"selections", "drags", "popups"}

MCOwner == w1 :> c1 @@ w2 :> c2
MCKind  == x1 :> "data" @@ x2 :> "control" @@ x3 :> "primary"

shells  == <<xdg, focused>>
trees   == <<tree, clock>>
buffers == <<pool, win, output>>
frames  == <<scene, tracking, ring, onscreen>>

vars == <<seat, shells, trees, buffers, frames, part>>

Init ==
  /\ part \in SeatParts \cup {"windows", "xdg_popups", "trees", "buffers", "feedback", "damage"}
  /\ SeatInit(IF part = "selections" THEN {} ELSE Clients)
  /\ ShellInit /\ SurfacesInit /\ BuffersInit
  /\ DamageInit /\ scene = [r \in Regions |-> CHOOSE p \in Paints : TRUE]

OfSelections == part = "selections" /\ (ClientsNext \/ SelectionsNext \/ FocusNext)

\* One source is dragged, selected or freed while the pointer moves.
OfDrags ==
  /\ part = "drags"
  /\ \/ source_create(x1) \/ source_resource_destroy(x1)
     \/ \E c \in Clients : data_device_set_selection(c, x1) \/ seat_client_free(c)
     \/ FocusNext \/ DragsNext \/ PointerNext

OfPopups ==
  /\ part = "popups"
  /\ \/ source_create(x1) \/ source_resource_destroy(x1)
     \/ DragsNext \/ PointerNext \/ PopupsNext

OfSeat == OfSelections \/ OfDrags \/ OfPopups

\* A toplevel without popups, and its window.
OfWindows == part = "windows" /\ ShellNext /\ \A p \in Popups : xdg'[p] = xdg[p]

\* Popups on each other and on a toplevel that is not committed; uploads work.
OfXdgPopups ==
  /\ part = "xdg_popups"
  /\ \/ \E x \in XdgSurfaces :
          \/ get_xdg_surface(x) \/ get_toplevel(x) \/ role_resource_destroyed(x)
          \/ surface_destroy_request(x) \/ SurfaceFree(x)
     \/ \E x \in Popups :
          \/ GrabRefused(x) \/ popup_reposition(x) \/ configure_idle(x) \/ ack_configure(x)
          \/ \E y \in XdgSurfaces : get_popup(x, y)
          \/ \E what \in Attaches, s \in Sizes : Commit(x, what, TRUE, s)

\* Children are placed next to their parent, and a root that goes does not return.
OfTrees ==
  /\ part = "trees"
  /\ \E s \in Nodes :
       \/ \E buffer \in {"same", "null", "new"}, wait \in BOOLEAN : surface_commit(s, buffer, wait)
       \/ acquire_ready(s) \/ surface_free(s) \/ RoleDestroyed(s)
       \/ subsurface_set_sync(s) \/ subsurface_set_desync(s)
       \/ s \notin Roots /\ create_surface(s)
       \/ \E p \in Nodes : get_subsurface(s, p)
       \/ \E above \in BOOLEAN : subsurface_place(s, tree[s].parent, above)

OutputFrames ==
  \/ \E b \in RingBuffers, drawn, commits \in BOOLEAN : RenderFrame(b, drawn, commits)
  \/ \E commits \in BOOLEAN : ScanoutFrame(commits)
  \/ page_flip

\* A client makes, attaches and destroys buffers.
OfBuffers ==
  /\ part = "buffers"
  /\ \/ OutputFrames \/ SurfaceGoes
     \/ \E b \in Shm \cup Gpu : CreateBuffer(b) \/ DestroyResource(b)
     \/ \E b \in Shm \cup Gpu \cup {None}, sync \in BOOLEAN : surface_attach(b, sync)
     \/ \E ok \in BOOLEAN : CommitBuffer(ok)

\* It asks for feedback while the output is switched off and resized.
OfFeedback ==
  /\ part = "feedback"
  /\ \/ OutputFrames \/ presentation_feedback \/ ConnectorOff \/ ring_finish
     \/ \E b \in Gpu : CreateBuffer(b) \/ surface_attach(b, FALSE)
     \/ CommitBuffer(TRUE)

Next ==
  /\ \/ OfSeat /\ UNCHANGED <<shells, trees, buffers, frames>>
     \/ (OfWindows \/ OfXdgPopups) /\ UNCHANGED <<seat, trees, buffers, frames>>
     \/ OfTrees /\ UNCHANGED <<seat, shells, buffers, frames>>
     \/ (OfBuffers \/ OfFeedback) /\ UNCHANGED <<seat, shells, trees, frames>>
     \/ part = "damage" /\ DamageNext /\ UNCHANGED <<seat, shells, trees, buffers>>
  /\ UNCHANGED part

Spec == Init /\ [][Next]_vars

=============================================================================
