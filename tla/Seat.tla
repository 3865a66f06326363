-------------------------------- MODULE Seat --------------------------------
(***************************************************************************)
(* The seat (seat.c), the selections and drags that live on it             *)
(* (selection.c), the grabs of popups (xdg_shell.c) and the pointer path   *)
(* of input.c that moves the focus.  The handlers call each other through  *)
(* listeners and grab interfaces (a source that goes ends its drag, which  *)
(* ends the grabs, which moves both focuses, which sends the selection     *)
(* again), so the state is one record and a handler is an operator on it;  *)
(* an action applies one entry point.  A request that draws a protocol     *)
(* error is not a step: its client is disconnected.                        *)
(***************************************************************************)
EXTENDS Naturals, FiniteSets, SequencesExt

CONSTANTS
  Clients, Surfaces, Owner,  \* Owner \in [Surfaces -> Clients]
  Sources, Kind,             \* Kind \in [Sources -> {"data", "primary", "control"}]
  Buttons,
  OldClients,                \* the clients whose offers are older than version 3
  Poppers, Managers,         \* the clients that open popups with a grab, and clipboard managers
  Nothing                    \* NULL

\* A drag, from the client that started it to the surface it is over.
Drags == [origin : Clients, source : Sources \cup {Nothing}, focus : Surfaces \cup {Nothing},
          client : Clients \cup {Nothing}, dropped : BOOLEAN]

ASSUME SeatAssumption ==
  /\ IsFiniteSet(Buttons)
  /\ Owner \in [Surfaces -> Clients]
  /\ Kind \in [Sources -> {"data", "primary", "control"}]
  /\ OldClients \cup Poppers \cup Managers \subseteq Clients
  /\ Nothing \notin Clients \cup Surfaces \cup Sources \cup Drags

VARIABLE seat

Slots == {"selection", "primary"}

\* A source that is not live has been freed or not been created; the one action
\* that sources and offers may set is copy.
NoSource == [live |-> FALSE, used |-> FALSE, accepted |-> FALSE, action |-> FALSE]
NewSource == [NoSource EXCEPT !.live = TRUE]

SeatInit(clients) ==
  seat = [alive |-> Surfaces, over |-> Nothing, wanted |-> Nothing, mode |-> FALSE,
          bound |-> clients, devices |-> clients, controls |-> {},
          pfocus |-> Nothing, pclient |-> Nothing, kfocus |-> Nothing, kclient |-> Nothing,
          pgrab |-> "default", kgrab |-> "default", popups |-> {}, grabber |-> Nothing,
          buttons |-> {}, grabButton |-> Nothing, serial |-> Nothing,
          slot |-> [x \in Slots |-> Nothing], dragSource |-> Nothing,
          drag |-> Nothing, source |-> [x \in Sources |-> NoSource], offers |-> {},
          told |-> [k \in Slots |-> TRUE], controlsTold |-> [k \in Slots |-> {}]]

(***************************************************************************)
(* What clients are told of the selections: whether the devices of the     *)
(* client with the keyboard, and which of the managers, were last told the *)
(* source the slot has now.  Offers of a selection carry no other state.   *)
(***************************************************************************)
send_selection(s, c, k) == [s EXCEPT !.told[k] = @ \/ c \in s.devices]

control_send(s, c, k) == [s EXCEPT !.controlsTold[k] = @ \cup {c}]

seat_selection_focus(s, c) == send_selection(send_selection(s, c, "selection"), c, "primary")

\* Mutant: the managers are not told.
selection_changed_FocusOnly(s, k) ==
  IF s.kclient = Nothing THEN s ELSE send_selection(s, s.kclient, k)

selection_changed(s, k) ==
  LET focus == IF s.kclient = Nothing THEN s ELSE send_selection(s, s.kclient, k)
  IN  [focus EXCEPT !.controlsTold[k] = @ \cup s.controls]

\* The slot changes: nobody has been told yet.
Put(s, k, x) == [s EXCEPT !.slot[k] = x, !.told[k] = FALSE, !.controlsTold[k] = {}]

(***************************************************************************)
(* Focus, under the default grabs.                                         *)
(***************************************************************************)
seat_client_for(s, x) ==
  IF x # Nothing /\ Owner[x] \in s.bound THEN Owner[x] ELSE Nothing

seat_pointer_enter(s, x) ==
  IF s.pfocus = x THEN s ELSE [s EXCEPT !.pfocus = x, !.pclient = seat_client_for(s, x)]

seat_keyboard_enter(s, x) ==
  IF s.kfocus = x THEN s
  ELSE LET c == seat_client_for(s, x)
           t == [s EXCEPT !.kfocus = x, !.kclient = c, !.told = [k \in Slots |-> FALSE]]
       IN  IF c = Nothing THEN t ELSE seat_selection_focus(t, c)

update_keyboard_focus(s) ==
  IF s.kgrab = "default" THEN seat_keyboard_enter(s, s.wanted) ELSE s

(***************************************************************************)
(* A drag's focus: the offers of the surface it leaves are freed unless it *)
(* has been dropped, the surface it enters gets new ones.                  *)
(***************************************************************************)
DragLeaves(s) ==
  LET d == s.drag IN
  [s EXCEPT !.drag.focus = Nothing, !.drag.client = Nothing,
            !.offers = IF d.client = Nothing \/ d.dropped THEN @
                       ELSE {o \in @ : ~(o.source = d.source /\ o.to = d.client)}]

DragEnters(s, x) ==
  LET d == s.drag
      c == seat_client_for(s, x) IN
  IF c = Nothing \/ (d.source = Nothing /\ Owner[x] # d.origin) THEN s
  ELSE LET t == [s EXCEPT !.drag.focus = x, !.drag.client = c] IN
       IF d.source = Nothing THEN t
       ELSE LET u == [t EXCEPT !.source[d.source].accepted = FALSE] IN
            IF c \notin s.devices THEN u
            ELSE [u EXCEPT !.offers = @ \cup {[to |-> c, source |-> d.source]},
                           !.source[d.source].action = c \in OldClients]

drag_set_focus(s, x) ==
  CASE s.drag.focus = x -> s
    [] s.drag.focus # x /\ x = Nothing -> DragLeaves(s)
    [] OTHER -> DragEnters(DragLeaves(s), x)

(***************************************************************************)
(* Grabs, buttons and the pointer path.  Ending the popups' grab tells     *)
(* every popup and ends both grabs.                                        *)
(***************************************************************************)
NotifyFocus(s, x) ==
  LET t == CASE s.pgrab = "default" -> seat_pointer_enter(s, x)
             [] s.pgrab = "drag" -> drag_set_focus(s, x)
             [] s.pgrab = "popup" ->
                  seat_pointer_enter(s, IF x # Nothing /\ Owner[x] = s.grabber THEN x ELSE Nothing)
  IN  IF t.pfocus = s.pfocus THEN t ELSE [t EXCEPT !.buttons = {}]

grab_end(s) == [s EXCEPT !.pgrab = "default", !.kgrab = "default"]

\* The button is counted already; a press makes the serial a drag may quote.
PlainButton(s, pressed) ==
  CASE s.pclient # Nothing /\ pressed /\ Cardinality(s.buttons) = 1 -> [s EXCEPT !.serial = s.pclient]
    [] s.pclient = Nothing /\ s.pgrab = "popup" -> grab_end(s)
    [] OTHER -> s

\* Every button that is down is released, with the same effect each.
ReleasePlain(s) ==
  IF s.buttons = {} THEN s ELSE PlainButton([s EXCEPT !.buttons = {}], FALSE)

pointer_motion(s) ==
  IF s.over # Nothing /\ s.over = s.pfocus THEN s
  ELSE NotifyFocus(IF s.drag = Nothing /\ (s.over # Nothing \/ s.pfocus # Nothing)
                   THEN ReleasePlain(s) ELSE s, s.over)

pointer_refresh(s) == IF s.mode THEN s ELSE pointer_motion(s)

(***************************************************************************)
(* The end of a drag, and of a source: its offers go, the slots that hold  *)
(* it are emptied and told, and a drag that carries it ends.               *)
(***************************************************************************)
\* Mutant: the keyboard's grab is kept.
drag_end_PointerOnly(s) ==
  LET t == [s EXCEPT !.pgrab = IF @ = "drag" THEN "default" ELSE @]
  IN  pointer_refresh(update_keyboard_focus([drag_set_focus(t, Nothing) EXCEPT !.drag = Nothing]))

drag_end(s) ==
  LET t == [s EXCEPT !.kgrab = IF @ = "drag" THEN "default" ELSE @,
                     !.pgrab = IF @ = "drag" THEN "default" ELSE @]
  IN  pointer_refresh(update_keyboard_focus([drag_set_focus(t, Nothing) EXCEPT !.drag = Nothing]))

SlotGoes(s, x, k) ==
  IF s.slot[k] = x THEN selection_changed(Put(s, k, Nothing), k) ELSE s

source_free(s, x) ==
  LET gone  == [s EXCEPT !.source[x] = NoSource,
                         !.offers = {o \in @ : o.source # x},
                         !.dragSource = IF @ = x THEN Nothing ELSE @]
      slots == SlotGoes(SlotGoes(gone, x, "selection"), x, "primary")
  IN  IF s.drag # Nothing /\ s.drag.source = x
      THEN drag_end([slots EXCEPT !.drag.source = Nothing]) ELSE slots

FreeIfAny(s, x) == IF x = Nothing THEN s ELSE source_free(s, x)

set_selection(s, x, k) ==
  IF s.slot[k] = x THEN s
  ELSE selection_changed(FreeIfAny(Put(s, k, x), s.slot[k]), k)

Claimed(s, x) == IF x = Nothing THEN s ELSE [s EXCEPT !.source[x].used = TRUE]

seat_validate_pointer_grab_serial(s, c, origin) ==
  Cardinality(s.buttons) = 1 /\ s.serial = c /\ s.pfocus = origin

start_drag(s, c, x, origin) ==
  LET t == Claimed(s, x) IN
  IF s.drag # Nothing \/ ~seat_validate_pointer_grab_serial(s, c, origin) THEN FreeIfAny(t, x)
  ELSE LET u == [seat_pointer_enter(t, Nothing) EXCEPT
                   !.pgrab = "drag", !.kgrab = "drag", !.dragSource = x,
                   !.drag = [origin |-> c, source |-> x, focus |-> Nothing,
                             client |-> Nothing, dropped |-> FALSE]]
       IN  pointer_refresh(FreeIfAny(u, s.dragSource))

drag_button(s, b, pressed) ==
  LET d == s.drag
      lets_go == d.source # Nothing /\ s.grabButton = b /\ ~pressed
      taken == d.client # Nothing /\ s.source[d.source].action /\ s.source[d.source].accepted
      t == IF lets_go THEN [s EXCEPT !.drag.dropped = TRUE] ELSE s
  IN  IF lets_go /\ ~taken THEN source_free(s, d.source)
      ELSE IF s.buttons = {} /\ ~pressed THEN drag_end(t) ELSE t

seat_pointer_notify_button(s, b, pressed) ==
  LET t == [s EXCEPT !.grabButton = IF pressed /\ s.buttons = {} THEN b ELSE @,
                     !.buttons = IF pressed THEN @ \cup {b} ELSE @ \ {b}]
  IN  IF pressed = (b \in s.buttons) THEN s
      ELSE IF s.pgrab = "drag" THEN drag_button(t, b, pressed) ELSE PlainButton(t, pressed)

\* One after the other: the first release may end a drag, and that changes the rest.
pointer_release_client_buttons(s) ==
  LET down == SetToSeq(s.buttons)
      After[i \in 0..Len(down)] ==
        IF i = 0 THEN s ELSE seat_pointer_notify_button(After[i - 1], down[i], FALSE)
  IN  After[Len(down)]

offer_free(s, o) ==
  LET t == [s EXCEPT !.offers = @ \ {o}]
  IN  IF o.to \in OldClients THEN t ELSE source_free(t, o.source)

(***************************************************************************)
(* The entry points.                                                       *)
(***************************************************************************)
seat_bind(c) == c \notin seat.bound /\ seat' = [seat EXCEPT !.bound = @ \cup {c}]

seat_client_free(c) ==
  /\ c \in seat.bound
  /\ LET s == [seat EXCEPT !.bound = @ \ {c}, !.devices = @ \ {c}]
         p == IF s.pclient = c THEN [s EXCEPT !.pclient = Nothing, !.pfocus = Nothing] ELSE s
         k == IF s.kclient = c THEN [p EXCEPT !.kclient = Nothing, !.kfocus = Nothing] ELSE p
     IN  seat' = IF k.drag # Nothing /\ k.drag.client = c
                 THEN [k EXCEPT !.drag.client = Nothing, !.drag.focus = Nothing] ELSE k

get_data_device(c) ==
  /\ c \in seat.bound \ seat.devices
  /\ LET s == [seat EXCEPT !.devices = @ \cup {c}] IN
     seat' = IF s.kclient = c THEN seat_selection_focus(s, c) ELSE s

control_get_device(c) ==
  /\ c \in (seat.bound \cap Managers) \ seat.controls
  /\ seat' = control_send(control_send([seat EXCEPT !.controls = @ \cup {c}], c, "selection"),
                          c, "primary")

control_resource_destroy(c) ==
  /\ c \in seat.controls
  /\ seat' = [seat EXCEPT !.controls = @ \ {c},
                          !.controlsTold = [k \in Slots |-> @[k] \ {c}]]

source_create(x) ==
  ~seat.source[x].live /\ seat' = [seat EXCEPT !.source[x] = NewSource]

source_resource_destroy(x) == seat.source[x].live /\ seat' = source_free(seat, x)

OfKind(k) == {x \in Sources : seat.source[x].live /\ Kind[x] = k}
Unused == {x \in Sources : ~seat.source[x].used} \cup {Nothing}

data_device_set_selection(c, x) ==
  /\ c \in seat.devices /\ x \in (OfKind("data") \cup {Nothing}) \cap Unused
  /\ seat' = set_selection(Claimed(seat, x), x, "selection")

primary_set_selection(c, x) ==
  /\ c \in seat.devices /\ x \in OfKind("primary") \cup {Nothing}
  /\ seat' = set_selection(Claimed(seat, x), x, "primary")

control_set(c, x, k) ==
  /\ c \in seat.controls /\ x \in (OfKind("control") \cup {Nothing}) \cap Unused
  /\ seat' = set_selection(Claimed(seat, x), x, k)

StartDrag(c, x, origin) ==
  /\ c \in seat.devices /\ Owner[origin] = c /\ origin \in seat.alive
  /\ x \in (OfKind("data") \cup {Nothing}) \cap Unused
  /\ seat' = start_drag(seat, c, x, origin)

offer_accept(o, yes) ==
  seat' = [seat EXCEPT !.source[o.source].accepted = yes]

offer_set_actions(o, copy) ==
  /\ o.to \notin OldClients
  /\ seat' = [seat EXCEPT !.source[o.source].action = copy]

offer_finish(o) ==
  /\ o.to \notin OldClients
  /\ seat.source[o.source].accepted /\ seat.source[o.source].action
  /\ seat' = offer_free(seat, o)

offer_resource_destroy(o) == seat' = offer_free(seat, o)

\* The surface under the pointer changes, by a motion or by the scene.
PointerMoves(x) ==
  /\ x # seat.over /\ seat' = pointer_refresh([seat EXCEPT !.over = x])

input_pointer_button(b, pressed) ==
  /\ pressed # (b \in seat.buttons)
  /\ seat' = IF seat.mode THEN seat
             ELSE seat_pointer_notify_button(pointer_motion(seat), b, pressed)

\* A press that an element of the user interface takes.
ui_pointer_button(b) ==
  /\ ~seat.mode /\ seat.over = Nothing /\ b \notin seat.buttons
  /\ seat' = NotifyFocus(pointer_release_client_buttons(pointer_motion(seat)), Nothing)

tomoe_grab ==
  seat' = IF seat.mode THEN [seat EXCEPT !.mode = FALSE]
          ELSE NotifyFocus(pointer_release_client_buttons([seat EXCEPT !.mode = TRUE]), Nothing)

tomoe_focus(x) ==
  /\ x # seat.wanted /\ x \in seat.alive \cup {Nothing}
  /\ seat' = update_keyboard_focus([seat EXCEPT !.wanted = x])

popup_grab_request(c) ==
  /\ c \in (seat.bound \cap Poppers) \ seat.popups
  /\ seat' = [seat EXCEPT !.popups = @ \cup {c}, !.grabber = c, !.pgrab = "popup", !.kgrab = "popup"]

popup_ungrab(c) ==
  /\ c \in seat.popups
  /\ LET s == [seat EXCEPT !.popups = @ \ {c}] IN
     seat' = IF s.popups = {}
             THEN [s EXCEPT !.pgrab = IF @ = "popup" THEN "default" ELSE @,
                            !.kgrab = IF @ = "popup" THEN "default" ELSE @]
             ELSE s

\* The listeners of a surface's destruction, and the window that goes with it.
SurfaceDestroyed(x) ==
  /\ x \in seat.alive
  /\ LET s == [seat EXCEPT !.alive = @ \ {x},
                           !.over = IF @ = x THEN Nothing ELSE @]
         p == IF s.pfocus = x THEN [s EXCEPT !.pfocus = Nothing, !.pclient = Nothing] ELSE s
         k == IF p.kfocus = x THEN [p EXCEPT !.kfocus = Nothing, !.kclient = Nothing] ELSE p
         d == IF k.drag # Nothing /\ k.drag.focus = x THEN drag_set_focus(k, Nothing) ELSE k
     IN  seat' = IF d.wanted = x THEN update_keyboard_focus([d EXCEPT !.wanted = Nothing]) ELSE d

\* Who has devices and who may set what.
ClientsNext ==
  \E c \in Clients : \/ seat_bind(c) \/ seat_client_free(c) \/ get_data_device(c)
                     \/ control_get_device(c) \/ control_resource_destroy(c)

SelectionsNext ==
  \/ \E x \in Sources : source_create(x) \/ source_resource_destroy(x)
  \/ \E c \in Clients, x \in Sources \cup {Nothing} :
       \/ data_device_set_selection(c, x) \/ primary_set_selection(c, x)
       \/ \E k \in Slots : control_set(c, x, k)

FocusNext ==
  \/ \E x \in Surfaces \cup {Nothing} : tomoe_focus(x)
  \/ \E x \in Surfaces : SurfaceDestroyed(x)

DragsNext ==
  \/ \E c \in Clients, x \in Sources \cup {Nothing}, origin \in Surfaces : StartDrag(c, x, origin)
  \/ \E o \in seat.offers :
       \/ offer_finish(o) \/ offer_resource_destroy(o)
       \/ \E yes \in BOOLEAN : offer_accept(o, yes) \/ offer_set_actions(o, yes)

PointerNext ==
  \/ \E x \in seat.alive \cup {Nothing} : PointerMoves(x)
  \/ \E b \in Buttons : ui_pointer_button(b) \/ \E p \in BOOLEAN : input_pointer_button(b, p)
  \/ tomoe_grab

PopupsNext == \E c \in Clients : popup_grab_request(c) \/ popup_ungrab(c)

SeatNext == ClientsNext \/ SelectionsNext \/ FocusNext \/ DragsNext \/ PointerNext \/ PopupsNext

SeatSpec == (\E clients \in SUBSET Clients : SeatInit(clients)) /\ [][SeatNext]_seat

(***************************************************************************)
(* Properties                                                              *)
(***************************************************************************)
Maybe(S) == S \cup {Nothing}

\* Whatever way the keyboard focus, the devices and the sources come and go, the
\* client that has the focus and every clipboard manager were last told of the
\* source each selection has now (selection_changed, seat_selection_focus and the
\* creation of the devices, across the callbacks of drags and sources).
SelectionIsCurrent ==
  \A k \in Slots :
    /\ seat.kclient \in seat.devices => seat.told[k]
    /\ seat.controls \subseteq seat.controlsTold[k]

\* A drag that holds the pointer has a button down, whose release ends it, and its
\* grabs, its focus and its source never outlive it: the grab that the seat holds
\* belongs to something that exists, on the pointer and the keyboard alike.
GrabsAreHeld ==
  /\ seat.pgrab = seat.kgrab
  /\ seat.pgrab = "drag" => seat.drag # Nothing /\ seat.buttons # {} /\ seat.pfocus = Nothing
  /\ seat.pgrab = "popup" => seat.popups # {}
  /\ seat.drag # Nothing => /\ seat.drag.source \in Maybe({x \in Sources : seat.source[x].live})
                            /\ seat.drag.client # Nothing => seat.drag.client \in seat.bound

\* A source that was claimed for a selection or a drag is in the slot it was claimed
\* for until it is freed: none is forgotten while its client waits to hear of it.
ClaimedIsKept ==
  \A x \in Sources : seat.source[x].live /\ seat.source[x].used =>
    x \in {seat.slot["selection"], seat.slot["primary"], seat.dragSource}

\* Nothing of a drag outlives it or is lost with it (start_drag, drag_end).
DragIsHeld == GrabsAreHeld /\ ClaimedIsKept
=============================================================================
