------------------------------- MODULE Keyboard -------------------------------
(***************************************************************************)
(* Keys: native/input.c, with the keyboard half of seat.c and what         *)
(* presentation.c publishes to both.                                       *)
(*                                                                         *)
(* Every keyboard, real or virtual, has its own keys and modifiers; they   *)
(* are merged into one logical keyboard, the one the clients see.  A key   *)
(* that a shortcut, a grab or an interactive screenshot takes is consumed: *)
(* its keyboard latches it until the key comes up again, whatever happens  *)
(* in between, and only the other keys are the focused client's.  What a   *)
(* shortcut does goes to the policy, by events it takes later.             *)
(*                                                                         *)
(* kbd is the whole state; the functions of the source are operators from  *)
(* a state to the next.  A modifier is one bit, that of the key Super; a   *)
(* keymap gives every other key a symbol.  Reports of activity, sounds,    *)
(* lights, repeat rates and the keys an owner of the grab hears without a  *)
(* shortcut of its own have no effect on this state.                       *)
(***************************************************************************)
EXTENDS Integers, FiniteSets, SequencesExt

CONSTANTS
  Null,
  Keyboards,     \* device objects: one that is plugged in again has a new id
  Codes, Super,  \* key codes, and the one that is a modifier
  SymOf,         \* SymOf[m][c]: what key c is in keymap m
  Shortcuts,     \* [super, sym, owner, source, release]: what a binding says
  Owners,        \* who may have the keyboard's grab
  Focusable, LockSurface,
  Ids,           \* bound: binding ids, as many as are told apart at any time
  MaxKeyEvents   \* bound on the events the policy has not taken

Binding == [id : Ids, of : Shortcuts]

KeyboardState == [pressed : SUBSET Codes, consumed : SUBSET Codes,
                  latch : [Codes -> Binding \cup {Null}], explicit : BOOLEAN]

ASSUME KeyboardAssumption ==
  /\ IsFiniteSet(Codes) /\ Super \in Codes /\ MaxKeyEvents \in Nat
  /\ \A x \in Shortcuts : x.release \in BOOLEAN
  /\ Null \notin Keyboards \cup KeyboardState \cup Binding \cup Ids

VARIABLE kbd

\* input_listen, keyboard_logical_init, without a device.
KeyboardInit(map, device) ==
  kbd = [device |-> device,           \* [pressed, consumed, latch, explicit] or Null
         down |-> {}, super |-> FALSE, keymap |-> map,  \* the logical keyboard
         seat |-> \E k \in Keyboards : device[k] # Null,  \* the seat's keyboard is set
         bindings |-> {}, owner |-> Null, shot |-> FALSE, locked |-> FALSE,
         drag |-> FALSE,              \* a drag holds the seat's keyboard grab
         focus |-> Null,
         held |-> {}, told |-> FALSE, map |-> map,  \* what the focused client believes
         missed |-> {}, unaware |-> FALSE,  \* and what was kept from it since it was entered
         events |-> <<>>,
         heard |-> [k \in Keyboards |-> [c \in Codes |-> Null]],  \* presses the policy took
         silenced |-> {}]             \* presses whose release a lock cancelled

Fresh == [pressed |-> {}, consumed |-> {}, latch |-> [c \in Codes |-> Null], explicit |-> FALSE]

Present(s) == {k \in Keyboards : s.device[k] # Null}

keyboard_has_pressed(s, ignore, c) == \E k \in Present(s) \ {ignore} : c \in s.device[k].pressed

keyboard_has_unconsumed(s, ignore, c) ==
  \E k \in Present(s) \ {ignore} : c \in s.device[k].pressed \ s.device[k].consumed

keyboard_pressed(s) == {c \in Codes : keyboard_has_unconsumed(s, Null, c)}

(***************************************************************************)
(* The seat: what reaches the focused client.  A drag swallows all of it.  *)
(***************************************************************************)
send_modifiers(s) ==
  IF s.focus = Null THEN s ELSE [s EXCEPT !.told = s.super, !.unaware = FALSE]

seat_keyboard_notify_modifiers(s) ==
  IF s.drag THEN [s EXCEPT !.unaware = TRUE] ELSE send_modifiers(s)

seat_keyboard_send_key(s, c, press) ==
  IF s.focus = Null THEN s
  ELSE [s EXCEPT !.held = IF press THEN @ \cup {c} ELSE @ \ {c}, !.missed = @ \ {c}]

seat_keyboard_notify_key(s, c, press) ==
  IF s.drag THEN [s EXCEPT !.missed = @ \cup {c}] ELSE seat_keyboard_send_key(s, c, press)

seat_keyboard_enter(s, x) ==
  IF s.focus = x THEN s
  ELSE LET t == [s EXCEPT !.focus = x, !.missed = {}, !.unaware = FALSE,
                          !.held = IF x = Null THEN {} ELSE keyboard_pressed(s)]
       IN  send_modifiers(t)

seat_keyboard_notify_enter(s, x) == IF s.drag THEN s ELSE seat_keyboard_enter(s, x)

\* The keyboard of the seat is set or not; a new one is introduced to everybody.
seat_set_keyboard(s, on) ==
  IF s.seat = on THEN s
  ELSE IF on THEN send_modifiers([s EXCEPT !.seat = TRUE, !.map = s.keymap])
  ELSE [s EXCEPT !.seat = FALSE]

\* keyboard_enter, of the surface x that update_keyboard_focus finds.
update_keyboard_focus(s, x) == seat_keyboard_notify_enter(s, x)

Wanted(s) == IF s.locked THEN {LockSurface, Null} ELSE (Focusable \ {LockSurface}) \cup {Null}

(***************************************************************************)
(* The logical keyboard.                                                   *)
(***************************************************************************)
Modifiers(s) == Super \in s.down \/ \E k \in Present(s) : s.device[k].explicit

logical_refresh(s, notify) ==
  LET t == [s EXCEPT !.super = Modifiers(s)] IN
  IF notify /\ t.super # s.super /\ s.seat THEN seat_keyboard_notify_modifiers(t) ELSE t

logical_key_transition(s, c, press) ==
  logical_refresh([s EXCEPT !.down = IF press THEN @ \cup {c} ELSE @ \ {c}], TRUE)

\* With another keymap all states are made again from the keys that are down.
keyboard_profile_prepare(s, map) ==
  [s EXCEPT !.keymap = map,
            !.device = [k \in Keyboards |-> IF s.device[k] = Null THEN Null
                          ELSE [s.device[k] EXCEPT !.explicit = FALSE]],
            !.down = {c \in Codes : keyboard_has_pressed(s, Null, c)}]

keyboard_profile_publish(s, map) ==
  IF map = s.keymap THEN s
  ELSE LET t == logical_refresh(keyboard_profile_prepare(s, map), FALSE)
       IN  IF t.seat THEN seat_keyboard_notify_modifiers([t EXCEPT !.map = map]) ELSE t

(***************************************************************************)
(* Shortcuts.                                                              *)
(***************************************************************************)
Current(s, id) == \E b \in s.bindings : b.id = id  \* tomoe_binding_current

\* binding_event: nothing is posted for a release the policy did not ask for.
binding_event(s, k, c, b, state) ==
  IF state = "released" /\ ~b.of.release THEN s
  ELSE [s EXCEPT !.events = Append(@, [k |-> k, c |-> c, id |-> b.id, state |-> state])]

Press(k, c, b) == [k |-> k, c |-> c, id |-> b.id]

Latch(s, k, c, b) ==
  binding_event([s EXCEPT !.device[k].consumed = @ \cup {c}, !.device[k].latch[c] = b,
                          !.silenced = @ \ {Press(k, c, b)}], k, c, b, "pressed")

Consume(s, k, c) == [s EXCEPT !.device[k].consumed = @ \cup {c}]

Unlatch(s, k, c) ==
  LET b == s.device[k].latch[c]
      t == IF b \in s.bindings THEN binding_event(s, k, c, b, "released") ELSE s
  IN  [t EXCEPT !.device[k].consumed = @ \ {c}, !.device[k].latch[c] = Null]

\* The bindings a key is matched with: those with exactly the modifiers that
\* hold, and, for the owner of the grab, any of its own when there is none.
Matching(s, c) == {b \in s.bindings : b.of.sym = SymOf[s.keymap][c] /\ b.of.super = s.super}

GrabMatching(s, c) ==
  LET own == {b \in s.bindings : b.of.sym = SymOf[s.keymap][c] /\ b.of.owner = s.owner}
  IN  IF own \cap Matching(s, c) # {} THEN own \cap Matching(s, c) ELSE own

keyboard_latches_cancel(s) ==
  [s EXCEPT !.device = [k \in Keyboards |-> IF s.device[k] = Null THEN Null
                          ELSE [s.device[k] EXCEPT !.latch = [c \in Codes |-> Null]]],
            !.silenced = @ \cup {Press(p[1], p[2], s.device[p[1]].latch[p[2]]) :
               p \in {q \in Present(s) \X Codes : s.device[q[1]].latch[q[2]] # Null}}]

\* Ids that nothing refers to any more stand for ids never used before.
Remembered(s) ==
  {b.id : b \in s.bindings} \cup {s.events[i].id : i \in DOMAIN s.events}
  \cup {s.heard[k][c] : k \in Keyboards, c \in Codes}

\* add_binding gives each new binding an id; binding_equivalent, in
\* presentation_input_publish, gives it the old one's instead.
Added(s, plan) == plan \ {b.of : b \in s.bindings}

FreshIds(s, plan) == {f \in [Added(s, plan) -> Ids \ Remembered(s)] : IsInjective(f)}

Admitted(s, plan) ==
  LET id == CHOOSE f \in FreshIds(s, plan) : TRUE
  IN  {b \in s.bindings : b.of \in plan} \cup {[id |-> id[x], of |-> x] : x \in Added(s, plan)}

\* A key that is down stays with the shortcut that took it if that one is still there.
keyboard_latches_adopt(s, bindings) ==
  [k \in Keyboards |-> IF s.device[k] = Null THEN Null
     ELSE [s.device[k] EXCEPT !.latch = [c \in Codes |-> IF @[c] \in bindings THEN @[c] ELSE Null]]]

presentation_input_publish(s, plan, owner) ==
  LET bindings == Admitted(s, plan)
      current(id) == \E b \in bindings : b.id = id
  IN  [s EXCEPT !.bindings = bindings, !.owner = owner,
                !.device = keyboard_latches_adopt(s, bindings),
                !.silenced = {p \in @ : current(p.id)},
                !.heard = [k \in Keyboards |-> [c \in Codes |->
                             IF current(@[k][c]) THEN @[k][c] ELSE Null]]]

(***************************************************************************)
(* A key: input_key, of one that was up before it is pressed and down      *)
(* before it is released; the others are ignored.  switch: it switches to  *)
(* another terminal; closes: it closes the screenshot.                     *)
(***************************************************************************)
\* What the client is not told of key c, unless another keyboard speaks for it.
Kept(s, k, c) ==
  IF keyboard_has_unconsumed(s, k, c) \/ s.focus = Null THEN s ELSE [s EXCEPT !.missed = @ \cup {c}]

ScreenshotKey(s, k, c, press, closes) ==
  IF press THEN [Consume(s, k, c) EXCEPT !.shot = ~closes] ELSE Kept(s, k, c)

GrabbedKey(s, k, c, press, b) ==
  CASE ~press -> Kept(s, k, c)
    [] press /\ b # Null -> Latch(s, k, c, b)
    [] press /\ b = Null -> Consume(s, k, c)

ClientKey(s, k, c, press) ==
  IF keyboard_has_unconsumed(s, k, c) THEN s ELSE seat_keyboard_notify_key(s, c, press)

\* The key of keyboard k is recorded; taker is the binding it is matched with.
KeyGoes(s, k, c, press, taker, switch, closes) ==
  CASE c \in s.device[k].consumed -> Unlatch(s, k, c)
    [] c \notin s.device[k].consumed /\ switch -> Consume(s, k, c)
    [] c \notin s.device[k].consumed /\ ~switch /\ ~s.locked /\ s.shot ->
         ScreenshotKey(s, k, c, press, closes)
    [] c \notin s.device[k].consumed /\ ~switch /\ ~s.locked /\ ~s.shot /\ s.owner # Null ->
         GrabbedKey(s, k, c, press, taker)
    [] OTHER -> IF press /\ taker # Null THEN Latch(s, k, c, taker) ELSE ClientKey(s, k, c, press)

\* The bindings that may take the press of key c, in any order of the list.
Takers(s, c) ==
  LET match == CASE s.locked -> {}
                 [] ~s.locked /\ s.owner # Null -> GrabMatching(s, c)
                 [] OTHER -> Matching(s, c)
  IN  IF match = {} THEN {Null} ELSE match

Room(s) == Len(s.events) < MaxKeyEvents

input_key(k, c, press) ==
  /\ Room(kbd) /\ kbd.device[k] # Null
  /\ press # (c \in kbd.device[k].pressed)
  /\ LET recorded == [kbd EXCEPT !.device[k].pressed = IF press THEN @ \cup {c} ELSE @ \ {c}]
         edge     == ~keyboard_has_pressed(kbd, k, c)
     IN  \E taker \in Takers(kbd, c), switch, closes \in BOOLEAN :
           /\ switch => press /\ kbd.super /\ c # Super
           /\ closes => press /\ kbd.shot
           /\ LET s == KeyGoes(recorded, k, c, press, taker, switch, closes)
              IN  kbd' = IF edge THEN logical_key_transition(s, c, press) ELSE s

\* input_modifiers: a virtual keyboard states its modifiers.
input_modifiers(k, super) ==
  /\ kbd.device[k] # Null
  /\ super # (kbd.device[k].explicit \/ Super \in kbd.device[k].pressed)
  /\ kbd' = logical_refresh([kbd EXCEPT !.device[k].explicit = super], TRUE)

(***************************************************************************)
(* Devices come and go.                                                    *)
(***************************************************************************)
\* No event of the device that was here before is left: the new one has another id.
input_add(k) ==
  /\ kbd.device[k] = Null
  /\ \A i \in DOMAIN kbd.events : kbd.events[i].k # k
  /\ kbd' = seat_set_keyboard([kbd EXCEPT !.device[k] = Fresh,
                                          !.silenced = {p \in @ : p.k # k},
                                          !.heard[k] = [c \in Codes |-> Null]], TRUE)

\* Mutant: keys that are down go with their keyboard, and no client hears of it.
LatchFinish_Silent(s, k, c) ==
  LET t == IF c \in s.device[k].consumed THEN Unlatch(s, k, c) ELSE s
      u == [t EXCEPT !.device[k].pressed = @ \ {c}]
  IN  IF c \in s.device[k].pressed /\ ~keyboard_has_pressed(s, k, c)
      THEN logical_key_transition(u, c, FALSE) ELSE u

\* keyboard_latches_finish, of key c.
LatchFinish(s, k, c) ==
  LET was      == c \in s.device[k].pressed
      consumed == c \in s.device[k].consumed
      t == IF consumed THEN Unlatch(s, k, c) ELSE s
      u == [t EXCEPT !.device[k].pressed = @ \ {c}]
      v == IF was /\ ~keyboard_has_pressed(u, k, c) THEN logical_key_transition(u, c, FALSE) ELSE u
  IN  IF was /\ ~consumed /\ ~keyboard_has_unconsumed(v, k, c) /\ v.seat
      THEN seat_keyboard_notify_key(v, c, FALSE) ELSE v

\* One key after the other.
keyboard_latches_finish(s, k) ==
  LET codes == SetToSeq(Codes)
      After[i \in 0..Len(codes)] == IF i = 0 THEN s ELSE LatchFinish(After[i - 1], k, codes[i])
  IN  After[Len(codes)]

keyboard_destroy(k) ==
  /\ Room(kbd) /\ kbd.device[k] # Null
  /\ LET s == [keyboard_latches_finish(kbd, k) EXCEPT !.device[k] = Null]
     IN  kbd' = logical_refresh(seat_set_keyboard(s, Present(s) # {}), TRUE)

(***************************************************************************)
(* The policy presents, a client locks, drags or is gone.                  *)
(***************************************************************************)
\* tomoe_present_keyboard, tomoe_present_bind, tomoe_present_keyboard_grab, then
\* presentation_publish; focus is what the presentation leaves focused.
presentation_publish(map, plan, owner, focus) ==
  /\ focus \in Wanted(kbd) /\ FreshIds(kbd, plan) # {}
  /\ LET s == presentation_input_publish(keyboard_profile_publish(kbd, map), plan, owner)
     IN  kbd' = update_keyboard_focus(s, focus)

\* A window is focused, a layer takes the keyboard or gives it up.
FocusMoves(focus) ==
  /\ focus \in Wanted(kbd)
  /\ kbd' = update_keyboard_focus(kbd, focus)

keyboard_surface_destroyed ==
  /\ kbd.focus # Null
  /\ kbd' = [kbd EXCEPT !.focus = Null, !.held = {}, !.missed = {}, !.unaware = FALSE]

\* tomoe_screenshot, interactive; screenshot_close, by the pointer.
tomoe_screenshot ==
  /\ ~kbd.locked /\ ~kbd.shot
  /\ kbd' = [kbd EXCEPT !.shot = TRUE]

screenshot_close == kbd.shot /\ kbd' = [kbd EXCEPT !.shot = FALSE]

\* begin_locking calls input_lock_begin; its keyboard part.
input_lock_begin(focus) ==
  LET s == [keyboard_latches_cancel(kbd) EXCEPT !.locked = TRUE] IN
  /\ ~kbd.locked /\ focus \in Wanted(s)
  /\ kbd' = update_keyboard_focus(s, focus)

Unlock(focus) ==
  LET s == [kbd EXCEPT !.locked = FALSE] IN
  /\ kbd.locked /\ focus \in Wanted(s)
  /\ kbd' = update_keyboard_focus(s, focus)

\* A drag holds the keyboard grab, and gives the focus its due when it ends.
start_drag == ~kbd.drag /\ kbd' = [kbd EXCEPT !.drag = TRUE]

drag_end(focus) ==
  LET s == [kbd EXCEPT !.drag = FALSE] IN
  /\ kbd.drag /\ focus \in Wanted(s)
  /\ kbd' = update_keyboard_focus(s, focus)

\* dispatch-event of a :key event: it is dropped if its binding is not current.
DispatchKey ==
  /\ kbd.events # <<>>
  /\ LET e == Head(kbd.events) IN
     kbd' = [kbd EXCEPT !.events = Tail(@),
               !.heard[e.k][e.c] = CASE ~Current(kbd, e.id) -> @
                                     [] Current(kbd, e.id) /\ e.state = "pressed" -> e.id
                                     [] OTHER -> Null]

\* Devices, and what they report.
DevicesNext ==
  \E k \in Keyboards :
    \/ input_add(k) \/ keyboard_destroy(k)
    \/ \E c \in Codes, press \in BOOLEAN : input_key(k, c, press)
    \/ \E super \in BOOLEAN : input_modifiers(k, super)

PolicyNext ==
  \/ \E map \in DOMAIN SymOf, plan \in SUBSET Shortcuts, owner \in Owners \cup {Null},
        focus \in Focusable \cup {Null} : presentation_publish(map, plan, owner, focus)
  \/ tomoe_screenshot \/ screenshot_close \/ DispatchKey

FocusNext ==
  \/ \E focus \in Focusable \cup {Null} :
       FocusMoves(focus) \/ input_lock_begin(focus) \/ Unlock(focus) \/ drag_end(focus)
  \/ keyboard_surface_destroyed \/ start_drag

KeyboardNext == DevicesNext \/ PolicyNext \/ FocusNext

KeyboardSpec ==
  /\ \E map \in DOMAIN SymOf, device \in [Keyboards -> {Fresh, Null}] : KeyboardInit(map, device)
  /\ [][KeyboardNext]_kbd

(***************************************************************************)
(* Properties.                                                             *)
(***************************************************************************)
\* The logical keyboard is the union of the keyboards that are there, through
\* shortcuts, grabs, keymaps and unplugging (input.c:logical_key_event_done).
OneKeyboard ==
  /\ kbd.down = UNION {kbd.device[k].pressed : k \in Present(kbd)}
  /\ kbd.super = Modifiers(kbd)

\* The focused client believes held exactly the keys that are down and its own,
\* and knows the modifiers and the keymap, except for what a grab, a screenshot or
\* a drag kept from it since it was entered (input.c:input_key, keyboard_pressed).
ClientIsTold ==
  kbd.focus # Null =>
    /\ kbd.held \ kbd.missed = keyboard_pressed(kbd) \ kbd.missed
    /\ kbd.seat => kbd.map = kbd.keymap /\ (~kbd.unaware => kbd.told = kbd.super)

\* Event i is about key c of keyboard k, and the policy will not drop it.
Mine(s, k, c, i) ==
  s.events[i].k = k /\ s.events[i].c = c /\ Current(s, s.events[i].id)

\* When the policy has taken the first n events, it holds that key c was last
\* pressed for the binding id and not released since.
Believes(s, k, c, n, id) ==
  \/ s.heard[k][c] = id /\ \A i \in 1..n : ~Mine(s, k, c, i)
  \/ \E i \in 1..n : /\ Mine(s, k, c, i)
                     /\ s.events[i].state = "pressed" /\ s.events[i].id = id
                     /\ \A j \in i + 1..n : ~Mine(s, k, c, j)

Expected(s, id) == \E b \in s.bindings : b.id = id /\ b.of.release

\* The policy hears the release of a shortcut only after its press, and while it
\* believes a shortcut held that is still there, the key that will release it is
\* down; a lock may have cancelled the release (api.lisp:806-812).
ReleasesFollowPresses ==
  \A k \in Keyboards, c \in Codes :
    /\ \A i \in DOMAIN kbd.events :
         Mine(kbd, k, c, i) /\ kbd.events[i].state = "released" =>
           Believes(kbd, k, c, i - 1, kbd.events[i].id)
    /\ \A id \in Ids :
         Expected(kbd, id) /\ Believes(kbd, k, c, Len(kbd.events), id)
         /\ [k |-> k, c |-> c, id |-> id] \notin kbd.silenced =>
           kbd.device[k] # Null /\ c \in kbd.device[k].pressed /\ kbd.device[k].latch[c] # Null

\* No window is told of keys while the session is locked (lock.c:begin_locking).
LockedKeysStay == kbd.locked /\ ~kbd.drag => kbd.focus \in {Null, LockSurface}

KeysAreTold == OneKeyboard /\ ClientIsTold /\ ReleasesFollowPresses /\ LockedKeysStay
=============================================================================
