------------------------------ MODULE MCBackend ------------------------------
(***************************************************************************)
(* The native side of one run: the queue it posts to (EventQueue, on the   *)
(* instance of MCEventQueue), the keyboards and the screen captures.       *)
(*                                                                         *)
(* The three share no state, so each is explored on its own: part says     *)
(* which, and which of its clients and devices are about.  Two keyboards   *)
(* have a modifier and one more key, which is x or y as the keymap says; a *)
(* shortcut on x may be replaced by another, and menu holds the grab.      *)
(***************************************************************************)
EXTENDS MCEventQueue, Capture, Keyboard

VARIABLE part

Key(super, sym, owner, source) ==
  [super |-> super, sym |-> sym, owner |-> owner, source |-> source, release |-> TRUE]

Shortcut == Key(TRUE, "x", "wm", 1)
Replaced == Key(TRUE, "x", "wm", 2)
OfMenu   == Key(FALSE, "y", "menu", 1)

MCSymOf == [us |-> [super |-> "super", a |-> "x"], de |-> [super |-> "super", a |-> "y"]]

MCShortcuts == {Shortcut, Replaced, OfMenu}

Of(parts) == part \in parts

BackendInit ==
  /\ part \in {"events", "shortcuts", "takers", "clients", "copies", "screens", "windows", "cursors"}
  /\ Init
  /\ KeyboardInit("us", [k1 |-> Fresh, k2 |-> IF Of({"shortcuts"}) THEN Null ELSE Fresh])
  /\ CaptureInit("small", "unmapped")

Device(k) ==
  \/ input_add(k)
  \/ keyboard_destroy(k)
  \/ \E c \in {"super", "a"}, press \in BOOLEAN : input_key(k, c, press)

\* One keyboard whose shortcuts and keymap are replaced.
OfShortcuts ==
  /\ Of({"shortcuts"})
  /\ \/ Device("k1")
     \/ DispatchKey
     \/ \E map \in DOMAIN MCSymOf, owner \in {"menu", Null},
           plan \in {{}, {Shortcut}, {Replaced}, {Shortcut, OfMenu}} :
          presentation_publish(map, plan, owner, kbd.focus)
     \/ input_lock_begin("lock")
     \/ Unlock(Null)

\* Two keyboards, and everybody who may take a key.
OfTakers ==
  /\ Of({"takers"})
  /\ \/ DispatchKey
     \/ /\ kbd.events = <<>>
        /\ \/ \E k \in {"k1", "k2"} : Device(k)
           \/ \E owner \in {"menu", Null} :
                presentation_publish("us", {Shortcut}, owner, IF kbd.locked THEN "lock" ELSE "window")
           \/ tomoe_screenshot \/ screenshot_close
           \/ input_lock_begin("lock") \/ Unlock("window")

\* Two keyboards and the clients that are focused.
OfClients ==
  /\ Of({"clients"})
  /\ \/ \E k \in {"k1", "k2"} : Device(k)
     \/ \E map \in DOMAIN MCSymOf : presentation_publish(map, {}, Null, kbd.focus)
     \/ \E focus \in {"window", "lock", Null} :
          FocusMoves(focus) \/ input_lock_begin(focus) \/ Unlock(focus) \/ drag_end(focus)
     \/ \E super \in BOOLEAN : input_modifiers("k1", super)
     \/ keyboard_surface_destroyed
     \/ start_drag

Screen ==
  /\ Of({"copies", "screens", "windows", "cursors"})
  /\ \/ capture_output_gone
     \/ output_added("small")
     \/ \E active \in BOOLEAN, size \in {"small", "large"} :
          /\ size = "large" => Of({"screens"})
          /\ OutputConfigured(active, size)

Frames ==
  /\ Of({"copies", "screens", "windows"})
  /\ \/ SceneChanges
     \/ \E scanout, rendered, commits, second \in BOOLEAN, how, copy \in How :
          /\ copy # "later" /\ (copy = "fails" => Of({"copies"}))
          /\ how # "ready" => ~Of({"copies"})
          /\ second => ~Of({"windows"})
          /\ output_frame(scanout, rendered, commits, second,
                            [x1 |-> how], [f1 |-> copy, f2 |-> "ready"])

Copying ==
  /\ Of({"copies"})
  /\ \/ manager_resource_destroy
     \/ \E f \in {"f1", "f2"} :
          \/ frame_destroy(f)
          \/ \E b \in BOOLEAN : capture(f, b) \/ frame_request(f, b)

Asking ==
  /\ Of({"screens", "windows", "cursors"})
  /\ \/ \E cursors \in BOOLEAN : Of({"screens"}) /\ create_session("x1", "output", cursors)
     \/ Of({"windows"}) /\ create_session("x1", "window", FALSE)
     \/ Of({"cursors"}) /\ cursor_session_capture("x1")
     \/ session_create_frame("x1") \/ image_frame_destroy("x1")
     \/ \E size \in {"small", "large"} : image_frame_attach("x1", size)
     \/ \E how \in How : image_frame_capture("x1", how)
     \/ frame_copied("x1") \/ session_resource_destroy("x1")

WindowMoves ==
  Of({"windows"}) /\ \E size \in {"unmapped", "small", "large", "gone"} : WindowChanges(size)

Pointer ==
  /\ Of({"cursors"})
  /\ \/ \E how \in {"ready", "fails"} : create_cursor_session(how)
     \/ \E how \in {"ready", "fails"}, image \in 0..2, over \in BOOLEAN : CursorChanges(image, over, how)
     \/ cursor_session_resource_destroy

BackendNext ==
  /\ UNCHANGED part
  /\ \/ Of({"events"}) /\ Next /\ UNCHANGED <<kbd, cap>>
     \/ (OfShortcuts \/ OfTakers \/ OfClients) /\ UNCHANGED <<vars, cap>>
     \/ (Screen \/ Frames \/ Copying \/ Asking \/ WindowMoves \/ Pointer) /\ UNCHANGED <<vars, kbd>>

BackendSpec == BackendInit /\ [][BackendNext]_<<vars, kbd, cap, part>>
=============================================================================
