------------------------------- MODULE Capture -------------------------------
(***************************************************************************)
(* Screen capture: native/capture.c, and where the frame path of output.c  *)
(* and space.c serves it.                                                  *)
(*                                                                         *)
(* A client copies an output (wlr-screencopy: one request, one copy) or    *)
(* opens a session on an output, a window or the cursor (image-copy: a     *)
(* frame at a time).  A request waits until the output draws; one that     *)
(* wants only what is new waits until something changed since the image    *)
(* that the session, or the copies of its manager, got last.               *)
(*                                                                         *)
(* cap is the whole state.  Content is a version of the scene, a size is a *)
(* member of a small set; formats, damage regions and the pixels are left  *)
(* out.  One output, one window and one cursor session stand for all.      *)
(***************************************************************************)
EXTENDS Naturals, Sequences, FiniteSets, SequencesExt

CONSTANTS
  Nil,       \* no output, no session, no copy, nothing shown
  Copies,    \* screencopy frames, all of one manager
  Sessions,
  Sizes,
  Versions   \* bound: contents told apart, 0 .. Versions - 1

Output ==
  [active : BOOLEAN, size : Sizes, frame : BOOLEAN, damaged : BOOLEAN, scanout : BOOLEAN,
   scene : Nat, ops : Nat \cup {Nil}, shown : Nat \cup {Nil}, presented : Nat \cup {Nil},
   failed : BOOLEAN]

Copy == [cursor : BOOLEAN, damage : BOOLEAN, waiting : BOOLEAN, since : BOOLEAN]

Session ==
  [what : {"output", "window", "cursor"}, live : BOOLEAN, cursors : BOOLEAN, damaged : BOOLEAN,
   size : Sizes \cup {Nil}, frame : {Nil, "idle", "capturing", "copying"},
   buffer : Sizes \cup {Nil}, seen : Nat \cup {Nil}]

Cursor == [source : BOOLEAN, entered : BOOLEAN, requested : BOOLEAN, served : Nat \cup {Nil}]

ASSUME CaptureAssumption ==
  /\ IsFiniteSet(Copies) /\ Versions \in Nat \ {0}
  /\ {"unmapped", "gone", Nil} \cap Sizes = {}
  /\ Nil \notin {"idle", "capturing", "copying", "damaged", "clean", "unmapped", "gone"}
  /\ Nil \notin Output \cup Copy \cup Session \cup Cursor

VARIABLE cap

NewOutput(size) ==
  [active |-> TRUE, size |-> size, frame |-> TRUE,  \* needs_frame
   damaged |-> FALSE, scanout |-> FALSE,
   scene |-> 0, ops |-> Nil,                       \* what is to be shown, and was last recorded
   shown |-> Nil, presented |-> Nil,              \* what the last frame showed; presented[0]
   failed |-> FALSE]                                \* history: the last frame failed

CaptureInit(size, window) ==
  cap = [out |-> NewOutput(size), win |-> window,   \* the window's size; "unmapped" or "gone"
         image |-> 0, over |-> FALSE,               \* cursor_image, and whether it is on the output
         copy |-> [f \in Copies |-> Nil],          \* [cursor, damage, waiting, since]
         since |-> Nil, copied |-> Nil,           \* copy_damage; what the manager's clients saw
         session |-> [x \in Sessions |-> Nil],
         cursor |-> Nil]                           \* [source, entered, requested, served]

Stopped == [what |-> "output", live |-> FALSE, cursors |-> FALSE, damaged |-> FALSE,
            size |-> Nil, frame |-> Nil, buffer |-> Nil, seen |-> Nil]

Active(s) == s.out # Nil /\ s.out.active

screen_schedule_frame(s) == [s EXCEPT !.out.frame = TRUE]
schedule_scene(s) == IF Active(s) THEN screen_schedule_frame(s) ELSE s

source_size(s, what) ==
  IF what = "window" THEN (IF s.win \in Sizes THEN s.win ELSE Nil)
  ELSE IF Active(s) THEN s.out.size ELSE Nil

\* The sessions in the list of the server.
Listed(s, what) == {x \in Sessions : s.session[x] # Nil /\ s.session[x].live /\ s.session[x].what = what}

(***************************************************************************)
(* Serving.  how is what becomes of an image: it is copied at once, later, *)
(* when the GPU is through, or not at all.                                 *)
(***************************************************************************)
How == {"ready", "later", "fails"}

\* Of a session e: its frame is ready or failed.
Answered(e) == [e EXCEPT !.frame = "idle", !.buffer = Nil]

session_stop(e) ==
  [IF e.frame \in {"capturing", "copying"} THEN Answered(e) ELSE e EXCEPT !.live = FALSE]

Stopping(s, xs) ==
  [s EXCEPT !.session = [x \in Sessions |-> IF x \in xs THEN session_stop(@[x]) ELSE @[x]]]

\* serve_cursor: the image is served once, until it changes.
serve_cursor(s, x, how) ==
  IF s.session[x].frame # "capturing" \/ ~s.cursor.entered \/ s.cursor.served = s.image THEN s
  ELSE [s EXCEPT !.session[x] = Answered(@), !.cursor.served = IF how = "fails" THEN @ ELSE s.image]

\* What becomes of a session, and whether it needs another frame.
Served(e, again) == [session |-> e, again |-> again]

\* The image is on its way: session e is up to date.
Taken(e, content, frame) == [e EXCEPT !.damaged = FALSE, !.seen = content, !.frame = frame]

\* bare: there is an image without the cursor.
serve_output(e, content, bare, how) ==
  CASE ~e.damaged -> Served(e, FALSE)
    [] e.damaged /\ e.buffer # e.size -> Served(Answered(e), FALSE)
    [] e.damaged /\ e.buffer = e.size /\ ~e.cursors /\ ~bare -> Served(e, TRUE)
    [] OTHER -> Served(CASE how = "fails" -> Answered(e)
                         [] how = "later" -> Taken(e, content, "copying")
                         [] how = "ready" -> Answered(Taken(e, content, "idle")), FALSE)

\* serve_session, from an image with this content.  A window is rendered anew,
\* whatever was damaged.
serve_session(s, e, content, bare, how) ==
  LET size == source_size(s, e.what)
      t    == IF size = e.size THEN e ELSE [e EXCEPT !.size = size, !.damaged = TRUE]
  IN  IF e.frame # "capturing" \/ size = Nil THEN Served(e, FALSE)
      ELSE IF e.what = "output" THEN serve_output(t, content, bare, how)
      ELSE Served(Answered(t), FALSE)

\* copy_due.
Due(s, f) == ~s.copy[f].damage \/ ~s.copy[f].since \/ s.since = "damaged" \/ s.out.damaged

\* Does the output have to be drawn a second time, without the cursor?
capture_wants_cursorless(s) ==
  \/ \E f \in Copies : s.copy[f] # Nil /\ s.copy[f].waiting /\ ~s.copy[f].cursor /\ Due(s, f)
  \/ \E x \in Listed(s, "output") : /\ s.session[x].frame = "capturing" /\ ~s.session[x].cursors
                                    /\ s.session[x].damaged \/ s.out.damaged

serve_copy(s, f, content, bare, how) ==
  IF s.copy[f] = Nil \/ ~s.copy[f].waiting \/ ~Due(s, f) THEN s
  ELSE IF ~s.copy[f].cursor /\ ~bare THEN screen_schedule_frame(s)
  ELSE IF how = "fails" THEN [s EXCEPT !.copy[f] = Nil]
  ELSE [s EXCEPT !.copy[f] = Nil,
                 !.since = IF s.copy[f].since THEN "clean" ELSE @,
                 !.copied = IF s.copy[f].since THEN content ELSE @]

\* Mutant: only the sessions that are waiting learn of the damage.
Broadcast_Waiting(s) ==
  IF ~s.out.damaged THEN s
  ELSE [s EXCEPT !.out.damaged = FALSE, !.since = IF @ = Nil THEN Nil ELSE "damaged",
          !.session = [x \in Sessions |->
             IF x \in Listed(s, "output") /\ @[x].frame = "capturing"
             THEN [@[x] EXCEPT !.damaged = TRUE] ELSE @[x]]]

\* The damage of the output is passed on to everybody who watches it.
Broadcast(s) ==
  IF ~s.out.damaged THEN s
  ELSE [s EXCEPT !.out.damaged = FALSE, !.since = IF @ = Nil THEN Nil ELSE "damaged",
          !.session = [x \in Sessions |->
             IF x \in Listed(s, "output") THEN [@[x] EXCEPT !.damaged = TRUE] ELSE @[x]]]

SessionsServed(s, content, bare, how) ==
  LET listed == Listed(s, "output") \cup Listed(s, "window")
      served == [x \in Sessions |-> IF x \in listed
                   THEN serve_session(s, s.session[x], content, bare, how[x])
                   ELSE Served(s.session[x], FALSE)]
  IN  [s EXCEPT !.session = [x \in Sessions |-> served[x].session],
                !.out.frame = @ \/ \E x \in Sessions : served[x].again]

\* The copies are served one after the other: the first to be served of those of a
\* manager makes its damage old.
CopiesServed(s, content, bare, how) ==
  LET frames == SetToSeq(Copies)
      After[i \in 0..Len(frames)] ==
        IF i = 0 THEN s ELSE serve_copy(After[i - 1], frames[i], content, bare, how[frames[i]])
  IN  After[Len(frames)]

\* captured: the output was drawn a second time, without the cursor.
capture_serve(s, content, scanout, captured, how, howCopy) ==
  CopiesServed(SessionsServed(Broadcast(s), content, scanout \/ captured, how),
               content, scanout \/ captured, howCopy)

(***************************************************************************)
(* The output.                                                             *)
(***************************************************************************)
\* output_frame: scanout, a client's buffer is shown as it is; rendered, the scene
\* was recorded (scene_damage); commits, the frame reached the screen; second, the
\* image without the cursor could be drawn.  What is animated is a SceneChanges.
output_frame(scanout, rendered, commits, second, how, howCopy) ==
  /\ Active(cap) /\ cap.out.frame
  /\ commits => rendered
  /\ LET o == cap.out
         draws == rendered /\ ~scanout
         s == [cap EXCEPT !.out.frame = FALSE, !.out.scanout = scanout,
                 !.out.damaged = o.damaged \/ scanout \/ o.scanout \/ (draws /\ o.ops # o.scene),
                 !.out.ops = IF draws THEN o.scene ELSE o.ops,
                 !.out.failed = ~commits]
         captured == second /\ draws /\ capture_wants_cursorless(s)
         t == [s EXCEPT !.out.shown = o.scene, !.out.presented = IF draws THEN o.scene ELSE @]
     IN  cap' = IF commits THEN capture_serve(t, o.scene, scanout, captured, how, howCopy) ELSE s

\* Something on the output changes; every such change schedules the scene.
SceneChanges ==
  /\ cap.out # Nil
  /\ cap' = schedule_scene([cap EXCEPT !.out.scene = (@ + 1) % Versions])

\* tomoe_outputs_apply.
OutputConfigured(active, size) ==
  /\ cap.out # Nil /\ <<active, size>> # <<cap.out.active, cap.out.size>>
  /\ cap' = schedule_scene([cap EXCEPT !.out.active = active, !.out.size = size])

\* output_destroy calls capture_output_gone: every copy fails, every session stops.
capture_output_gone ==
  /\ cap.out # Nil
  /\ cap' = [Stopping(cap, Listed(cap, "output") \cup Listed(cap, "cursor")) EXCEPT
               !.out = Nil, !.copy = [f \in Copies |-> Nil], !.since = Nil, !.copied = Nil,
               !.cursor = IF @ = Nil THEN Nil ELSE [@ EXCEPT !.source = FALSE, !.entered = FALSE]]

output_added(size) == cap.out = Nil /\ cap' = [cap EXCEPT !.out = NewOutput(size)]

\* The window is mapped, resized, unmapped or gone (capture_window_gone).
WindowChanges(size) ==
  /\ cap.win # "gone" /\ size # cap.win
  /\ LET t == IF size = "gone" THEN Stopping(cap, Listed(cap, "window")) ELSE cap
     IN  cap' = schedule_scene([t EXCEPT !.win = size])

(***************************************************************************)
(* Screencopy.                                                             *)
(***************************************************************************)
\* capture; a request for an output that is off fails at once.
capture(f, cursor) ==
  /\ cap.copy[f] = Nil /\ Active(cap)
  /\ cap' = [cap EXCEPT !.since = IF @ = Nil THEN "damaged" ELSE @,
               !.copy[f] = [cursor |-> cursor, damage |-> FALSE, waiting |-> FALSE, since |-> TRUE]]

\* frame_request, with a buffer that fits.
frame_request(f, damage) ==
  /\ cap.copy[f] # Nil /\ ~cap.copy[f].waiting
  /\ LET t == [cap EXCEPT !.copy[f].waiting = TRUE, !.copy[f].damage = damage]
     IN  cap' = IF ~cap.out.active THEN [cap EXCEPT !.copy[f] = Nil]
                ELSE IF ~damage \/ ~cap.copy[f].since \/ cap.since = "damaged"
                THEN screen_schedule_frame(t) ELSE t

frame_destroy(f) == cap.copy[f] # Nil /\ cap' = [cap EXCEPT !.copy[f] = Nil]

\* manager_resource_destroy: the frames outlive their manager; another takes its place.
manager_resource_destroy ==
  /\ cap.since # Nil
  /\ cap' = [cap EXCEPT !.since = Nil, !.copied = Nil,
               !.copy = [f \in Copies |-> IF @[f] = Nil THEN Nil ELSE [@[f] EXCEPT !.since = FALSE]]]

(***************************************************************************)
(* Sessions.                                                               *)
(***************************************************************************)
\* create_session, of an output or a window; without one it is stopped at once.
create_session(x, what, cursors) ==
  /\ cap.session[x] = Nil
  /\ LET size == source_size(cap, what)
     IN  cap' = [cap EXCEPT !.session[x] =
                   IF size = Nil THEN Stopped
                   ELSE [Stopped EXCEPT !.what = what, !.live = TRUE, !.cursors = cursors,
                                        !.damaged = TRUE, !.size = size]]

session_create_frame(x) ==
  /\ cap.session[x] # Nil /\ cap.session[x].frame = Nil
  /\ cap' = [cap EXCEPT !.session[x].frame = "idle"]

image_frame_destroy(x) ==
  /\ cap.session[x] # Nil /\ cap.session[x].frame # Nil
  /\ cap' = [cap EXCEPT !.session[x].frame = Nil, !.session[x].buffer = Nil]

image_frame_attach(x, size) ==
  /\ cap.session[x] # Nil /\ cap.session[x].frame = "idle"
  /\ cap' = [cap EXCEPT !.session[x].buffer = size]

\* image_frame_capture: what is on the screen already is taken from it, if the
\* cursor may be in it; anything else waits for a frame.
image_frame_capture(x, how) ==
  /\ cap.session[x] # Nil /\ cap.session[x].frame = "idle" /\ cap.session[x].buffer # Nil
  /\ LET e == cap.session[x]
         s == [cap EXCEPT !.session[x].frame = "capturing"]
         now == serve_session(s, s.session[x], s.out.presented, FALSE, how).session
     IN  cap' = CASE ~e.live -> [cap EXCEPT !.session[x] = Answered(@)]
                  [] e.live /\ e.what = "cursor" -> serve_cursor(s, x, how)
                  [] e.live /\ e.what # "cursor" /\ (e.what = "window" \/ ~Active(s)) -> schedule_scene(s)
                  [] OTHER ->
                       IF e.damaged /\ e.cursors /\ ~s.out.scanout /\ s.out.presented # Nil
                       THEN [s EXCEPT !.session[x] = now]
                       ELSE IF e.damaged \/ s.out.damaged THEN screen_schedule_frame(s) ELSE s

\* frame_copied: the GPU is through with a copy (copy_later).
frame_copied(x) ==
  /\ cap.session[x] # Nil /\ cap.session[x].frame = "copying"
  /\ cap' = [cap EXCEPT !.session[x] = Answered(@)]

session_resource_destroy(x) ==
  /\ cap.session[x] # Nil
  /\ cap' = [cap EXCEPT !.session[x] = Nil]

(***************************************************************************)
(* The cursor.                                                             *)
(***************************************************************************)
\* cursor_update, of the cursor session and of the session that captures it.
cursor_update(s, how) ==
  IF s.cursor = Nil THEN s
  ELSE IF ~(s.cursor.source /\ Active(s) /\ s.over) THEN [s EXCEPT !.cursor.entered = FALSE]
  ELSE LET t == [s EXCEPT !.cursor.entered = TRUE]
       IN  IF Listed(t, "cursor") = {} THEN t
           ELSE serve_cursor(t, CHOOSE x \in Listed(t, "cursor") : TRUE, how)

create_cursor_session(how) ==
  /\ cap.cursor = Nil
  /\ cap' = cursor_update([cap EXCEPT !.cursor =
               [source |-> cap.out # Nil, entered |-> FALSE, requested |-> FALSE, served |-> Nil]], how)

cursor_session_capture(x) ==
  /\ cap.cursor # Nil /\ ~cap.cursor.requested /\ cap.session[x] = Nil
  /\ cap' = IF ~(cap.cursor.source /\ Active(cap)) THEN [cap EXCEPT !.session[x] = Stopped]
            ELSE [cap EXCEPT !.cursor.requested = TRUE,
                    !.session[x] = [Stopped EXCEPT !.what = "cursor", !.live = TRUE]]

cursor_session_resource_destroy ==
  /\ cap.cursor # Nil
  /\ cap' = [Stopping(cap, Listed(cap, "cursor")) EXCEPT !.cursor = Nil]

\* The pointer moves or its image changes: capture_cursor_update.
CursorChanges(image, over, how) ==
  /\ <<image, over>> # <<cap.image, cap.over>>
  /\ cap' = cursor_update([cap EXCEPT !.image = image, !.over = over], how)

\* Images of the cursor that are told apart.
Images == 0..Versions

CaptureNext ==
  \/ capture_output_gone \/ SceneChanges \/ manager_resource_destroy
  \/ cursor_session_resource_destroy
  \/ \E size \in Sizes : output_added(size) \/ \E active \in BOOLEAN : OutputConfigured(active, size)
  \/ \E size \in Sizes \cup {"unmapped", "gone"} : WindowChanges(size)
  \/ \E scanout, rendered, commits, second \in BOOLEAN, how \in [Sessions -> How],
        howCopy \in [Copies -> {"ready", "fails"}] :
       output_frame(scanout, rendered, commits, second, how, howCopy)
  \/ \E f \in Copies : frame_destroy(f) \/ \E b \in BOOLEAN : capture(f, b) \/ frame_request(f, b)
  \/ \E x \in Sessions :
       \/ session_create_frame(x) \/ image_frame_destroy(x) \/ frame_copied(x)
       \/ session_resource_destroy(x) \/ cursor_session_capture(x)
       \/ \E size \in Sizes : image_frame_attach(x, size)
       \/ \E how \in How : image_frame_capture(x, how)
       \/ \E what \in {"output", "window"}, cursors \in BOOLEAN : create_session(x, what, cursors)
  \/ \E how \in How : \/ create_cursor_session(how)
                       \/ \E image \in Images, over \in BOOLEAN : CursorChanges(image, over, how)

CaptureSpec == (\E size \in Sizes : CaptureInit(size, "unmapped")) /\ [][CaptureNext]_cap

(***************************************************************************)
(* Properties.                                                             *)
(***************************************************************************)
Waiting(what) == {x \in Listed(cap, what) : cap.session[x].frame = "capturing"}

\* A frame is on its way, or the last one failed, or there cannot be one.
Coming == ~Active(cap) \/ cap.out.frame \/ cap.out.failed

\* Who waits for an image that can be had is not left waiting: behind the screen, a
\* session or a copy has a frame coming, and the cursor's image is served at once
\* (capture.c:image_frame_capture, capture_serve, cursor_update).
WaitingIsServed ==
  /\ \A x \in Waiting("output") : Active(cap) => Coming \/ ~(cap.session[x].damaged \/ cap.out.damaged)
  /\ Waiting("window") # {} /\ cap.win \in Sizes => Coming
  /\ Waiting("cursor") # {} => ~cap.cursor.entered \/ cap.cursor.served = cap.image
  /\ \A f \in Copies : cap.copy[f] # Nil /\ cap.copy[f].waiting =>
        Coming \/ (cap.copy[f].damage /\ (cap.copy[f].since => cap.copied = cap.out.shown))

\* Who is told that nothing is new has the newest image (capture.c:capture_serve).
NothingIsMissed ==
  cap.out # Nil /\ ~cap.out.damaged =>
    /\ \A x \in Listed(cap, "output") : ~cap.session[x].damaged =>
          cap.session[x].seen = cap.out.shown
    /\ cap.since = "clean" => cap.copied = cap.out.shown

\* A session does not outlive its source, and a stopped one owes no answer
\* (capture.c:session_stop, capture_output_gone, capture_window_gone).
StoppedIsAnswered ==
  \A x \in Sessions : cap.session[x] # Nil =>
    IF cap.session[x].live
    THEN IF cap.session[x].what = "window" THEN cap.win # "gone" ELSE cap.out # Nil
    ELSE cap.session[x].frame \notin {"capturing", "copying"}

CapturesAreServed == WaitingIsServed /\ NothingIsMissed /\ StoppedIsAnswered
=============================================================================
