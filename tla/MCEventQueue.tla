---------------------------- MODULE MCEventQueue ----------------------------
(* EventQueue on a small instance: one window, one layer surface that may *)
(* make either of two requests, one of which can be arranged two ways.    *)
EXTENDS EventQueue

MCRequestOf == [s \in {"top", "topMoved", "bottom"} |->
                  IF s = "bottom" THEN "r2" ELSE "r1"]
=============================================================================
