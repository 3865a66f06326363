---------------------------- MODULE MCSourceWatch ---------------------------
(* SourceWatch with one or two sources, two good versions and a broken one. *)
EXTENDS SourceWatch

\* The command line run-cli builds.
BuiltinsThenConfig == <<"builtins", "config">>

\* Version v2 of the user's file takes over the name of a builtin that the
\* builtins' own v2 no longer defines.
SharedNames ==
  [s \in Sources |->
     [v \in Versions |->
        IF s = "builtins" THEN (IF v = "v2" THEN {"wm"} ELSE {"wm", "bar"})
        ELSE (IF v = "v2" THEN {"bar", "keys"} ELSE {"keys"})]]

\* No two sources ever define the same name.
OwnNames == [s \in Sources |-> [v \in Versions |-> {s}]]
=============================================================================
