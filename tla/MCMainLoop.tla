----------------------------- MODULE MCMainLoop -----------------------------
(***************************************************************************)
(* What the main loop owes: the backend events (EventQueue, on the         *)
(* instance of MCEventQueue) and the user's file it watches (SourceWatch,  *)
(* without builtins).  They share no state: a behaviour is one of either.  *)
(***************************************************************************)
EXTENDS MCEventQueue

CONSTANT Absent

VARIABLES file, sources, source_stamps, stamps, loaded, mounts, load, pass, sampled, watching,
          part

Versions == {"v1", "v2", "bad"}

S == INSTANCE SourceWatch WITH
       phase <- watching, Sources <- {"config"}, Broken <- {"bad"},
       Defines <- [config |-> [v \in Versions |-> {"config"}]], Startup <- <<"config">>,
       Operations <- {"unmount", "vanish"}

sourceVars == <<file, sources, source_stamps, stamps, loaded, mounts, load, pass, sampled, watching>>
mainVars == <<vars, sourceVars, part>>

OfEvents(A)  == part = "events" /\ A /\ UNCHANGED <<sourceVars, part>>
OfSources(A) == part = "sources" /\ A /\ UNCHANGED <<vars, part>>

MainInit ==
  /\ part \in {"events", "sources"}
  /\ Init /\ S!Init
  /\ part = "events" => file = [config |-> "v1"]

MainNext == OfEvents(Next) \/ OfSources(S!Next)

\* As in EventQueue and SourceWatch.
MainFairness ==
  /\ WF_mainVars(OfEvents(Loop)) /\ SF_mainVars(OfEvents(Accept))
  /\ WF_mainVars(OfSources(S!Watch)) /\ WF_mainVars(OfSources(S!Work))

MainSpec == MainInit /\ [][MainNext]_mainVars /\ MainFairness

\* What is loaded is a version that was seen to be quiet, and the watcher does not
\* take an edit made before its first look for the loaded content (main.lisp,
\* watch-sources).
ReloadsAreSound == S!ReloadsOnlyQuietFiles /\ S!FirstLookSeesEarlierEdits

\* A loadable version that stays in the user's file is loaded (SourceWatch).
SavedVersionIsLoaded == S!SavedVersionIsLoaded
=============================================================================
