----------------------------- MODULE SourceWatch ----------------------------
(***************************************************************************)
(* Loading, reloading and watching extension sources: configure, unmount   *)
(* and source-stamp of src/runtime.lisp, the startup of run-compositor and *)
(* watch-sources of src/main.lisp, the reload, mount and unmount requests  *)
(* of src/control.lisp.                                                    *)
(*                                                                         *)
(* A version of a file is what a stamp can tell apart (write date, length  *)
(* and digest); a file may come back to an earlier version (an editor's    *)
(* backup moved over it).  The main thread loads, transacts and stamps     *)
(* without a break, but the user's editor does not wait for it: `load' is  *)
(* the configure in progress, from its reading of the files to its end.    *)
(***************************************************************************)
EXTENDS Integers, Sequences, FiniteSets, SequencesExt

CONSTANTS
  Sources,      \* paths
  Versions,     \* what a file may hold
  Broken,       \* the versions whose load, or first transaction, fails
  Defines,      \* the extensions each version of each source defines
  Startup,      \* the command line: the builtins, then the user's file
  Operations,   \* control requests and spontaneous changes under study
  None, Absent

ASSUME SourceAssumption ==
  /\ Broken \subseteq Versions
  /\ DOMAIN Defines = Sources
  /\ \A s \in Sources : DOMAIN Defines[s] = Versions
  /\ Startup \in Seq(Sources) /\ Startup # <<>>
  /\ Operations \subseteq {"reload", "mount", "unmount", "vanish", "midload"}
  /\ None \notin Versions \cup Sources
  /\ Absent \notin Versions \cup {None}
  /\ None \notin [stamp : Versions \cup {Absent}, stable : Nat, loaded : Versions \cup {Absent}]

VARIABLES
  file,           \* the file system
  sources,        \* runtime-sources
  source_stamps,  \* runtime-source-stamps, None where there is no entry
  stamps,         \* the watcher's table: None or an entry
  loaded,         \* the version each source was last loaded from
  mounts,         \* runtime-mounts: pairs of a source and an extension
  load,           \* the configure in progress, None if there is none
  pass,           \* the sources watch-sources has yet to look at
  sampled,        \* the last stamp watch-sources saw of each source
  phase           \* "startup", "running" or "exit"

runtimeVars == <<sources, source_stamps, loaded, mounts>>
watchVars   == <<stamps, pass, sampled>>
vars        == <<file, runtimeVars, watchVars, load, phase>>

Samples == Versions \cup {Absent}
Names   == UNION {Defines[s][v] : s \in Sources, v \in Versions}
-----------------------------------------------------------------------------
(* configure. *)

\* The files configure reads: every source, or the changed one alone.
Reads(srcs, changed) ==
  [s \in Sources |-> IF s \in ToSet(srcs) /\ changed \in {None, s} THEN file[s] ELSE None]

Configure(by, srcs, changed) ==
  [by |-> by, sources |-> srcs, changed |-> changed, read |-> Reads(srcs, changed)]

LoadedSet(l) == {s \in Sources : l.read[s] # None}

\* The mounts of the other sources stay when one source changed.
Retained(l) == IF l.changed = None THEN {} ELSE {m \in mounts : m[1] # l.changed}

Loads(l) == UNION {{s} \X Defines[s][l.read[s]] : s \in LoadedSet(l)}

\* Slip: the names of the retained mounts are not checked.
Loadable_SpecsOnly(l) ==
  /\ \A s \in LoadedSet(l) : l.read[s] \in Versions \ Broken
  /\ \A m, n \in Loads(l) : m[2] = n[2] => m = n

\* Every file can be read and loaded and no extension is defined twice.
Loadable(l) ==
  /\ \A s \in LoadedSet(l) : l.read[s] \in Versions \ Broken
  /\ \A m, n \in Retained(l) \cup Loads(l) : m[2] = n[2] => m = n

ConfigureDone ==
  /\ load # None
  /\ Loadable(load)
  /\ mounts' = {m \in Retained(load) \cup Loads(load) : m[1] \in ToSet(load.sources)}
  /\ loaded' = [s \in Sources |-> IF s \in LoadedSet(load) THEN load.read[s] ELSE loaded[s]]
  /\ sources' = load.sources
  /\ source_stamps' = [s \in Sources |-> IF s \in ToSet(load.sources) THEN file[s] ELSE None]
  /\ load' = None
  /\ phase' = "running"
  /\ UNCHANGED <<file, watchVars>>

\* A failure changes nothing, but at startup: there, the last source (the
\* user's file) is given up, and without another source the program ends.
ConfigureFails ==
  /\ load # None
  /\ ~Loadable(load)
  /\ IF load.by = "startup" /\ Len(load.sources) > 1
     THEN /\ load' = Configure("fallback", Front(load.sources), None)
          /\ UNCHANGED phase
     ELSE /\ load' = None
          /\ phase' = IF load.by \in {"startup", "fallback"} THEN "exit" ELSE phase
  /\ UNCHANGED <<file, runtimeVars, watchVars>>

-----------------------------------------------------------------------------
(* watch-sources, one source per step. *)

Idle == phase = "running" /\ load = None

StartPass ==
  /\ Idle /\ pass = <<>>
  /\ pass' = sources
  /\ UNCHANGED <<file, runtimeVars, stamps, sampled, load, phase>>

\* Slip: the baseline is what the first look finds.
Baseline_Current(path, current) ==
  [stamp |-> current, stable |-> 0, loaded |-> current]

\* The entry after a look at a file that holds `current' (source-stamp is nil
\* for a missing file).
Baseline(path, current) ==
  [stamp |-> current, stable |-> 0,
   loaded |-> IF source_stamps[path] \in Versions THEN source_stamps[path] ELSE current]

\* Slip: a change is loaded at once.
Quiet_AtOnce(entry, current) == TRUE
\* The same stamp for two samples in a row.
Quiet(entry, current) ==
  current = entry.stamp /\ entry.stable + 1 >= 2

Look(path, current) ==
  LET entry == stamps[path]
  IN CASE current = Absent ->
            IF entry # None /\ entry.loaded = Absent THEN entry
            ELSE [stamp |-> Absent, loaded |-> Absent, stable |-> 0]
       [] current # Absent /\ entry = None -> Baseline(path, current)
       [] current # Absent /\ entry # None ->
            IF current = entry.loaded THEN [entry EXCEPT !.stamp = current, !.stable = 0]
            ELSE IF Quiet(entry, current)
                 THEN [stamp |-> current, loaded |-> current, stable |-> 0]
                 ELSE [entry EXCEPT !.stamp = current,
                         !.stable = IF current = entry.stamp THEN entry.stable + 1 ELSE 1]

Reloads(path, current) ==
  /\ current # Absent
  /\ stamps[path] # None
  /\ current # stamps[path].loaded
  /\ Quiet(stamps[path], current)

WatchSource ==
  /\ Idle /\ pass # <<>>
  /\ LET path == Head(pass)
         current == file[path]
     IN /\ stamps' = [stamps EXCEPT ![path] = Look(path, current)]
        /\ sampled' = [sampled EXCEPT ![path] = IF current = Absent THEN @ ELSE current]
        /\ load' = IF Reloads(path, current) THEN Configure("watch", sources, path) ELSE None
  /\ pass' = Tail(pass)
  /\ UNCHANGED <<file, runtimeVars, phase>>

-----------------------------------------------------------------------------
(* Requests, from a control client or from an extension's own command. *)

\* Between two passes, or inside one: a pass reconciles observations first, and
\* the transactions of those may run a :reload command.
Reload ==
  /\ Idle /\ "reload" \in Operations
  /\ load' = Configure("request", sources, None)
  /\ UNCHANGED <<file, runtimeVars, watchVars, phase>>

Mount(path) ==
  /\ Idle /\ pass = <<>> /\ "mount" \in Operations
  /\ file[path] # Absent
  /\ load' = Configure("request", IF path \in ToSet(sources) THEN sources
                                  ELSE Append(sources, path), path)
  /\ UNCHANGED <<file, runtimeVars, watchVars, phase>>

Unmount(name) ==
  /\ Idle /\ pass = <<>> /\ "unmount" \in Operations
  /\ \E m \in mounts : m[2] = name
  /\ mounts' = {m \in mounts : m[2] # name}
  /\ UNCHANGED <<file, sources, source_stamps, loaded, watchVars, load, phase>>

\* The user: a save, a removal, a restored backup.
Save(path, version) ==
  /\ file[path] # version
  /\ version = Absent => "vanish" \in Operations
  /\ load # None => "midload" \in Operations
  /\ file' = [file EXCEPT ![path] = version]
  /\ UNCHANGED <<runtimeVars, watchVars, load, phase>>

StopRequest ==
  /\ Idle
  /\ phase' = "exit"
  /\ UNCHANGED <<file, runtimeVars, watchVars, load>>

-----------------------------------------------------------------------------
Init ==
  /\ file \in [Sources -> Versions]
  /\ sources = <<>>
  /\ source_stamps = [s \in Sources |-> None]
  /\ stamps = [s \in Sources |-> None]
  /\ loaded = [s \in Sources |-> None]
  /\ mounts = {}
  /\ load = Configure("startup", Startup, None)
  /\ pass = <<>>
  /\ sampled = [s \in Sources |-> None]
  /\ phase = "startup"

Watch == StartPass \/ WatchSource

Work == ConfigureDone \/ ConfigureFails

Request == Reload \/ (\E s \in Sources : Mount(s)) \/ (\E n \in Names : Unmount(n))

Next ==
  \/ Work
  \/ Watch
  \/ Request
  \/ \E s \in Sources, v \in Samples : Save(s, v)
  \/ StopRequest

Spec == Init /\ [][Next]_vars

\* The main loop runs a pass every quarter of a second and a configure ends
\* (a load has a timeout of one second).  Nothing is assumed of the user.
FairSpec == Spec /\ WF_vars(Watch) /\ WF_vars(Work)

-----------------------------------------------------------------------------
(* Properties. *)

\* However loads, failures, reloads of one file and unmounts are ordered, no
\* two mounts share a name, and the mounts of a source are those of the one
\* version the runtime says it loaded, a loadable one: the last good version.
MountsComeFromOneGoodVersion ==
  /\ \A m, n \in mounts : m[2] = n[2] => m = n
  /\ \A m \in mounts : /\ m[1] \in ToSet(sources)
                       /\ loaded[m[1]] \in Versions \ Broken
                       /\ m[2] \in Defines[m[1]][loaded[m[1]]]

\* main.lisp, watch-sources: a source is reloaded "once its stamp has held
\* still for two consecutive samples"; a look that finds no file takes no
\* sample, and what is loaded is what was sampled.
ReloadsOnlyQuietFiles ==
  [][load = None /\ load' # None /\ load'.by = "watch"
     => sampled[load'.changed] = load'.read[load'.changed]]_vars

\* main.lisp, watch-sources: "an edit made before the watcher's first look is
\* not mistaken for the loaded content".
FirstLookSeesEarlierEdits ==
  [][\A s \in Sources :
       stamps[s] = None /\ stamps'[s] # None /\ stamps'[s].loaded # Absent
       => stamps'[s].loaded = loaded[s]]_vars

\* README: a file is reloaded "whenever you save".  A loadable version that
\* stays in a startup source is loaded, unless the program ends.
SavedVersionIsLoaded ==
  \A s \in ToSet(Startup), v \in Versions \ Broken :
    (file[s] = v /\ phase = "running") ~> (loaded[s] = v \/ file[s] # v \/ phase = "exit")
=============================================================================
