---------------------------- MODULE SourceProofs ----------------------------
(***************************************************************************)
(* Machine-checked proofs about SourceWatch: the mounts are those of one   *)
(* good version of each source, and the watcher loads what was quiet, for  *)
(* any sources, versions, definitions and operations.                      *)
(***************************************************************************)
EXTENDS SourceWatch, TLAPS

-----------------------------------------------------------------------------
(* Sequences. *)

\* What the operations on the list of sources and on a pass keep of it.
LEMMA SequenceFacts ==
  ASSUME NEW S, NEW q \in Seq(S)
  PROVE  /\ ToSet(q) \subseteq S
         /\ \A x \in S : /\ Append(q, x) \in Seq(S)
                         /\ ToSet(Append(q, x)) = ToSet(q) \cup {x}
         /\ q # <<>> => /\ Head(q) \in ToSet(q)
                        /\ Tail(q) \in Seq(S) /\ ToSet(Tail(q)) \subseteq ToSet(q)
                        /\ ToSet(q) \subseteq ToSet(Tail(q)) \cup {Head(q)}
                        /\ Front(q) \in Seq(S)
         /\ q = <<>> => ToSet(q) = {}
<1>1. ToSet(q) \subseteq S
  BY DEF ToSet
<1>2. ASSUME NEW x \in S
      PROVE  Append(q, x) \in Seq(S) /\ ToSet(Append(q, x)) = ToSet(q) \cup {x}
  <2>1. /\ Append(q, x) \in Seq(S) /\ Len(Append(q, x)) = Len(q) + 1 /\ Len(q) \in Nat
        /\ \A i \in 1..Len(q) : Append(q, x)[i] = q[i]
        /\ Append(q, x)[Len(q) + 1] = x
    OBVIOUS
  <2>2. DOMAIN q = 1..Len(q) /\ DOMAIN Append(q, x) = 1..(Len(q) + 1)
    BY <2>1
  <2>3. 1..(Len(q) + 1) = 1..Len(q) \cup {Len(q) + 1}
    BY <2>1
  <2> QED BY <2>1, <2>2, <2>3 DEF ToSet
<1>3. CASE q # <<>>
  <2>1. /\ Tail(q) \in Seq(S) /\ Len(q) \in Nat \ {0} /\ Len(Tail(q)) = Len(q) - 1
        /\ \A i \in 1..Len(Tail(q)) : Tail(q)[i] = q[i + 1]
        /\ Head(q) = q[1]
    BY <1>3
  <2>2. DOMAIN q = 1..Len(q) /\ DOMAIN Tail(q) = 1..(Len(q) - 1)
    BY <2>1
  <2>3. Front(q) \in Seq(S)
    <3>1. Front(q) = [i \in 1..(Len(q) - 1) |-> q[i]] /\ Len(q) - 1 \in Nat
      BY <2>1 DEF Front
    <3>2. \A i \in 1..(Len(q) - 1) : q[i] \in S
      BY <2>1
    <3> QED BY <3>1, <3>2
  <2>4. Head(q) \in ToSet(q)
    BY <2>1, <2>2 DEF ToSet
  <2>5. ToSet(Tail(q)) \subseteq ToSet(q)
    BY <2>1, <2>2 DEF ToSet
  <2>6. ToSet(q) \subseteq ToSet(Tail(q)) \cup {Head(q)}
    <3> SUFFICES ASSUME NEW i \in 1..Len(q) PROVE q[i] \in ToSet(Tail(q)) \cup {Head(q)}
      BY <2>2 DEF ToSet
    <3>1. CASE i = 1
      BY <2>1, <3>1
    <3>2. CASE i # 1
      <4>1. i - 1 \in 1..(Len(q) - 1) /\ Tail(q)[i - 1] = q[i]
        BY <2>1, <3>2
      <4> QED BY <2>2, <4>1 DEF ToSet
    <3> QED BY <3>1, <3>2
  <2> QED BY <1>1, <1>2, <1>3, <2>1, <2>3, <2>4, <2>5, <2>6
<1>4. CASE q = <<>>
  BY <1>1, <1>2, <1>4 DEF ToSet
<1> QED BY <1>3, <1>4

\* A list without repetitions.
LEMMA InjectiveFacts ==
  ASSUME NEW S, NEW q \in Seq(S), q # <<>>, IsInjective(q)
  PROVE  IsInjective(Tail(q)) /\ Head(q) \notin ToSet(Tail(q)) /\ IsInjective(Front(q))
<1>1. /\ Tail(q) \in Seq(S) /\ Len(q) \in Nat \ {0} /\ Len(Tail(q)) = Len(q) - 1
      /\ \A i \in 1..Len(Tail(q)) : Tail(q)[i] = q[i + 1]
      /\ Head(q) = q[1]
  OBVIOUS
<1>2. DOMAIN q = 1..Len(q) /\ DOMAIN Tail(q) = 1..(Len(q) - 1)
  BY <1>1
<1>3. IsInjective(Tail(q))
  <2> SUFFICES ASSUME NEW i \in 1..(Len(q) - 1), NEW k \in 1..(Len(q) - 1), Tail(q)[i] = Tail(q)[k]
               PROVE  i = k
    BY <1>2 DEF IsInjective
  <2>1. q[i + 1] = q[k + 1] /\ i + 1 \in DOMAIN q /\ k + 1 \in DOMAIN q
    BY <1>1, <1>2
  <2>2. i + 1 = k + 1
    BY <2>1 DEF IsInjective
  <2> QED BY <2>2
<1>4. Head(q) \notin ToSet(Tail(q))
  <2> SUFFICES ASSUME NEW i \in 1..(Len(q) - 1), Tail(q)[i] = q[1] PROVE FALSE
    BY <1>1, <1>2 DEF ToSet
  <2>1. q[i + 1] = q[1] /\ i + 1 \in DOMAIN q /\ 1 \in DOMAIN q
    BY <1>1, <1>2
  <2>2. i + 1 = 1
    BY <2>1 DEF IsInjective
  <2> QED BY <2>2
<1>5. IsInjective(Front(q))
  <2>1. Front(q) = [i \in 1..(Len(q) - 1) |-> q[i]]
    BY <1>1 DEF Front
  <2>2. \A i \in 1..(Len(q) - 1) : i \in DOMAIN q /\ Front(q)[i] = q[i]
    BY <1>1, <1>2, <2>1
  <2>3. DOMAIN Front(q) = 1..(Len(q) - 1)
    BY <2>1
  <2> QED BY <2>2, <2>3 DEF IsInjective
<1> QED BY <1>3, <1>4, <1>5

-----------------------------------------------------------------------------
(* The inductive invariant. *)

Entry == [stamp : Samples, stable : Nat, loaded : Samples]

Types ==
  /\ file \in [Sources -> Samples]
  /\ sources \in Seq(Sources)
  /\ source_stamps \in [Sources -> Samples \cup {None}]
  /\ stamps \in [Sources -> Entry \cup {None}]
  /\ loaded \in [Sources -> Samples \cup {None}]
  /\ sampled \in [Sources -> Samples \cup {None}]
  /\ pass \in Seq(Sources)

\* A configure that is going on read every source of its list, or the changed one
\* alone.
Reading(l) ==
  /\ l.sources \in Seq(Sources)
  /\ l.read \in [Sources -> Samples \cup {None}]
  /\ l.changed # None => \A s \in Sources \ {l.changed} : l.read[s] = None

\* What watch-sources calls stable is what it sampled last.
Sampled ==
  \A s \in Sources : stamps[s] # None /\ stamps[s].stable # 0 => stamps[s].stamp = sampled[s]

First(l) == l.by \in {"startup", "fallback"}

\* A pass looks at sources of the list, which a configure changes between two
\* passes only.  The watcher has not looked before the first configure is over.
Listed ==
  /\ ToSet(pass) \subseteq ToSet(sources)
  /\ load # None /\ pass # <<>> => load.sources = sources
  /\ load # None /\ First(load) => pass = <<>> /\ \A s \in Sources : stamps[s] = None

IInv ==
  /\ Types
  /\ load # None => Reading(load)
  /\ MountsComeFromOneGoodVersion
  /\ Sampled
  /\ Listed

-----------------------------------------------------------------------------
(* Loading. *)

\* configure reads the files it says it reads.
LEMMA ConfigureReads ==
  ASSUME Types, NEW by, NEW srcs \in Seq(Sources), NEW changed
  PROVE  LET l == Configure(by, srcs, changed) IN
         /\ Reading(l) /\ l.by = by /\ l.sources = srcs /\ l.changed = changed
         /\ \A s \in Sources :
              l.read[s] = IF s \in ToSet(srcs) /\ changed \in {None, s} THEN file[s] ELSE None
<1> DEFINE l == Configure(by, srcs, changed)
<1>1. l.by = by /\ l.sources = srcs /\ l.changed = changed /\ l.read = Reads(srcs, changed)
  BY DEF Configure
<1>2. \A s \in Sources :
        l.read[s] = IF s \in ToSet(srcs) /\ changed \in {None, s} THEN file[s] ELSE None
  BY <1>1 DEF Reads
<1>3. l.read \in [Sources -> Samples \cup {None}]
  BY <1>1 DEF Reads, Types
<1> HIDE DEF l
<1>4. Reading(l)
  BY <1>1, <1>2, <1>3 DEF Reading
<1> QED BY <1>1, <1>2, <1>4 DEF l

\* A configure that succeeds replaces the mounts of the sources it read by those
\* of the version it read, and touches no other.
LEMMA DoneKeeps ==
  ASSUME IInv, ConfigureDone
  PROVE  IInv'
<1>1. /\ load # None /\ Loadable(load) /\ Reading(load)
      /\ mounts' = {m \in Retained(load) \cup Loads(load) : m[1] \in ToSet(load.sources)}
      /\ loaded' = [s \in Sources |-> IF s \in LoadedSet(load) THEN load.read[s] ELSE loaded[s]]
      /\ sources' = load.sources
      /\ source_stamps' = [s \in Sources |-> IF s \in ToSet(load.sources) THEN file[s] ELSE None]
      /\ load' = None
      /\ UNCHANGED <<file, stamps, pass, sampled>>
  BY DEF IInv, ConfigureDone, watchVars
<1>2. Types'
  <2>1. loaded' \in [Sources -> Samples \cup {None}]
    BY <1>1 DEF IInv, Types, Reading
  <2>2. source_stamps' \in [Sources -> Samples \cup {None}]
    BY <1>1 DEF IInv, Types
  <2>3. sources' \in Seq(Sources)
    BY <1>1 DEF Reading
  <2> QED BY <1>1, <2>1, <2>2, <2>3 DEF IInv, Types
<1>3. MountsComeFromOneGoodVersion'
  <2>1. ASSUME NEW m \in mounts', NEW n \in mounts', m[2] = n[2] PROVE m = n
    BY <1>1, <2>1 DEF Loadable
  <2>2. ASSUME NEW m \in mounts'
        PROVE  /\ m[1] \in ToSet(load.sources)
               /\ loaded'[m[1]] \in Versions \ Broken
               /\ m[2] \in Defines[m[1]][loaded'[m[1]]]
    <3>1. m[1] \in ToSet(load.sources) /\ m[1] \in Sources
      <4>1. m[1] \in ToSet(load.sources)
        BY <1>1
      <4> QED BY <1>1, <4>1, SequenceFacts DEF Reading
    <3>2. CASE m \in Loads(load)
      <4>1. PICK s \in LoadedSet(load) : m \in {s} \X Defines[s][load.read[s]]
        BY <3>2 DEF Loads
      <4>2. m[1] = s /\ m[2] \in Defines[s][load.read[s]]
        BY <4>1
      <4>3. loaded'[s] = load.read[s] /\ load.read[s] \in Versions \ Broken
        BY <1>1, <4>1 DEF LoadedSet, Loadable
      <4> QED BY <3>1, <4>2, <4>3
    <3>3. CASE m \in Retained(load)
      <4>1. load.changed # None /\ m \in mounts /\ m[1] # load.changed
        BY <3>3 DEF Retained
      <4>2. m[1] \notin LoadedSet(load)
        BY <1>1, <3>1, <4>1 DEF Reading, LoadedSet
      <4>3. loaded'[m[1]] = loaded[m[1]]
        BY <1>1, <3>1, <4>2
      <4> QED BY <3>1, <4>1, <4>3 DEF IInv, MountsComeFromOneGoodVersion
    <3> QED BY <1>1, <3>2, <3>3
  <2> QED BY <1>1, <2>1, <2>2 DEF MountsComeFromOneGoodVersion
<1>4. Sampled'
  BY <1>1 DEF IInv, Sampled
<1>5. Listed'
  <2>1. CASE pass = <<>>
    <3>1. ToSet(pass') = {}
      BY <1>1, <2>1 DEF ToSet
    <3> QED BY <1>1, <2>1, <3>1 DEF Listed
  <2>2. CASE pass # <<>>
    BY <1>1, <2>2 DEF IInv, Listed
  <2> QED BY <2>1, <2>2
<1> QED BY <1>1, <1>2, <1>3, <1>4, <1>5 DEF IInv

\* A configure that fails, or starts again without the user's file, changes no
\* mount.
LEMMA FailsKeeps ==
  ASSUME IInv, ConfigureFails
  PROVE  IInv'
<1>1. load # None /\ Reading(load) /\ UNCHANGED <<file, runtimeVars, watchVars>>
  BY DEF ConfigureFails, IInv
<1>2. Types' /\ MountsComeFromOneGoodVersion' /\ Sampled'
  BY <1>1 DEF IInv, Types, MountsComeFromOneGoodVersion, Sampled, runtimeVars, watchVars
<1>3. CASE load.by = "startup" /\ Len(load.sources) > 1
  <2>1. load' = Configure("fallback", Front(load.sources), None)
    BY <1>3 DEF ConfigureFails
  <2>2. Front(load.sources) \in Seq(Sources)
    <3>1. load.sources \in Seq(Sources) /\ load.sources # <<>>
      BY <1>1, <1>3 DEF Reading
    <3> QED BY <3>1, SequenceFacts
  <2>3. Reading(load')
    BY <2>1, <2>2, ConfigureReads DEF IInv
  <2>4. pass = <<>> /\ \A s \in Sources : stamps[s] = None
    BY <1>1, <1>3 DEF IInv, Listed, First
  <2>5. Listed'
    <3>1. UNCHANGED <<pass, stamps, sources>>
      BY <1>1 DEF runtimeVars, watchVars
    <3> QED BY <2>4, <3>1 DEF IInv, Listed
  <2> QED BY <1>2, <2>3, <2>5 DEF IInv
<1>4. CASE ~(load.by = "startup" /\ Len(load.sources) > 1)
  <2>1. load' = None
    BY <1>4 DEF ConfigureFails
  <2>2. Listed'
    BY <1>1, <2>1 DEF IInv, Listed, runtimeVars, watchVars
  <2> QED BY <1>2, <2>1, <2>2 DEF IInv
<1> QED BY <1>3, <1>4

-----------------------------------------------------------------------------
(* Watching. *)

\* What a look at a file makes of its entry in the watcher's table.
LEMMA LookFacts ==
  ASSUME Types, NEW path \in Sources, NEW current \in Samples
  PROVE  LET e == Look(path, current) IN
         /\ e \in Entry
         /\ current = Absent => \/ e = stamps[path] /\ stamps[path] # None
                               \/ e.stable = 0
         /\ current # Absent /\ e.stable # 0 => e.stamp = current
         /\ stamps[path] = None => e.stable = 0
         /\ stamps[path] = None /\ current = Absent => e.loaded = Absent
         /\ stamps[path] = None /\ current # Absent => e = Baseline(path, current)
<1> DEFINE entry == stamps[path]
           e == Look(path, current)
<1>1. entry \in Entry \cup {None}
  BY DEF Types
<1>2. Absent \in Samples
  BY DEF Samples
<1>3. CASE current = Absent
  <2>1. e = IF entry # None /\ entry.loaded = Absent THEN entry
            ELSE [stamp |-> Absent, loaded |-> Absent, stable |-> 0]
    BY <1>3 DEF Look
  <2> HIDE DEF e, entry
  <2>2. CASE entry # None /\ entry.loaded = Absent
    BY <1>1, <1>3, <2>1, <2>2 DEF e, entry
  <2>3. CASE ~(entry # None /\ entry.loaded = Absent)
    <3>1. e = [stamp |-> Absent, loaded |-> Absent, stable |-> 0]
      BY <2>1, <2>3
    <3>2. e \in Entry /\ e.stable = 0 /\ e.loaded = Absent
      BY <1>2, <3>1 DEF Entry
    <3> QED BY <1>3, <3>2 DEF e, entry
  <2> QED BY <2>2, <2>3
<1>4. CASE current # Absent /\ entry = None
  <2>1. e = Baseline(path, current)
    BY <1>4 DEF Look
  <2>2. source_stamps[path] \in Versions => source_stamps[path] \in Samples
    BY DEF Samples
  <2>3. Baseline(path, current) \in Entry /\ Baseline(path, current).stable = 0
    BY <2>2 DEF Baseline, Entry
  <2> HIDE DEF e
  <2> QED BY <1>4, <2>1, <2>3 DEF e
<1>5. CASE current # Absent /\ entry # None
  <2>1. e = IF current = entry.loaded THEN [entry EXCEPT !.stamp = current, !.stable = 0]
            ELSE IF Quiet(entry, current)
                 THEN [stamp |-> current, loaded |-> current, stable |-> 0]
                 ELSE [entry EXCEPT !.stamp = current,
                         !.stable = IF current = entry.stamp THEN entry.stable + 1 ELSE 1]
    BY <1>5 DEF Look
  <2>2. entry \in Entry
    BY <1>1, <1>5
  <2> HIDE DEF e, entry
  <2>3. e \in Entry /\ e.stamp = current
    <3>1. CASE current = entry.loaded
      BY <2>1, <2>2, <3>1 DEF Entry
    <3>2. CASE current # entry.loaded /\ Quiet(entry, current)
      <4>1. e = [stamp |-> current, loaded |-> current, stable |-> 0]
        BY <2>1, <3>2
      <4> QED BY <4>1 DEF Entry
    <3>3. CASE current # entry.loaded /\ ~Quiet(entry, current)
      <4> DEFINE k == IF current = entry.stamp THEN entry.stable + 1 ELSE 1
      <4>1. e = [entry EXCEPT !.stamp = current, !.stable = k]
        BY <2>1, <3>3
      <4>2. k \in Nat
        BY <2>2 DEF Entry
      <4> HIDE DEF k
      <4> QED BY <2>2, <4>1, <4>2 DEF Entry
    <3> QED BY <3>1, <3>2, <3>3
  <2> QED BY <1>5, <2>3 DEF e, entry
<1> QED BY <1>3, <1>4, <1>5

\* A look, and the reload it may start.
LEMMA WatchKeeps ==
  ASSUME IInv, WatchSource
  PROVE  IInv'
<1> DEFINE path == Head(pass)
           current == file[path]
<1>1. pass # <<>> /\ load = None /\ UNCHANGED <<file, runtimeVars>> /\ pass' = Tail(pass)
  BY DEF WatchSource, Idle
<1>2. /\ path \in ToSet(pass) /\ path \in Sources /\ path \in ToSet(sources)
      /\ pass' \in Seq(Sources) /\ ToSet(pass') \subseteq ToSet(pass)
  BY <1>1, SequenceFacts DEF IInv, Types, Listed
<1>3. current \in Samples
  BY <1>2 DEF IInv, Types
<1> DEFINE e == Look(path, current)
<1>4. /\ stamps' = [stamps EXCEPT ![path] = e]
      /\ sampled' = [sampled EXCEPT ![path] = IF current = Absent THEN @ ELSE current]
      /\ load' = IF Reloads(path, current) THEN Configure("watch", sources, path) ELSE None
  BY DEF WatchSource
<1> HIDE DEF path, current
<1>5. /\ e \in Entry
      /\ current = Absent => \/ e = stamps[path] /\ stamps[path] # None
                            \/ e.stable = 0
      /\ current # Absent /\ e.stable # 0 => e.stamp = current
  BY <1>2, <1>3, LookFacts DEF IInv
<1> HIDE DEF e
<1>6. Types'
  <2>1. stamps' \in [Sources -> Entry \cup {None}] /\ sampled' \in [Sources -> Samples \cup {None}]
    BY <1>2, <1>3, <1>4, <1>5 DEF IInv, Types
  <2> QED BY <1>1, <1>2, <2>1 DEF IInv, Types, runtimeVars
<1>7. load' # None => Reading(load') /\ load' = Configure("watch", sources, path) /\ ~First(load')
                      /\ load'.sources = sources
  <2>1. sources \in Seq(Sources) /\ Types
    BY DEF IInv, Types
  <2> DEFINE l == Configure("watch", sources, path)
  <2>2. Reading(l) /\ l.by = "watch" /\ l.sources = sources
    BY <2>1, ConfigureReads
  <2> QED BY <1>4, <2>2 DEF First
<1>8. MountsComeFromOneGoodVersion'
  BY <1>1 DEF IInv, MountsComeFromOneGoodVersion, runtimeVars
<1>9. Sampled'
  <2> SUFFICES ASSUME NEW s \in Sources, stamps'[s] # None, stamps'[s].stable # 0
               PROVE  stamps'[s].stamp = sampled'[s]
    BY DEF Sampled
  <2>1. CASE s # path
    BY <1>2, <1>4, <2>1 DEF IInv, Types, Sampled
  <2>2. CASE s = path
    <3>1. stamps'[s] = e /\ sampled'[s] = IF current = Absent THEN sampled[s] ELSE current
      BY <1>2, <1>4, <2>2 DEF IInv, Types
    <3> QED BY <1>5, <2>2, <3>1 DEF IInv, Sampled
  <2> QED BY <2>1, <2>2
<1>10. Listed'
  BY <1>1, <1>2, <1>7 DEF IInv, Listed, runtimeVars
<1> QED BY <1>6, <1>7, <1>8, <1>9, <1>10 DEF IInv

\* A request starts a configure, of every source or of the one it mounts.
LEMMA RequestKeeps ==
  ASSUME IInv, NEW srcs \in Seq(Sources), NEW changed, load' = Configure("request", srcs, changed),
         UNCHANGED <<file, runtimeVars, watchVars>>, pass = <<>> \/ srcs = sources
  PROVE  IInv'
<1>1. Reading(load') /\ load'.by = "request" /\ load'.sources = srcs
  <2> DEFINE l == Configure("request", srcs, changed)
  <2>1. Types
    BY DEF IInv
  <2>2. \A by : Reading(Configure(by, srcs, changed))
    BY <2>1, ConfigureReads
  <2>3. l.by = "request" /\ l.sources = srcs
    BY DEF Configure
  <2> QED BY <2>2, <2>3
<1>2. Types' /\ MountsComeFromOneGoodVersion' /\ Sampled'
  BY DEF IInv, Types, MountsComeFromOneGoodVersion, Sampled, runtimeVars, watchVars
<1>3. Listed'
  BY <1>1 DEF IInv, Listed, First, runtimeVars, watchVars
<1> QED BY <1>1, <1>2, <1>3 DEF IInv

\* An unmount drops a name.
LEMMA UnmountKeeps ==
  ASSUME IInv, NEW name, Unmount(name)
  PROVE  IInv'
<1>1. /\ mounts' \subseteq mounts
      /\ UNCHANGED <<file, sources, source_stamps, loaded, stamps, pass, sampled, load>>
  BY DEF Unmount, watchVars
<1>2. MountsComeFromOneGoodVersion'
  BY <1>1 DEF IInv, MountsComeFromOneGoodVersion
<1> QED BY <1>1, <1>2 DEF IInv, Types, Sampled, Listed

LEMMA InitKeeps ==
  ASSUME Init
  PROVE  IInv
<1>1. Types
  <2>1. file \in [Sources -> Samples]
    BY DEF Init, Samples
  <2>2. /\ sources \in Seq(Sources) /\ pass \in Seq(Sources)
        /\ source_stamps \in [Sources -> Samples \cup {None}]
        /\ stamps \in [Sources -> Entry \cup {None}]
        /\ loaded \in [Sources -> Samples \cup {None}]
        /\ sampled \in [Sources -> Samples \cup {None}]
    BY DEF Init
  <2> QED BY <2>1, <2>2 DEF Types
<1>2. Reading(load)
  <2>1. Startup \in Seq(Sources) /\ load = Configure("startup", Startup, None)
    BY SourceAssumption DEF Init
  <2> QED BY <1>1, <2>1, ConfigureReads
<1>3. MountsComeFromOneGoodVersion /\ Sampled /\ Listed
  BY DEF Init, MountsComeFromOneGoodVersion, Sampled, Listed, ToSet
<1> QED BY <1>1, <1>2, <1>3 DEF IInv

LEMMA NextKeeps ==
  ASSUME IInv, [Next]_vars
  PROVE  IInv'
<1>1. CASE ConfigureDone
  BY <1>1, DoneKeeps
<1>2. CASE ConfigureFails
  BY <1>2, FailsKeeps
<1>3. CASE StartPass
  <2>1. /\ load = None /\ pass' = sources
        /\ UNCHANGED <<file, runtimeVars, stamps, sampled, load>>
    BY <1>3 DEF StartPass, Idle
  <2> QED BY <2>1 DEF IInv, Types, MountsComeFromOneGoodVersion, Sampled, Listed, runtimeVars
<1>4. CASE WatchSource
  BY <1>4, WatchKeeps
<1>5. CASE Reload
  <2>1. sources \in Seq(Sources)
    BY DEF IInv, Types
  <2> QED BY <1>5, <2>1, RequestKeeps DEF Reload
<1>6. ASSUME NEW s \in Sources, Mount(s) PROVE IInv'
  <2> DEFINE srcs == IF s \in ToSet(sources) THEN sources ELSE Append(sources, s)
  <2>1. srcs \in Seq(Sources)
    BY SequenceFacts DEF IInv, Types
  <2>2. /\ load' = Configure("request", srcs, s) /\ UNCHANGED <<file, runtimeVars, watchVars>>
        /\ pass = <<>>
    BY <1>6 DEF Mount
  <2> HIDE DEF srcs
  <2> QED BY <2>1, <2>2, RequestKeeps
<1>7. ASSUME NEW n \in Names, Unmount(n) PROVE IInv'
  BY <1>7, UnmountKeeps
<1>8. ASSUME NEW s \in Sources, NEW v \in Samples, Save(s, v) PROVE IInv'
  <2>1. file' \in [Sources -> Samples] /\ UNCHANGED <<runtimeVars, watchVars, load>>
    BY <1>8 DEF Save, IInv, Types
  <2> QED BY <2>1 DEF IInv, Types, MountsComeFromOneGoodVersion, Sampled, Listed, runtimeVars, watchVars
<1>9. CASE StopRequest \/ UNCHANGED vars
  <2>1. UNCHANGED <<file, runtimeVars, watchVars, load>>
    BY <1>9 DEF StopRequest, vars
  <2> QED BY <2>1 DEF IInv, Types, MountsComeFromOneGoodVersion, Sampled, Listed, runtimeVars, watchVars
<1> QED BY <1>1, <1>2, <1>3, <1>4, <1>5, <1>6, <1>7, <1>8, <1>9 DEF Next, Work, Watch, Request

LEMMA SpecKeeps == Spec => []IInv
<1>1. Init => IInv
  BY InitKeeps
<1>2. IInv /\ [Next]_vars => IInv'
  BY NextKeeps
<1> QED BY <1>1, <1>2, PTL DEF Spec

\* However loads, failures, reloads of one file, mounts and unmounts are ordered,
\* no two mounts share a name and those of a source are of the one good version
\* that configure last loaded of it.
THEOREM LastGoodVersion == Spec => []MountsComeFromOneGoodVersion
<1>1. IInv => MountsComeFromOneGoodVersion
  BY DEF IInv
<1> QED BY <1>1, SpecKeeps, PTL

\* What watch-sources reloads it had sampled before: an editor's half-written file
\* is not loaded unless it held still for a whole pass.
THEOREM QuietFilesOnly == Spec => ReloadsOnlyQuietFiles
<1>1. ASSUME IInv, [Next]_vars, load = None, load' # None, load'.by = "watch"
      PROVE  sampled[load'.changed] = load'.read[load'.changed]
  <2>1. CASE WatchSource
    <3> DEFINE path == Head(pass)
               current == file[path]
               l == Configure("watch", sources, path)
    <3>1. path \in Sources /\ path \in ToSet(sources)
      <4>1. pass \in Seq(Sources) /\ pass # <<>> /\ ToSet(pass) \subseteq ToSet(sources)
        BY <1>1, <2>1 DEF WatchSource, IInv, Types, Listed
      <4> QED BY <4>1, SequenceFacts
    <3>2. load' = IF Reloads(path, current) THEN l ELSE None
      BY <2>1 DEF WatchSource
    <3>3. load' = l /\ Reloads(path, current)
      BY <1>1, <3>2
    <3>4. l.changed = path /\ l.read[path] = file[path]
      <4>1. sources \in Seq(Sources) /\ Types
        BY <1>1 DEF IInv, Types
      <4> QED BY <3>1, <4>1, ConfigureReads
    <3> HIDE DEF path, l
    <3>5. stamps[path] # None /\ current = stamps[path].stamp /\ stamps[path].stable # 0
      <4>1. stamps[path] # None /\ Quiet(stamps[path], current)
        BY <3>3 DEF Reloads
      <4> QED BY <4>1 DEF Quiet
    <3>6. sampled[path] = current
      BY <1>1, <3>1, <3>5 DEF IInv, Sampled
    <3> QED BY <3>3, <3>4, <3>6
  <2>2. CASE Reload \/ \E s \in Sources : Mount(s)
    <3>1. PICK srcs, changed : load' = Configure("request", srcs, changed)
      BY <2>2 DEF Reload, Mount
    <3> QED BY <1>1, <3>1 DEF Configure
  <2>3. CASE ConfigureDone \/ ConfigureFails
    BY <1>1, <2>3 DEF ConfigureDone, ConfigureFails
  <2>4. CASE UNCHANGED load
    BY <1>1, <2>4
  <2> QED BY <1>1, <2>1, <2>2, <2>3, <2>4
             DEF Next, Work, Watch, Request, StartPass, Unmount, Save, StopRequest, vars
<1>2. IInv /\ [Next]_vars =>
        [load = None /\ load' # None /\ load'.by = "watch"
         => sampled[load'.changed] = load'.read[load'.changed]]_vars
  BY <1>1
<1> QED BY <1>2, SpecKeeps, PTL DEF Spec, ReloadsOnlyQuietFiles

-----------------------------------------------------------------------------
(* The watcher's first look. *)

\* Nothing but the command line adds sources, each once, and no file is saved
\* between the reading of a configure and the stamps it records.
Steady == "mount" \notin Operations /\ "midload" \notin Operations /\ IsInjective(Startup)

\* A configure keeps the list once there is one, and what it read is still in the
\* files.  One of a single source comes from a watcher that has looked at all.
Current(l) ==
  /\ IsInjective(l.sources)
  /\ First(l) \/ l.sources = sources
  /\ l.changed = None => \A s \in ToSet(l.sources) : l.read[s] = file[s]
  /\ l.changed # None => ~First(l) /\ \A s \in ToSet(sources) : stamps[s] # None

\* What the watcher has not looked at yet is stamped as it was loaded, and the pass
\* that will look at it is the first.
FirstPass ==
  /\ IsInjective(sources) /\ IsInjective(pass)
  /\ \A s \in ToSet(sources) : stamps[s] = None =>
       /\ source_stamps[s] = loaded[s] /\ loaded[s] \in Versions
       /\ pass # <<>> => s \in ToSet(pass)
       /\ \A v \in Sources : stamps[v] # None =>
            pass # <<>> /\ v \notin ToSet(pass) /\ stamps[v].stable = 0

FInv == IInv /\ (load # None => Current(load)) /\ FirstPass

\* A configure that succeeds stamps what it loaded, or the watcher has looked.
LEMMA DoneStamps ==
  ASSUME Steady, FInv, ConfigureDone
  PROVE  FInv'
<1>1. /\ load # None /\ Loadable(load) /\ Reading(load) /\ Current(load)
      /\ loaded' = [s \in Sources |-> IF s \in LoadedSet(load) THEN load.read[s] ELSE loaded[s]]
      /\ sources' = load.sources
      /\ source_stamps' = [s \in Sources |-> IF s \in ToSet(load.sources) THEN file[s] ELSE None]
      /\ load' = None
      /\ UNCHANGED <<file, stamps, pass, sampled>>
  BY DEF FInv, IInv, ConfigureDone, watchVars
<1>2. IInv'
  BY DoneKeeps DEF FInv
<1>3. \A s \in ToSet(load.sources) : s \in Sources
  BY <1>1, SequenceFacts DEF Reading
<1>4. ASSUME NEW s \in ToSet(sources'), stamps'[s] = None
      PROVE  /\ source_stamps'[s] = loaded'[s] /\ loaded'[s] \in Versions
             /\ pass' # <<>> => s \in ToSet(pass')
             /\ \A v \in Sources : stamps'[v] # None =>
                  pass' # <<>> /\ v \notin ToSet(pass') /\ stamps'[v].stable = 0
  <2>1. s \in Sources /\ s \in ToSet(load.sources)
    BY <1>1, <1>3, <1>4
  <2>2. First(load) \/ s \in ToSet(sources)
    BY <1>1, <2>1 DEF Current
  <2>3. load.changed = None
    BY <1>1, <1>4, <2>2 DEF Current
  <2>4. load.read[s] = file[s] /\ file[s] # None
    <3>1. load.read[s] = file[s]
      BY <1>1, <2>1, <2>3 DEF Current
    <3>2. file[s] \in Samples
      BY <2>1 DEF FInv, IInv, Types
    <3> QED BY <3>1, <3>2, SourceAssumption DEF Samples
  <2>5. loaded'[s] = file[s] /\ loaded'[s] \in Versions /\ source_stamps'[s] = file[s]
    <3>1. s \in LoadedSet(load)
      BY <2>1, <2>4 DEF LoadedSet
    <3> QED BY <1>1, <2>1, <2>4, <3>1 DEF Loadable
  <2>6. CASE First(load)
    BY <1>1, <2>5, <2>6 DEF FInv, IInv, Listed
  <2>7. CASE s \in ToSet(sources)
    BY <1>1, <1>4, <2>5, <2>7 DEF FInv, FirstPass
  <2> QED BY <2>2, <2>6, <2>7
<1>5. IsInjective(sources') /\ IsInjective(pass')
  BY <1>1 DEF Current, FInv, FirstPass
<1> QED BY <1>1, <1>2, <1>4, <1>5 DEF FInv, FirstPass

\* A failing one stamps nothing, and at startup leaves a list without the last.
LEMMA FailsStamps ==
  ASSUME Steady, FInv, ConfigureFails
  PROVE  FInv'
<1>1. /\ load # None /\ Reading(load) /\ Current(load)
      /\ UNCHANGED <<file, sources, source_stamps, loaded, stamps, pass, sampled>>
  BY DEF ConfigureFails, FInv, IInv, runtimeVars, watchVars
<1>2. IInv'
  BY FailsKeeps DEF FInv
<1>3. FirstPass'
  BY <1>1 DEF FInv, FirstPass
<1>4. CASE load.by = "startup" /\ Len(load.sources) > 1
  <2> DEFINE srcs == Front(load.sources)
             l == Configure("fallback", srcs, None)
  <2>1. load' = l
    BY <1>4 DEF ConfigureFails
  <2>2. srcs \in Seq(Sources) /\ IsInjective(srcs)
    <3>1. load.sources \in Seq(Sources) /\ load.sources # <<>> /\ IsInjective(load.sources)
      BY <1>1, <1>4 DEF Reading, Current
    <3> QED BY <3>1, SequenceFacts, InjectiveFacts
  <2> HIDE DEF srcs
  <2>3. ToSet(srcs) \subseteq Sources
    BY <2>2, SequenceFacts
  <2>4. l.by = "fallback" /\ l.sources = srcs /\ l.changed = None /\ l.read = Reads(srcs, None)
    BY DEF Configure
  <2>5. \A s \in ToSet(srcs) : l.read[s] = file[s]
    BY <2>3, <2>4 DEF Reads
  <2> HIDE DEF l
  <2>6. Current(load)'
    BY <1>1, <2>1, <2>2, <2>4, <2>5 DEF Current, First
  <2> QED BY <1>2, <1>3, <2>6 DEF FInv
<1>5. CASE ~(load.by = "startup" /\ Len(load.sources) > 1)
  <2>1. load' = None
    BY <1>5 DEF ConfigureFails
  <2> QED BY <1>2, <1>3, <2>1 DEF FInv
<1> QED BY <1>4, <1>5

\* The first pass looks at every source once.
LEMMA WatchStamps ==
  ASSUME Steady, FInv, WatchSource
  PROVE  FInv'
<1> DEFINE path == Head(pass)
           current == file[path]
           e == Look(path, current)
           l == Configure("watch", sources, path)
<1>1. /\ pass # <<>> /\ load = None /\ pass' = Tail(pass)
      /\ UNCHANGED <<file, sources, source_stamps, loaded>>
  BY DEF WatchSource, Idle, runtimeVars
<1>2. IInv'
  BY WatchKeeps DEF FInv
<1>3. /\ path \in ToSet(pass) /\ path \in Sources /\ path \in ToSet(sources)
      /\ ToSet(pass') \subseteq ToSet(pass)
      /\ ToSet(pass) \subseteq ToSet(pass') \cup {path}
      /\ IsInjective(pass') /\ path \notin ToSet(pass')
  <2>1. pass \in Seq(Sources) /\ ToSet(pass) \subseteq ToSet(sources) /\ IsInjective(pass)
    BY DEF FInv, IInv, Types, Listed, FirstPass
  <2> QED BY <1>1, <2>1, SequenceFacts, InjectiveFacts
<1>4. /\ stamps' = [stamps EXCEPT ![path] = e]
      /\ load' = IF Reloads(path, current) THEN l ELSE None
  BY DEF WatchSource
<1>5. e \in Entry /\ (stamps[path] = None => e.stable = 0)
  <2>1. Types /\ current \in Samples
    BY <1>3 DEF FInv, IInv, Types
  <2> QED BY <1>3, <2>1, LookFacts
<1>6. e # None
  BY <1>5, SourceAssumption DEF Entry, Samples
<1>7. l.by = "watch" /\ l.sources = sources /\ l.changed = path
  BY DEF Configure
<1> HIDE DEF path, e, l
<1>8. \A v \in Sources : stamps'[v] = IF v = path THEN e ELSE stamps[v]
  BY <1>3, <1>4 DEF FInv, IInv, Types
<1>9. \A s \in ToSet(sources) : s \in Sources
  BY SequenceFacts DEF FInv, IInv, Types
<1>10. load' # None => Current(load)'
  <2> SUFFICES ASSUME load' # None PROVE Current(load)'
    OBVIOUS
  <2>1. load' = l /\ stamps[path] # None /\ stamps[path].stable # 0
    <3>1. load' = l /\ Reloads(path, current)
      BY <1>4
    <3>2. stamps[path] # None /\ Quiet(stamps[path], current)
      BY <3>1 DEF Reloads
    <3> QED BY <3>1, <3>2 DEF Quiet
  <2>2. \A s \in ToSet(sources) : stamps[s] # None
    BY <1>3, <2>1 DEF FInv, FirstPass
  <2>3. \A s \in ToSet(sources) : stamps'[s] # None
    BY <1>6, <1>8, <1>9, <2>2
  <2>4. path # None
    BY <1>3, SourceAssumption
  <2>5. IsInjective(sources)
    BY DEF FInv, FirstPass
  <2> QED BY <1>1, <1>7, <2>1, <2>3, <2>4, <2>5 DEF Current, First
<1>11. FirstPass'
  <2>1. ASSUME NEW s \in ToSet(sources), stamps'[s] = None
        PROVE  /\ source_stamps[s] = loaded[s] /\ loaded[s] \in Versions
               /\ s \in ToSet(pass')
               /\ \A v \in Sources : stamps'[v] # None =>
                    pass' # <<>> /\ v \notin ToSet(pass') /\ stamps'[v].stable = 0
    <3>1. s # path /\ stamps[s] = None /\ s \in Sources
      BY <1>6, <1>8, <1>9, <2>1
    <3>2. s \in ToSet(pass')
      BY <1>1, <1>3, <3>1 DEF FInv, FirstPass
    <3>3. pass' # <<>>
      BY <3>2 DEF ToSet
    <3>4. stamps[path] = None
      BY <1>3, <3>1 DEF FInv, FirstPass
    <3>5. ASSUME NEW v \in Sources, stamps'[v] # None
          PROVE  v \notin ToSet(pass') /\ stamps'[v].stable = 0
      <4>1. CASE v = path
        BY <1>3, <1>5, <1>8, <3>4, <4>1
      <4>2. CASE v # path
        BY <1>3, <1>8, <3>1, <3>5, <4>2 DEF FInv, FirstPass
      <4> QED BY <4>1, <4>2
    <3> QED BY <3>1, <3>2, <3>3, <3>5 DEF FInv, FirstPass
  <2>2. IsInjective(sources)
    BY DEF FInv, FirstPass
  <2>3. IsInjective(sources') /\ IsInjective(pass') /\ sources' = sources
        /\ UNCHANGED <<source_stamps, loaded>>
    BY <1>1, <1>3, <2>2
  <2> QED BY <2>1, <2>3 DEF FirstPass
<1> QED BY <1>2, <1>10, <1>11 DEF FInv

LEMMA FirstPassKeeps ==
  ASSUME Steady, FInv, [Next]_vars
  PROVE  FInv'
<1> USE DEF FInv
<1>1. CASE ConfigureDone
  BY <1>1, DoneStamps
<1>2. CASE ConfigureFails
  BY <1>2, FailsStamps
<1>3. CASE WatchSource
  BY <1>3, WatchStamps
<1>4. IInv'
  BY NextKeeps
<1>5. CASE StartPass
  <2>1. /\ load = None /\ load' = None /\ pass = <<>> /\ pass' = sources
        /\ UNCHANGED <<file, sources, source_stamps, loaded, stamps>>
    BY <1>5 DEF StartPass, Idle, runtimeVars
  <2>2. FirstPass'
    BY <2>1 DEF FirstPass
  <2> QED BY <1>4, <2>1, <2>2
<1>6. CASE Reload
  <2>1. /\ load' = Configure("request", sources, None)
        /\ UNCHANGED <<file, sources, source_stamps, loaded, stamps, pass>>
    BY <1>6 DEF Reload, runtimeVars, watchVars
  <2>2. ToSet(sources) \subseteq Sources
    BY SequenceFacts DEF IInv, Types
  <2> DEFINE l == Configure("request", sources, None)
  <2>3. l.sources = sources /\ l.changed = None /\ l.read = Reads(sources, None)
    BY DEF Configure
  <2>4. \A s \in ToSet(sources) : l.read[s] = file[s]
    BY <2>2, <2>3 DEF Reads
  <2> HIDE DEF l
  <2>5. load' = l
    BY <2>1 DEF l
  <2>6. Current(load)'
    BY <2>1, <2>3, <2>4, <2>5 DEF Current, FirstPass
  <2>7. FirstPass'
    BY <2>1 DEF FirstPass
  <2> QED BY <1>4, <2>6, <2>7
<1>7. ASSUME NEW n \in Names, Unmount(n) PROVE FInv'
  <2>1. UNCHANGED <<file, sources, source_stamps, loaded, stamps, pass, load>> /\ load = None
    BY <1>7 DEF Unmount, watchVars, Idle
  <2>2. FirstPass'
    BY <2>1 DEF FirstPass
  <2> QED BY <1>4, <2>1, <2>2
<1>8. ASSUME NEW s \in Sources, NEW v \in Samples, Save(s, v) PROVE FInv'
  <2>1. UNCHANGED <<sources, source_stamps, loaded, stamps, pass, load>> /\ load = None
    BY <1>8 DEF Save, runtimeVars, watchVars, Steady
  <2>2. FirstPass'
    BY <2>1 DEF FirstPass
  <2> QED BY <1>4, <2>1, <2>2
<1>9. CASE StopRequest \/ UNCHANGED vars
  <2>1. UNCHANGED <<file, sources, source_stamps, loaded, stamps, pass, load>>
    BY <1>9 DEF StopRequest, vars, runtimeVars, watchVars
  <2>2. FirstPass' /\ (load' # None => Current(load)')
    BY <2>1 DEF FirstPass, Current
  <2> QED BY <1>4, <2>2
<1>10. \A s \in Sources : ~Mount(s)
  BY DEF Mount, Steady
<1> QED BY <1>1, <1>2, <1>3, <1>5, <1>6, <1>7, <1>8, <1>9, <1>10 DEF Next, Work, Watch, Request

\* An edit made before the watcher's first look is not mistaken for the loaded
\* content: while no source is mounted and no file saved during a configure, the
\* look's baseline is the version that was loaded.
THEOREM FirstLooks == ASSUME Steady PROVE Spec => FirstLookSeesEarlierEdits
<1>1. Init => FInv
  <2> SUFFICES ASSUME Init PROVE FInv
    OBVIOUS
  <2>1. IInv
    BY InitKeeps
  <2>2. FirstPass
    BY DEF Init, FirstPass, ToSet, IsInjective
  <2> DEFINE l == Configure("startup", Startup, None)
  <2>3. load = l /\ ToSet(Startup) \subseteq Sources
    BY SourceAssumption, SequenceFacts DEF Init
  <2>4. l.by = "startup" /\ l.sources = Startup /\ l.changed = None /\ l.read = Reads(Startup, None)
    BY DEF Configure
  <2>5. \A s \in ToSet(Startup) : l.read[s] = file[s]
    BY <2>3, <2>4 DEF Reads
  <2> HIDE DEF l
  <2>6. Current(load)
    BY <2>3, <2>4, <2>5 DEF Current, First, Steady
  <2> QED BY <2>1, <2>2, <2>6 DEF FInv
<1>2. FInv /\ [Next]_vars => FInv'
  BY FirstPassKeeps
<1>3. ASSUME FInv, [Next]_vars, NEW s \in Sources, stamps[s] = None, stamps'[s] # None,
             stamps'[s].loaded # Absent
      PROVE  stamps'[s].loaded = loaded[s]
  <2>1. CASE WatchSource
    <3> DEFINE path == Head(pass)
               current == file[path]
    <3>1. stamps' = [stamps EXCEPT ![path] = Look(path, current)]
      BY <2>1 DEF WatchSource
    <3>2. path \in Sources /\ path \in ToSet(sources)
      <4>1. pass \in Seq(Sources) /\ pass # <<>> /\ ToSet(pass) \subseteq ToSet(sources)
        BY <1>3, <2>1 DEF WatchSource, FInv, IInv, Types, Listed
      <4> QED BY <4>1, SequenceFacts
    <3> HIDE DEF path
    <3>3. s = path /\ stamps'[s] = Look(s, current)
      BY <1>3, <3>1, <3>2 DEF FInv, IInv, Types
    <3>4. stamps'[s] = Baseline(s, current)
      <4>1. Types /\ current \in Samples
        BY <1>3, <3>2 DEF FInv, IInv, Types
      <4> QED BY <1>3, <3>3, <4>1, LookFacts
    <3>5. source_stamps[s] = loaded[s] /\ loaded[s] \in Versions
      BY <1>3, <3>2, <3>3 DEF FInv, FirstPass
    <3> QED BY <3>4, <3>5 DEF Baseline
  <2>2. CASE UNCHANGED stamps
    BY <1>3, <2>2
  <2> QED BY <1>3, <2>1, <2>2 DEF Next, Work, Watch, Request, StartPass, Unmount, Save, StopRequest,
             vars, ConfigureDone, ConfigureFails, Reload, Mount, watchVars
<1>4. FInv /\ [Next]_vars =>
        [\A s \in Sources : stamps[s] = None /\ stamps'[s] # None /\ stamps'[s].loaded # Absent
           => stamps'[s].loaded = loaded[s]]_vars
  BY <1>3
<1> QED BY <1>1, <1>2, <1>4, PTL DEF Spec, FirstLookSeesEarlierEdits
=============================================================================
