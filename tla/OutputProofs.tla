---------------------------- MODULE OutputProofs ----------------------------
(***************************************************************************)
(* Machine-checked proofs about Outputs: what is asked of an output is     *)
(* done, kept for later or held, for any outputs, any sizes, whichever the *)
(* backend refuses, and any declarations of the policy.                    *)
(***************************************************************************)
EXTENDS Outputs, FiniteSetTheorems, WellFoundedInduction, TLAPS

-----------------------------------------------------------------------------
(* The inductive invariant. *)

\* Of an output: what was asked for last is deferred or is the baseline, the
\* host's and the policy's outputs alone are asked for anything, what the policy
\* left alone is as asked for, and the backend has taken what is on.
ScreenOK(s, o) ==
  /\ s \in Screen
  /\ s.asked = IF s.deferred # Unset THEN s.deferred ELSE s.initial
  /\ o \in Monitors => s.deferred = Unset
  /\ s.admitted /\ ~s.configured => s.current = On(s.initial)
  /\ s.current.on => s.admitted /\ s.current.size \notin Refused[o]

Event == [revision : Nat, facts : [Outputs -> Fact \cup {Unset}]]

Native == [screens : [Outputs -> Screen \cup {Unset}], revision : Nat, events : Seq(Event),
           next : Nat, nested : Sizes]

\* The revisions of the events that wait rise.
Ordered(n) ==
  /\ n \in Native
  /\ \A i \in 1..Len(n.events) : n.events[i].revision <= n.revision
  /\ \A i, j \in 1..Len(n.events) : i < j => n.events[i].revision < n.events[j].revision

Base(n) ==
  /\ Ordered(n)
  /\ \A o \in Outputs : n.screens[o] # Unset => ScreenOK(n.screens[o], o)

\* The last event tells how things are.
Told(n) ==
  n.events # <<>> => n.events[Len(n.events)] = [revision |-> n.revision, facts |-> Facts(n)]

NativeInv(n) == Base(n) /\ Told(n)

\* The runtime knows what it has a revision of, and all when no event waits.
KnownInv(n, r) ==
  /\ r.revision \in Nat /\ r.revision <= n.revision
  /\ r.revision = n.revision => r.known = Facts(n)
  /\ n.events = <<>> => r.revision = n.revision
  /\ r = [known |-> r.known, revision |-> r.revision, stale |-> r.stale, recovery |-> r.recovery]
  /\ r.stale \in BOOLEAN

Configs == Sizes \cup {"off", "preferred", Unset}

\* An output that was admitted is as the accepted plan says: what it has no size for
\* is on at the baseline, what it has is not refused, and what it holds is on
\* record with the failure.
Blames(f, o, config, s) ==
  f.name = o /\ f.config = config /\ f.connector = <<s.id, s.request>>

PlanHolds(s, o, a) ==
  s # Unset /\ s.admitted =>
    /\ a.plan[o] \in {"hold", a.config[o]}
    /\ a.plan[o] \in {Unset, "preferred"} => s.current = On(s.initial)
    /\ s.deferred = Unset =>
         LET to == Staged(s, o, a.plan[o]) IN to.on => to.size \notin Refused[o]
    /\ s.deferred = Unset /\ a.plan[o] = "hold" =>
         \E f \in a.failures : Blames(f, o, a.config[o], s)

AcceptedInv(a) ==
  /\ a = [decl |-> a.decl, config |-> a.config, failures |-> a.failures, plan |-> a.plan,
          known |-> a.known]
  /\ a.decl \in Candidates
  /\ a.config \in [Outputs -> Configs] /\ (~Scaled => a.config = a.decl.outputs)
  /\ \A o \in Outputs : a.known[o] # Unset => ~a.known[o].asking /\ ~a.known[o].arriving

Accepts(n, a) == AcceptedInv(a) /\ \A o \in Outputs : PlanHolds(n.screens[o], o, a)

OutputsInv ==
  /\ NativeInv(native)
  /\ KnownInv(native, runtime)
  /\ Accepts(native, accepted)
  /\ accepted.known = runtime.known \/ runtime.stale
  /\ ~Scaled => FailuresAreHeld

-----------------------------------------------------------------------------
(* Events. *)

LEMMA Apart ==
  /\ \A s \in Screen : s # Unset
  /\ \A s \in Fact : s # Unset
  /\ \A s \in Sizes : s # Unset /\ s # "off" /\ s # "preferred" /\ s # "hold"
  /\ Unset # "off" /\ Unset # "preferred" /\ Unset # "hold"
BY OutputsAssumption

LEMMA FactsType ==
  ASSUME NEW n, n.screens \in [Outputs -> Screen \cup {Unset}]
  PROVE  /\ Facts(n) \in [Outputs -> Fact \cup {Unset}]
         /\ \A o \in Outputs : Facts(n)[o] # Unset <=> n.screens[o] # Unset
<1>1. ASSUME NEW o \in Outputs
      PROVE  /\ Facts(n)[o] \in Fact \cup {Unset}
             /\ Facts(n)[o] # Unset <=> n.screens[o] # Unset
  <2>1. CASE n.screens[o] = Unset
    BY <2>1 DEF Facts
  <2>2. CASE n.screens[o] # Unset
    <3> DEFINE s == n.screens[o]
    <3>1. s \in Screen
      BY <2>2
    <3>2. Facts(n)[o] = [id |-> s.id, request |-> s.request, asking |-> s.deferred # Unset,
                         arriving |-> ~s.admitted, is |-> IF s.current.on THEN s.current.size ELSE Unset]
      BY <2>2 DEF Facts
    <3> HIDE DEF s
    <3>3. Facts(n)[o] \in Fact
      BY <3>1, <3>2 DEF Screen, Fact, Mode
    <3> QED BY <2>2, <3>3, Apart
  <2> QED BY <2>1, <2>2
<1>2. Facts(n) = [o \in Outputs |-> Facts(n)[o]]
  BY DEF Facts
<1> QED BY <1>1, <1>2

Posted(n, revision, events) == [n EXCEPT !.revision = revision, !.events = events]

LEMMA WithEvents ==
  ASSUME NEW n \in Native, NEW revision \in Nat, NEW events \in Seq(Event)
  PROVE  LET m == Posted(n, revision, events)
         IN /\ m \in Native /\ m.screens = n.screens /\ m.nested = n.nested /\ m.next = n.next
            /\ m.revision = revision /\ m.events = events
BY DEF Native, Posted

\* The revision that tells of a change.
LEMMA EventIs ==
  ASSUME NEW n, Ordered(n)
  PROVE  LET m == outputs_event(n)
         IN /\ Ordered(m) /\ Told(m) /\ m.screens = n.screens /\ m.nested = n.nested
            /\ m.revision = n.revision + 1 /\ m.events # <<>>
            /\ Base(n) => NativeInv(m)
<1> DEFINE e == [revision |-> n.revision + 1, facts |-> Facts(n)]
           m == [n EXCEPT !.revision = @ + 1, !.events = Append(@, e)]
<1>1. outputs_event(n) = m
  BY DEF outputs_event
<1>2. e \in Event /\ e.revision = n.revision + 1 /\ e.facts = Facts(n)
  BY FactsType DEF Ordered, Native, Event
<1> HIDE DEF e
<1>0. n \in Native
  BY DEF Ordered
<1>3. /\ m \in Native
      /\ m.screens = n.screens /\ m.nested = n.nested /\ m.revision = n.revision + 1
      /\ m.events = Append(n.events, e) /\ n.events \in Seq(Event) /\ n.revision \in Nat
  <2>1. n.events \in Seq(Event) /\ n.revision \in Nat /\ Append(n.events, e) \in Seq(Event)
    BY <1>0, <1>2 DEF Native
  <2> DEFINE revision == n.revision + 1
             events == Append(n.events, e)
  <2>2. m = Posted(n, revision, events)
    BY DEF Posted
  <2>3. revision \in Nat /\ events \in Seq(Event)
    BY <2>1
  <2>4. revision = n.revision + 1 /\ events = Append(n.events, e)
    OBVIOUS
  <2> HIDE DEF m, revision, events
  <2>5. /\ m \in Native /\ m.screens = n.screens /\ m.nested = n.nested
        /\ m.revision = revision /\ m.events = events
    BY <1>0, <2>2, <2>3, WithEvents
  <2> QED BY <2>1, <2>4, <2>5
<1> HIDE DEF m
<1>4. /\ Len(m.events) = Len(n.events) + 1 /\ Len(n.events) \in Nat
      /\ m.events[Len(m.events)] = e
      /\ \A i \in 1..Len(n.events) : m.events[i] = n.events[i] /\ n.events[i] \in Event
      /\ m.events # <<>>
  BY <1>2, <1>3
<1>5. Facts(m) = Facts(n)
  BY <1>3 DEF Facts
<1>6. Told(m)
  BY <1>2, <1>3, <1>4, <1>5 DEF Told, Event, e
<1>7. \A i \in 1..Len(m.events) : m.events[i].revision <= m.revision
  BY <1>2, <1>3, <1>4 DEF Ordered, Event
<1>8. ASSUME NEW i \in 1..Len(m.events), NEW j \in 1..Len(m.events), i < j
      PROVE  m.events[i].revision < m.events[j].revision
  <2>1. i \in 1..Len(n.events) /\ m.events[i] = n.events[i] /\ n.events[i].revision \in Nat
    BY <1>4, <1>8 DEF Event
  <2>2. n.events[i].revision <= n.revision
    BY <2>1 DEF Ordered
  <2>3. CASE j = Len(m.events)
    BY <1>2, <1>3, <1>4, <2>1, <2>2, <2>3
  <2>4. CASE j # Len(m.events)
    <3>1. j \in 1..Len(n.events) /\ m.events[j] = n.events[j]
      BY <1>4, <2>4
    <3> QED BY <1>8, <2>1, <3>1 DEF Ordered
  <2> QED BY <2>3, <2>4
<1>9. Ordered(m)
  BY <1>3, <1>7, <1>8 DEF Ordered
<1> QED BY <1>1, <1>3, <1>4, <1>6, <1>9 DEF NativeInv, Base

-----------------------------------------------------------------------------
(* What is asked from outside. *)

Screened(n, screens, next, nested) ==
  [n EXCEPT !.screens = screens, !.next = next, !.nested = nested]

LEMMA WithScreens ==
  ASSUME NEW n \in Native, NEW screens \in [Outputs -> Screen \cup {Unset}], NEW next \in Nat,
         NEW nested \in Sizes
  PROVE  LET m == Screened(n, screens, next, nested)
         IN /\ m \in Native /\ m.screens = screens /\ m.next = next /\ m.nested = nested
            /\ m.revision = n.revision /\ m.events = n.events
BY DEF Native, Screened

LEMMA OrderedScreened ==
  ASSUME NEW n, Ordered(n), NEW screens \in [Outputs -> Screen \cup {Unset}], NEW next \in Nat,
         NEW nested \in Sizes
  PROVE  LET m == Screened(n, screens, next, nested)
         IN /\ Ordered(m) /\ m.screens = screens /\ m.nested = nested /\ m.next = next
            /\ m.revision = n.revision /\ m.events = n.events
            /\ (\A o \in Outputs : screens[o] # Unset => ScreenOK(screens[o], o)) => Base(m)
<1> DEFINE m == Screened(n, screens, next, nested)
<1>1. n \in Native
  BY DEF Ordered
<1>2. /\ m \in Native /\ m.screens = screens /\ m.next = next /\ m.nested = nested
      /\ m.revision = n.revision /\ m.events = n.events
  BY <1>1, WithScreens
<1> HIDE DEF m
<1>3. Ordered(m)
  BY <1>2 DEF Ordered
<1> QED BY <1>2, <1>3 DEF m, Base

\* p is the output s, or that with a request, or one that is yet to be admitted.
Later(p, s) ==
  p # Unset /\ p.admitted =>
    /\ s # Unset /\ s.admitted
    /\ p.current = s.current /\ p.initial = s.initial /\ p.id = s.id
    /\ p.deferred # Unset \/ p = s

\* m is n, or what has come of it and is told.
Grows(m, n) ==
  /\ m = n \/ (m.revision > n.revision /\ m.events # <<>>)
  /\ \A o \in Outputs : Later(m.screens[o], n.screens[o])

LEMMA GrowsAgain ==
  ASSUME NEW n, NEW m, NEW k, Base(n), Base(m), Base(k), Grows(m, n), Grows(k, m)
  PROVE  Grows(k, n)
<1>1. n.revision \in Nat /\ m.revision \in Nat /\ k.revision \in Nat
  BY DEF Base, Ordered, Native
<1>2. k = n \/ (k.revision > n.revision /\ k.events # <<>>)
  BY <1>1 DEF Grows
<1>3. \A o \in Outputs : Later(k.screens[o], n.screens[o])
  BY DEF Grows, Later
<1> QED BY <1>2, <1>3 DEF Grows

Requested(s, size) == [s EXCEPT !.deferred = size, !.request = @ + 1, !.asked = size]

LEMMA RequestedType ==
  ASSUME NEW s \in Screen, NEW size \in Sizes
  PROVE  LET p == Requested(s, size)
         IN /\ p \in Screen /\ p # Unset
            /\ p.id = s.id /\ p.admitted = s.admitted /\ p.configured = s.configured
            /\ p.current = s.current /\ p.initial = s.initial
            /\ p.deferred = size /\ p.request = s.request + 1 /\ p.asked = size
<1> DEFINE p == Requested(s, size)
           request == s.request + 1
<1>1. request \in Nat
  BY DEF Screen
<1>2. p = [s EXCEPT !.deferred = size, !.request = request, !.asked = size]
  BY DEF Requested
<1>3. request = s.request + 1
  OBVIOUS
<1> HIDE DEF p, request
<1>4. /\ p \in Screen
      /\ p.id = s.id /\ p.admitted = s.admitted /\ p.configured = s.configured
      /\ p.current = s.current /\ p.initial = s.initial
      /\ p.deferred = size /\ p.request = s.request + 1 /\ p.asked = size
  BY <1>1, <1>2, <1>3 DEF Screen
<1> QED BY <1>4, Apart DEF p

LEMMA RequestedIs ==
  ASSUME NEW o, o \notin Monitors, NEW s, ScreenOK(s, o), NEW size \in Sizes
  PROVE  LET p == Requested(s, size) IN ScreenOK(p, o) /\ Later(p, s)
<1> DEFINE p == Requested(s, size)
<1>1. s \in Screen /\ s # Unset /\ size # Unset
  BY Apart DEF ScreenOK
<1>2. /\ p \in Screen /\ p # Unset
      /\ p.id = s.id /\ p.admitted = s.admitted /\ p.configured = s.configured
      /\ p.current = s.current /\ p.initial = s.initial
      /\ p.deferred = size /\ p.request = s.request + 1 /\ p.asked = size
  BY <1>1, RequestedType
<1> HIDE DEF p
<1>3. ScreenOK(p, o)
  BY <1>1, <1>2 DEF ScreenOK
<1>4. Later(p, s)
  BY <1>1, <1>2 DEF Later
<1> QED BY <1>3, <1>4 DEF p

LEMMA AddedIs ==
  ASSUME NEW o \in Outputs, NEW id \in Nat, NEW size \in Sizes
  PROVE  LET p == Added(id, size)
         IN ScreenOK(p, o) /\ p # Unset /\ ~p.admitted /\ p.deferred = Unset
<1> DEFINE p == Added(id, size)
<1>1. /\ p \in Screen /\ p.current.on = FALSE /\ p.admitted = FALSE
      /\ p.deferred = Unset /\ p.initial = size /\ p.asked = size
  BY DEF Added, Off, Screen, Mode
<1> HIDE DEF p
<1>2. ScreenOK(p, o)
  BY <1>1 DEF ScreenOK
<1> QED BY <1>1, <1>2, Apart DEF p

\* A change of some outputs is told.
LEMMA TellStep ==
  ASSUME NEW n, Ordered(n), NEW screens \in [Outputs -> Screen \cup {Unset}], NEW next \in Nat,
         NEW nested \in Sizes
  PROVE  LET m == outputs_event(Screened(n, screens, next, nested))
         IN /\ Ordered(m) /\ Told(m) /\ m.screens = screens /\ m.nested = nested
            /\ m.events # <<>> /\ m.revision > n.revision
            /\ (\A o \in Outputs : screens[o] # Unset => ScreenOK(screens[o], o)) => NativeInv(m)
            /\ (\A o \in Outputs : Later(screens[o], n.screens[o])) => Grows(m, n)
<1> DEFINE k == Screened(n, screens, next, nested)
           m == outputs_event(k)
<1>1. /\ Ordered(k) /\ k.screens = screens /\ k.nested = nested /\ k.revision = n.revision
      /\ (\A o \in Outputs : screens[o] # Unset => ScreenOK(screens[o], o)) => Base(k)
  BY OrderedScreened
<1> HIDE DEF k
<1>2. /\ Ordered(m) /\ Told(m) /\ m.screens = screens /\ m.nested = nested
      /\ m.revision = n.revision + 1 /\ m.events # <<>>
      /\ Base(k) => NativeInv(m)
  BY <1>1, EventIs
<1> HIDE DEF m
<1>3. n.revision \in Nat
  BY DEF Ordered, Native
<1>4. (\A o \in Outputs : Later(screens[o], n.screens[o])) => Grows(m, n)
  BY <1>2, <1>3 DEF Grows
<1> QED BY <1>1, <1>2, <1>3, <1>4 DEF m, k

LEMMA RequestStep ==
  ASSUME NEW n, Base(n), NEW o \in Connected(n), o \notin Monitors, NEW size \in Sizes
  PROVE  LET m == output_request(n, o, size)
         IN NativeInv(m) /\ Grows(m, n) /\ m.events # <<>>
<1> DEFINE screens == [n.screens EXCEPT ![o] = Requested(n.screens[o], size)]
<1>0. /\ Ordered(n) /\ n \in Native /\ o \in Outputs /\ n.screens[o] # Unset
      /\ n.next \in Nat /\ n.nested \in Sizes
  BY DEF Base, Ordered, Connected, Native
<1>1. store_output_request(n, o, size) = Screened(n, screens, n.next, n.nested)
  BY <1>0 DEF store_output_request, Screened, Requested, Native
<1>2. ScreenOK(n.screens[o], o) /\ n.screens \in [Outputs -> Screen \cup {Unset}]
  BY <1>0 DEF Base, Ordered, Native
<1>3. ScreenOK(Requested(n.screens[o], size), o) /\ Later(Requested(n.screens[o], size), n.screens[o])
  BY <1>2, RequestedIs
<1>4. /\ screens \in [Outputs -> Screen \cup {Unset}]
      /\ \A x \in Outputs : screens[x] # Unset => ScreenOK(screens[x], x)
      /\ \A x \in Outputs : Later(screens[x], n.screens[x])
  BY <1>0, <1>2, <1>3 DEF Base, Ordered, ScreenOK, Later
<1> HIDE DEF screens
<1> QED BY <1>0, <1>1, <1>4, TellStep DEF output_request

LEMMA AddStep ==
  ASSUME NEW n, Base(n), NEW o \in Outputs \ Connected(n), NEW size \in Sizes
  PROVE  LET m == output_added(n, o, size)
         IN NativeInv(m) /\ Grows(m, n) /\ m.events # <<>>
<1> DEFINE screens == [n.screens EXCEPT ![o] = Added(n.next, size)]
           next == n.next + 1
<1>0. /\ Ordered(n) /\ n \in Native /\ o \in Outputs /\ n.next \in Nat /\ n.nested \in Sizes
      /\ n.screens \in [Outputs -> Screen \cup {Unset}]
  BY DEF Base, Ordered, Native
<1>1. output_added(n, o, size) = outputs_event(Screened(n, screens, next, n.nested))
  BY <1>0 DEF output_added, Screened, Native
<1>2. ScreenOK(Added(n.next, size), o) /\ Later(Added(n.next, size), n.screens[o])
  BY <1>0, AddedIs DEF Later
<1>3. /\ screens \in [Outputs -> Screen \cup {Unset}]
      /\ \A x \in Outputs : screens[x] # Unset => ScreenOK(screens[x], x)
      /\ \A x \in Outputs : Later(screens[x], n.screens[x])
  BY <1>0, <1>2 DEF Base, Ordered, ScreenOK, Later
<1>4. next \in Nat
  BY <1>0
<1> HIDE DEF screens, next
<1> QED BY <1>0, <1>1, <1>3, <1>4, TellStep

LEMMA DestroyStep ==
  ASSUME NEW n, Base(n), NEW o \in Outputs
  PROVE  LET m == output_destroy(n, o)
         IN NativeInv(m) /\ Grows(m, n) /\ m.events # <<>>
<1> DEFINE screens == [n.screens EXCEPT ![o] = Unset]
<1>0. /\ Ordered(n) /\ n \in Native /\ n.next \in Nat /\ n.nested \in Sizes
      /\ n.screens \in [Outputs -> Screen \cup {Unset}]
  BY DEF Base, Ordered, Native
<1>1. output_destroy(n, o) = outputs_event(Screened(n, screens, n.next, n.nested))
  BY <1>0 DEF output_destroy, Screened, Native
<1>2. /\ screens \in [Outputs -> Screen \cup {Unset}]
      /\ \A x \in Outputs : screens[x] # Unset => ScreenOK(screens[x], x)
      /\ \A x \in Outputs : Later(screens[x], n.screens[x])
  BY <1>0 DEF Base, Ordered, Later
<1> HIDE DEF screens
<1> QED BY <1>0, <1>1, <1>2, TellStep

\* A new size of the nested window is asked of each output of the host.
Wished(n, size) ==
  [o \in Outputs |-> IF o \in Host \cap Connected(n) THEN Requested(n.screens[o], size)
                     ELSE n.screens[o]]

LEMMA WishedIs ==
  ASSUME NEW n, Ordered(n), NEW size, size # n.nested
  PROVE  outputs_request_nested_size(n, size)
           = outputs_event(Screened(n, Wished(n, size), n.next, size))
<1>0. n \in Native
  BY DEF Ordered
<1>1. \A o \in Outputs : store_output_request(n, o, size).screens[o] = Requested(n.screens[o], size)
  BY <1>0 DEF store_output_request, Requested, Native
<1>2. [n EXCEPT !.nested = size,
                !.screens = [o \in Outputs |-> IF o \in Host \cap Connected(n)
                               THEN store_output_request(n, o, size).screens[o] ELSE @[o]]]
        = [n EXCEPT !.nested = size, !.screens = Wished(n, size)]
  BY <1>1 DEF Wished
<1>3. [n EXCEPT !.nested = size, !.screens = Wished(n, size)] = Screened(n, Wished(n, size), n.next, size)
  BY <1>0 DEF Screened, Native
<1> QED BY <1>2, <1>3 DEF outputs_request_nested_size

LEMMA NestedStep ==
  ASSUME NEW n, Ordered(n), NEW size \in Sizes
  PROVE  LET m == outputs_request_nested_size(n, size)
         IN /\ Ordered(m) /\ m.revision >= n.revision
            /\ m = n \/ (m.events # <<>> /\ m.revision > n.revision)
            /\ \A o \in Outputs : \/ m.screens[o] = n.screens[o]
                                  \/ /\ o \in Host /\ n.screens[o] # Unset
                                     /\ m.screens[o] = Requested(n.screens[o], size)
            /\ NativeInv(n) => NativeInv(m) /\ Grows(m, n)
<1>0. /\ n \in Native /\ n.next \in Nat /\ n.revision \in Nat
      /\ n.screens \in [Outputs -> Screen \cup {Unset}]
  BY DEF Ordered, Native
<1>1. CASE size = n.nested
  BY <1>0, <1>1 DEF outputs_request_nested_size, Grows, Later
<1>2. CASE size # n.nested
  <2> DEFINE screens == Wished(n, size)
             m == outputs_event(Screened(n, screens, n.next, size))
  <2>1. outputs_request_nested_size(n, size) = m
    BY <1>2, WishedIs
  <2>2. ASSUME NEW o \in Outputs
        PROVE  /\ screens[o] \in Screen \cup {Unset}
               /\ \/ screens[o] = n.screens[o]
                  \/ o \in Host /\ n.screens[o] # Unset /\ screens[o] = Requested(n.screens[o], size)
               /\ NativeInv(n) /\ screens[o] # Unset => ScreenOK(screens[o], o)
               /\ NativeInv(n) => Later(screens[o], n.screens[o])
    <3>1. CASE o \in Host \cap Connected(n)
      <4>0. o \notin Monitors /\ n.screens[o] \in Screen /\ n.screens[o] # Unset
        BY <1>0, <3>1, OutputsAssumption DEF Connected
      <4>1. screens[o] = Requested(n.screens[o], size)
        BY <3>1 DEF Wished
      <4>2. Requested(n.screens[o], size) \in Screen
        BY <4>0, RequestedType
      <4>3. NativeInv(n) => ScreenOK(n.screens[o], o)
        BY <4>0 DEF NativeInv, Base
      <4>4. NativeInv(n) => /\ ScreenOK(Requested(n.screens[o], size), o)
                            /\ Later(Requested(n.screens[o], size), n.screens[o])
        BY <4>0, <4>3, RequestedIs
      <4> QED BY <3>1, <4>0, <4>1, <4>2, <4>4
    <3>2. CASE o \notin Host \cap Connected(n)
      <4>1. screens[o] = n.screens[o]
        BY <3>2 DEF Wished
      <4> QED BY <1>0, <4>1 DEF NativeInv, Base, Later
    <3> QED BY <3>1, <3>2
  <2>3. screens \in [Outputs -> Screen \cup {Unset}]
    BY <2>2 DEF Wished
  <2> HIDE DEF screens
  <2>4. /\ Ordered(m) /\ m.screens = screens /\ m.events # <<>> /\ m.revision > n.revision
        /\ NativeInv(n) => NativeInv(m) /\ Grows(m, n)
    BY <1>0, <2>2, <2>3, TellStep
  <2>5. m.revision \in Nat
    BY <2>4 DEF Ordered, Native
  <2> HIDE DEF m
  <2> QED BY <1>0, <2>1, <2>2, <2>4, <2>5
<1> QED BY <1>1, <1>2

\* Where the policy declares an output, or declares it no longer.
LEMMA VirtualStep ==
  ASSUME NEW n, Base(n), NEW o \in Virtual, NEW size \in Sizes \cup {Unset}
  PROVE  LET m == tomoe_virtual_output(n, o, size)
         IN m = n \/ (NativeInv(m) /\ Grows(m, n) /\ m.events # <<>>)
<1>0. o \in Outputs /\ o \notin Monitors
  BY OutputsAssumption DEF Outputs
<1>1. CASE size = Unset /\ o \in Connected(n)
  BY <1>0, <1>1, DestroyStep DEF tomoe_virtual_output
<1>2. CASE size # Unset /\ o \in Connected(n)
  BY <1>0, <1>2, RequestStep DEF tomoe_virtual_output
<1>3. CASE size # Unset /\ o \notin Connected(n)
  BY <1>0, <1>3, AddStep DEF tomoe_virtual_output
<1>4. CASE size = Unset /\ o \notin Connected(n)
  BY <1>4 DEF tomoe_virtual_output
<1> QED BY <1>1, <1>2, <1>3, <1>4

\* Induction: a set of numbers has a least.
LEMMA Smallest ==
  ASSUME NEW T \in SUBSET Nat, T # {}
  PROVE  \E x \in T : \A y \in T : ~(y < x)
<1> DEFINE R == {ss \in Nat \X Nat : ss[1] < ss[2]}
<1>1. IsWellFoundedOn(R, Nat)
  BY NatLessThanWellFounded DEF OpToRel
<1>2. \A x, y \in Nat : y < x => <<y, x>> \in R
  OBVIOUS
<1> HIDE DEF R
<1>3. T \subseteq Nat
  OBVIOUS
<1>4. \E x \in T : \A y \in T : ~(<<y, x>> \in R)
  BY <1>1, <1>3, WFMin
<1> QED BY <1>2, <1>3, <1>4

LEMMA Listed ==
  ASSUME NEW S, IsFiniteSet(S)
  PROVE  SetToSeq(S) \in Seq(S)
<1>1. Cardinality(S) \in Nat /\ ExistsBijection(1..Cardinality(S), S)
  BY FS_CardinalityType
<1>2. PICK f \in [1..Cardinality(S) -> S] : IsInjective(f)
  BY <1>1 DEF ExistsBijection, Bijection, Injection
<1>3. SetToSeq(S) \in [1..Cardinality(S) -> S]
  BY <1>2 DEF SetToSeq
<1> QED BY <1>1, <1>3

\* The state after each call, as the code's loops make it.
Called(n, calls, new, After, k) ==
  After = [i \in 0..k |-> IF i = 0 THEN n ELSE tomoe_virtual_output(After[i - 1], calls[i], new[calls[i]])]

LEMMA CallsEnd ==
  ASSUME NEW n, NEW calls, NEW new, NEW k \in Nat
  PROVE  \E After : Called(n, calls, new, After, k)
<1> DEFINE Ends(i) == \E After : Called(n, calls, new, After, i)
           T == {i \in Nat : ~Ends(i)}
<1>1. Ends(0)
  <2> DEFINE f == [i \in 0..0 |-> n]
  <2>1. f = [i \in 0..0 |-> IF i = 0 THEN n ELSE tomoe_virtual_output(f[i - 1], calls[i], new[calls[i]])]
    OBVIOUS
  <2> QED BY <2>1 DEF Called
<1>2. ASSUME NEW i \in Nat, Ends(i) PROVE Ends(i + 1)
  <2>1. PICK f : Called(n, calls, new, f, i)
    BY <1>2
  <2> DEFINE h == [x \in 0..(i + 1) |-> IF x = 0 THEN n
                                        ELSE tomoe_virtual_output(f[x - 1], calls[x], new[calls[x]])]
  <2>2. \A x \in 0..i : h[x] = f[x]
    BY <2>1 DEF Called
  <2>3. \A x \in 0..(i + 1) : x # 0 => h[x - 1] = f[x - 1]
    <3>1. \A x \in 0..(i + 1) : x # 0 => x - 1 \in 0..i
      OBVIOUS
    <3> HIDE DEF h
    <3> QED BY <2>2, <3>1
  <2>4. h = [x \in 0..(i + 1) |-> IF x = 0 THEN n
                                  ELSE tomoe_virtual_output(h[x - 1], calls[x], new[calls[x]])]
    BY <2>3
  <2> QED BY <2>4 DEF Called
<1> HIDE DEF Ends
<1>3. T = {}
  <2> SUFFICES ASSUME T # {} PROVE FALSE
    OBVIOUS
  <2>1. PICK i \in T : \A y \in T : ~(y < i)
    BY Smallest
  <2>2. i # 0 /\ i \in Nat
    BY <1>1
  <2>3. i - 1 \in Nat /\ i - 1 < i /\ (i - 1) + 1 = i
    BY <2>2
  <2>4. Ends(i - 1)
    BY <2>1, <2>3
  <2>5. Ends((i - 1) + 1)
    BY <1>2, <2>3, <2>4
  <2> QED BY <2>3, <2>5
<1> QED BY <1>3 DEF Ends

LEMMA VirtualSteps ==
  ASSUME NEW n, NativeInv(n), NEW old \in [Virtual -> Sizes \cup {Unset}],
         NEW new \in [Virtual -> Sizes \cup {Unset}]
  PROVE  LET m == configure_virtual_outputs(n, old, new) IN NativeInv(m) /\ Grows(m, n)
<1> DEFINE gone   == {o \in Virtual : old[o] # Unset /\ new[o] = Unset}
           stated == {o \in Virtual : old[o] # new[o]} \ gone
           calls  == SetToSeq(gone) \o SetToSeq(stated)
           After  == CHOOSE f : Called(n, calls, new, f, Len(calls))
<1>1. calls \in Seq(Virtual)
  <2>1. IsFiniteSet(gone) /\ IsFiniteSet(stated)
    BY FS_Subset, OutputsAssumption
  <2>2. SetToSeq(gone) \in Seq(gone) /\ SetToSeq(stated) \in Seq(stated)
    BY <2>1, Listed
  <2>3. gone \subseteq Virtual /\ stated \subseteq Virtual
    OBVIOUS
  <2> HIDE DEF gone, stated
  <2>4. SetToSeq(gone) \in Seq(Virtual) /\ SetToSeq(stated) \in Seq(Virtual)
    BY <2>2, <2>3
  <2> QED BY <2>4
<1>2. configure_virtual_outputs(n, old, new) = After[Len(calls)]
  BY DEF configure_virtual_outputs, Called
<1> HIDE DEF calls
<1>3. Len(calls) \in Nat /\ \A i \in 1..Len(calls) : calls[i] \in Virtual
  BY <1>1
<1>4. Called(n, calls, new, After, Len(calls))
  BY <1>3, CallsEnd
<1> HIDE DEF After
<1>5. /\ After[0] = n
      /\ \A i \in 1..Len(calls) : After[i] = tomoe_virtual_output(After[i - 1], calls[i], new[calls[i]])
  BY <1>3, <1>4 DEF Called
<1> DEFINE Good(m) == NativeInv(m) /\ Grows(m, n)
           T == {i \in 0..Len(calls) : ~Good(After[i])}
<1>6. Good(n)
  BY DEF Grows, Later
<1>7. ASSUME NEW i \in 1..Len(calls), Good(After[i - 1]) PROVE Good(After[i])
  <2> DEFINE m == After[i - 1]
  <2>1. calls[i] \in Virtual /\ new[calls[i]] \in Sizes \cup {Unset}
    BY <1>3
  <2>2. NativeInv(m) /\ Grows(m, n) /\ Base(m) /\ Base(n)
    BY <1>7 DEF NativeInv
  <2>3. After[i] = tomoe_virtual_output(m, calls[i], new[calls[i]])
    BY <1>5
  <2> HIDE DEF m
  <2>4. After[i] = m \/ (NativeInv(After[i]) /\ Grows(After[i], m))
    BY <2>1, <2>2, <2>3, VirtualStep
  <2>5. CASE After[i] = m
    BY <2>2, <2>5
  <2>6. CASE NativeInv(After[i]) /\ Grows(After[i], m)
    BY <2>2, <2>6, GrowsAgain DEF NativeInv
  <2> QED BY <2>4, <2>5, <2>6
<1> HIDE DEF Good
<1>8. T = {}
  <2> SUFFICES ASSUME T # {} PROVE FALSE
    OBVIOUS
  <2>0. T \in SUBSET Nat
    BY <1>3
  <2>1. PICK i \in T : \A y \in T : ~(y < i)
    <3> HIDE DEF T
    <3> QED BY <2>0, Smallest
  <2>2. i # 0 /\ i \in 0..Len(calls) /\ ~Good(After[i])
    BY <1>5, <1>6
  <2>3. i \in 1..Len(calls) /\ i - 1 \in 0..Len(calls) /\ i - 1 < i
    BY <1>3, <2>2
  <2>4. Good(After[i - 1])
    BY <2>1, <2>3
  <2> QED BY <1>7, <2>2, <2>3, <2>4
<1>9. Good(After[Len(calls)])
  BY <1>3, <1>8
<1> QED BY <1>2, <1>9 DEF Good

-----------------------------------------------------------------------------
(* What becomes of an output when a plan is applied. *)

Plans == Configs \cup {"hold"}

LEMMA StagedIs ==
  ASSUME NEW o \in Outputs, NEW s, ScreenOK(s, o), NEW config \in Plans
  PROVE  LET to == Staged(s, o, config)
         IN /\ to \in Mode
            /\ config \in {Unset, "preferred"} => to = On(s.asked)
            /\ config = "hold" => to = IF s.admitted THEN s.current ELSE Off(s.initial)
            /\ config = "off" => ~to.on
            /\ config \in Sizes => to = On(config)
<1>1. s \in Screen /\ s.asked \in Sizes /\ s.initial \in Sizes /\ s.current \in Mode
  BY DEF ScreenOK, Screen
<1>2. \A size \in Sizes : On(size) \in Mode /\ Off(size) \in Mode /\ On(size).size = size
  BY DEF On, Off, Mode
<1> DEFINE begun == IF s.deferred # Unset THEN On(s.deferred)
                    ELSE IF s.admitted /\ ~s.configured THEN s.current ELSE On(s.initial)
<1>3. begun = On(s.asked)
  BY DEF ScreenOK
<1>4. Staged(s, o, config)
        = CASE config = "hold" -> IF s.admitted THEN s.current ELSE Off(s.initial)
            [] config = "off" -> Off(begun.size)
            [] config = "preferred" -> On(IF o \in Monitors THEN s.initial ELSE begun.size)
            [] config \in Sizes -> On(config)
            [] OTHER -> begun
  BY DEF Staged
<1>10. begun.size = s.asked
  BY <1>1, <1>2, <1>3
<1> HIDE DEF begun
<1>5. CASE config = "hold"
  BY <1>1, <1>2, <1>4, <1>5, Apart
<1>6. CASE config = "off"
  <2>1. Staged(s, o, config) = Off(begun.size) /\ begun.size \in Sizes
    BY <1>1, <1>10, <1>4, <1>6, Apart
  <2>2. ~Off(begun.size).on
    BY DEF Off
  <2> QED BY <1>2, <1>6, <2>1, <2>2, Apart
<1>7. CASE config = "preferred"
  <2>1. Staged(s, o, config) = On(IF o \in Monitors THEN s.initial ELSE s.asked)
    BY <1>10, <1>4, <1>7, Apart
  <2>2. o \in Monitors => s.initial = s.asked
    BY DEF ScreenOK
  <2>3. Staged(s, o, config) = On(s.asked)
    BY <2>1, <2>2
  <2> QED BY <1>1, <1>2, <1>7, <2>3, Apart
<1>8. CASE config \in Sizes
  <2>1. config # "hold" /\ config # "off" /\ config # "preferred" /\ config # Unset
    BY <1>8, Apart
  <2>2. Staged(s, o, config) = On(config)
    BY <1>4, <1>8, <2>1
  <2> QED BY <1>2, <1>8, <2>1, <2>2
<1>9. CASE config = Unset
  <2>1. config # "hold" /\ config # "off" /\ config # "preferred" /\ config \notin Sizes
    BY <1>9, Apart
  <2>2. Staged(s, o, config) = On(s.asked)
    BY <1>3, <1>4, <2>1
  <2> QED BY <1>1, <1>2, <1>9, <2>1, <2>2
<1> QED BY <1>5, <1>6, <1>7, <1>8, <1>9 DEF Plans, Configs

\* Committed: what is off keeps its mode.
Taken(s, to, configured) ==
  [s EXCEPT !.admitted = TRUE, !.configured = configured,
            !.current = IF to.on THEN to ELSE [@ EXCEPT !.on = FALSE]]

LEMMA TakenIs ==
  ASSUME NEW s \in Screen, NEW to \in Mode, NEW configured \in BOOLEAN
  PROVE  LET p == Taken(s, to, configured)
         IN /\ p \in Screen /\ p.id = s.id /\ p.admitted /\ p.configured = configured
            /\ p.current = (IF to.on THEN to ELSE Off(s.current.size))
            /\ p.initial = s.initial /\ p.deferred = s.deferred /\ p.request = s.request
            /\ p.asked = s.asked
<1> DEFINE mode == IF to.on THEN to ELSE [s.current EXCEPT !.on = FALSE]
<1>1. s.current \in Mode
  BY DEF Screen
<1>2. mode \in Mode /\ mode = IF to.on THEN to ELSE Off(s.current.size)
  <2>1. s.current = [on |-> s.current.on, size |-> s.current.size] /\ s.current.size \in Sizes
    BY <1>1 DEF Mode
  <2>2. [s.current EXCEPT !.on = FALSE] = [on |-> FALSE, size |-> s.current.size]
    <3> DEFINE m == [s.current EXCEPT !.on = FALSE]
    <3>1. m \in Mode /\ m.on = FALSE /\ m.size = s.current.size
      BY <1>1 DEF Mode
    <3> HIDE DEF m
    <3>2. m = [on |-> m.on, size |-> m.size]
      BY <3>1 DEF Mode
    <3> QED BY <3>1, <3>2 DEF m
  <2>3. Off(s.current.size) \in Mode
    <3> DEFINE size == s.current.size
    <3>1. size \in Sizes
      BY <2>1
    <3> HIDE DEF size
    <3>2. [on |-> FALSE, size |-> size] \in Mode
      BY <3>1 DEF Mode
    <3> QED BY <3>2 DEF Off, size
  <2>4. [s.current EXCEPT !.on = FALSE] = Off(s.current.size)
    BY <2>2 DEF Off
  <2> QED BY <2>3, <2>4
<1>3. Taken(s, to, configured) = [s EXCEPT !.admitted = TRUE, !.configured = configured, !.current = mode]
  BY DEF Taken, Screen
<1> HIDE DEF mode
<1> QED BY <1>2, <1>3 DEF Screen

\* Settle, of an output that was s before and is p when the presentation is published.
Settled(p, s, config) ==
  IF s.deferred = Unset THEN p
  ELSE LET promoted == [p EXCEPT !.initial = IF config = "hold" THEN @ ELSE s.deferred]
       IN IF p.request # s.request THEN promoted
          ELSE [promoted EXCEPT !.deferred = Unset, !.asked = IF config = "hold" THEN p.initial ELSE @]

LEMMA SettledIs ==
  ASSUME NEW p \in Screen, NEW s \in Screen, NEW config
  PROVE  LET r == Settled(p, s, config)
         IN /\ r \in Screen /\ r.id = p.id /\ r.admitted = p.admitted
            /\ r.configured = p.configured /\ r.current = p.current /\ r.request = p.request
            /\ r.initial = IF s.deferred = Unset \/ config = "hold" THEN p.initial ELSE s.deferred
            /\ r.deferred = IF s.deferred # Unset /\ p.request = s.request THEN Unset ELSE p.deferred
            /\ r.asked = IF s.deferred # Unset /\ p.request = s.request /\ config = "hold"
                         THEN p.initial ELSE p.asked
<1>1. CASE s.deferred = Unset
  BY <1>1 DEF Settled
<1>2. CASE s.deferred # Unset
  <2> DEFINE initial == IF config = "hold" THEN p.initial ELSE s.deferred
             asked == IF config = "hold" THEN p.initial ELSE p.asked
             promoted == [p EXCEPT !.initial = initial]
  <2>1. initial \in Sizes /\ asked \in Sizes
    BY <1>2 DEF Screen
  <2>2. initial = (IF config = "hold" THEN p.initial ELSE s.deferred)
        /\ asked = (IF config = "hold" THEN p.initial ELSE p.asked)
    OBVIOUS
  <2>3. Settled(p, s, config) = IF p.request # s.request THEN promoted
                                ELSE [promoted EXCEPT !.deferred = Unset, !.asked = asked]
    BY <1>2 DEF Settled, Screen
  <2> HIDE DEF initial, asked
  <2>4. CASE p.request # s.request
    <3> DEFINE r == Settled(p, s, config)
    <3>1. r = promoted
      BY <2>3, <2>4
    <3>2. /\ r \in Screen /\ r.id = p.id /\ r.admitted = p.admitted
          /\ r.configured = p.configured /\ r.current = p.current /\ r.request = p.request
          /\ r.initial = initial /\ r.deferred = p.deferred /\ r.asked = p.asked
      <4> HIDE DEF r
      <4> QED BY <2>1, <3>1 DEF Screen
    <3> HIDE DEF r
    <3> QED BY <1>2, <2>2, <2>4, <3>2 DEF r
  <2>5. CASE p.request = s.request
    <3> DEFINE r == Settled(p, s, config)
    <3>1. r = [promoted EXCEPT !.deferred = Unset, !.asked = asked]
      BY <2>3, <2>5
    <3>2. /\ r \in Screen /\ r.id = p.id /\ r.admitted = p.admitted
          /\ r.configured = p.configured /\ r.current = p.current /\ r.request = p.request
          /\ r.initial = initial /\ r.deferred = Unset /\ r.asked = asked
      <4> HIDE DEF r
      <4> QED BY <2>1, <3>1 DEF Screen
    <3> HIDE DEF r
    <3> QED BY <1>2, <2>2, <2>5, <3>2 DEF r
  <2> QED BY <2>4, <2>5
<1> QED BY <1>1, <1>2

\* An output that was s, when a plan that is not refused was applied.  If it is asked for
\* another size meanwhile, that is deferred.
Applied(r, s, o, config) ==
  /\ ScreenOK(r, o) /\ r # Unset /\ r.id = s.id /\ r.admitted
  /\ Staged(s, o, config) \in Mode
  /\ r.current.on = Staged(s, o, config).on
  /\ r.current.on => r.current = Staged(s, o, config)
  /\ config \in {Unset, "preferred"} => r.current = On(r.initial)
  /\ r.deferred = Unset => /\ r.request = s.request
                           /\ LET to == Staged(r, o, config) IN to.on => to.size \notin Refused[o]

LEMMA ApplyScreen ==
  ASSUME NEW o \in Outputs, NEW s, ScreenOK(s, o), NEW config \in Plans, NEW size \in Sizes,
         Staged(s, o, config).on => Staged(s, o, config).size \notin Refused[o],
         NEW p, LET c == Taken(s, Staged(s, o, config), config # Unset)
                IN p = c \/ (o \in Host /\ p = Requested(c, size))
  PROVE  Applied(Settled(p, s, config), s, o, config) /\ p \in Screen
<1> DEFINE to == Staged(s, o, config)
           c  == Taken(s, to, config # Unset)
           r  == Settled(p, s, config)
<1>0. s \in Screen /\ s # Unset /\ s.request \in Nat /\ s.current \in Mode
  BY Apart DEF ScreenOK, Screen
<1>1. /\ to \in Mode
      /\ config \in {Unset, "preferred"} => to = On(s.asked)
      /\ config = "hold" => to = IF s.admitted THEN s.current ELSE Off(s.initial)
      /\ config = "off" => ~to.on
      /\ config \in Sizes => to = On(config)
  BY StagedIs
<1>2. p = c \/ (o \in Host /\ p = Requested(c, size))
  OBVIOUS
<1>3. to.on => to.size \notin Refused[o]
  OBVIOUS
<1>4. Staged(s, o, config) = to
  OBVIOUS
<1> HIDE DEF to
<1>5. /\ c \in Screen /\ c.id = s.id /\ c.admitted /\ c.configured = (config # Unset)
      /\ c.current = (IF to.on THEN to ELSE Off(s.current.size))
      /\ c.initial = s.initial /\ c.deferred = s.deferred /\ c.request = s.request
      /\ c.asked = s.asked
  BY <1>0, <1>1, TakenIs
<1> HIDE DEF c
<1>6. /\ p \in Screen /\ p.id = s.id /\ p.admitted /\ p.configured = (config # Unset)
      /\ p.current = c.current /\ p.initial = s.initial
      /\ \/ p.deferred = s.deferred /\ p.request = s.request /\ p.asked = s.asked
         \/ o \in Host /\ p.deferred = size /\ p.request = s.request + 1 /\ p.asked = size
  <2>1. CASE p = c
    BY <1>5, <2>1
  <2>2. CASE o \in Host /\ p = Requested(c, size)
    BY <1>5, <2>2, RequestedType
  <2> QED BY <1>2, <2>1, <2>2
<1>7. /\ r \in Screen /\ r.id = p.id /\ r.admitted = p.admitted
      /\ r.configured = p.configured /\ r.current = p.current /\ r.request = p.request
      /\ r.initial = IF s.deferred = Unset \/ config = "hold" THEN p.initial ELSE s.deferred
      /\ r.deferred = IF s.deferred # Unset /\ p.request = s.request THEN Unset ELSE p.deferred
      /\ r.asked = IF s.deferred # Unset /\ p.request = s.request /\ config = "hold"
                   THEN p.initial ELSE p.asked
  <2>1. p \in Screen /\ s \in Screen
    BY <1>0, <1>6
  <2> QED BY <2>1, SettledIs
<1> HIDE DEF r
<1>8. s.asked = IF s.deferred # Unset THEN s.deferred ELSE s.initial
  BY DEF ScreenOK
<1>9. \/ r.deferred = Unset /\ r.request = s.request /\ r.asked = r.initial
      \/ o \in Host /\ r.deferred = size /\ r.asked = size
  <2>1. CASE p.deferred = s.deferred /\ p.request = s.request /\ p.asked = s.asked
    BY <1>6, <1>7, <1>8, <2>1
  <2>2. CASE o \in Host /\ p.deferred = size /\ p.request = s.request + 1 /\ p.asked = size
    <3>1. p.request # s.request
      BY <1>0, <2>2
    <3> QED BY <1>7, <2>2, <3>1
  <2> QED BY <1>6, <2>1, <2>2
<1>10. size # Unset /\ r # Unset
  BY <1>7, Apart
<1>11. config # "hold" => r.initial = s.asked
  BY <1>6, <1>7, <1>8
<1>12. \A x \in Sizes : On(x).on = TRUE /\ Off(x).on = FALSE /\ On(x).size = x
  BY DEF On, Off
<1>13. /\ r.current = (IF to.on THEN to ELSE Off(s.current.size))
       /\ r.current.on = to.on /\ (to.on => r.current = to)
  <2>1. s.current.size \in Sizes /\ to.on \in BOOLEAN
    BY <1>0, <1>1 DEF Mode
  <2>2. r.current = (IF to.on THEN to ELSE Off(s.current.size))
    BY <1>5, <1>6, <1>7
  <2> QED BY <1>12, <2>1, <2>2
<1>14. config \in {Unset, "preferred"} => r.current = On(r.initial)
  <2> SUFFICES ASSUME config \in {Unset, "preferred"} PROVE r.current = On(r.initial)
    OBVIOUS
  <2>1. to = On(s.asked) /\ r.initial = s.asked /\ s.asked \in Sizes
    BY <1>0, <1>1, <1>11, Apart DEF Screen
  <2> QED BY <1>12, <1>13, <2>1
<1>15. ScreenOK(r, o)
  <2>1. r.asked = IF r.deferred # Unset THEN r.deferred ELSE r.initial
    BY <1>9, <1>10
  <2>2. o \in Monitors => r.deferred = Unset
    BY <1>9, OutputsAssumption
  <2>3. r.admitted /\ ~r.configured => r.current = On(r.initial)
    BY <1>6, <1>7, <1>14
  <2>4. r.current.on => r.admitted /\ r.current.size \notin Refused[o]
    BY <1>3, <1>6, <1>7, <1>13
  <2> QED BY <1>7, <2>1, <2>2, <2>3, <2>4 DEF ScreenOK
<1>16. ASSUME r.deferred = Unset, Staged(r, o, config).on
       PROVE  Staged(r, o, config).size \notin Refused[o]
  <2> DEFINE next == Staged(r, o, config)
  <2>1. /\ config \in {Unset, "preferred"} => next = On(r.asked)
        /\ config = "hold" => next = IF r.admitted THEN r.current ELSE Off(r.initial)
        /\ config = "off" => ~next.on
        /\ config \in Sizes => next = On(config)
    BY <1>15, StagedIs
  <2>2. next.on /\ r.admitted /\ r.asked = r.initial /\ r.initial \in Sizes
    BY <1>6, <1>7, <1>9, <1>10, <1>16 DEF Screen
  <2> HIDE DEF next
  <2>3. r.current.on => r.current.size \notin Refused[o]
    BY <1>15 DEF ScreenOK
  <2>4. ASSUME config \in {Unset, "preferred"} PROVE next.size \notin Refused[o]
    <3>1. next = r.current
      BY <1>14, <2>1, <2>2, <2>4
    <3> QED BY <2>2, <2>3, <3>1
  <2>5. ASSUME config = "hold" PROVE next.size \notin Refused[o]
    <3>1. next = r.current
      BY <2>1, <2>2, <2>5
    <3> QED BY <2>2, <2>3, <3>1
  <2>6. ASSUME config = "off" PROVE next.size \notin Refused[o]
    BY <2>1, <2>2, <2>6
  <2>7. ASSUME config \in Sizes PROVE next.size \notin Refused[o]
    <3>1. next = to
      BY <1>1, <2>1, <2>7
    <3> QED BY <1>3, <2>2, <3>1
  <2>8. next.size \notin Refused[o]
    <3>1. config \in {Unset, "preferred"} \/ config = "hold" \/ config = "off" \/ config \in Sizes
      BY DEF Plans, Configs
    <3> QED BY <2>4, <2>5, <2>6, <2>7, <3>1
  <2> QED BY <2>8 DEF next
<1>17. r.deferred = Unset => r.request = s.request
  BY <1>9, <1>10
<1>18. Applied(r, s, o, config)
  BY <1>1, <1>4, <1>6, <1>7, <1>10, <1>13, <1>14, <1>15, <1>16, <1>17 DEF Applied
<1> QED BY <1>6, <1>18 DEF r

LEMMA ApplyStep ==
  ASSUME NEW n, NativeInv(n), NEW plan, \A o \in Outputs : plan[o] \in Plans, ~Refuses(n, plan),
         NEW nested \in Sizes
  PROVE  LET m == tomoe_outputs_apply(n, plan, nested)
         IN /\ NativeInv(m) /\ m.revision >= n.revision
            /\ Connected(n) # {} => m.events # <<>> /\ m.revision > n.revision
            /\ \A o \in Outputs :
                 IF n.screens[o] = Unset THEN m.screens[o] = Unset
                 ELSE Applied(m.screens[o], n.screens[o], o, plan[o])
<1> DEFINE Took(o) == Taken(n.screens[o], Staged(n.screens[o], o, plan[o]), plan[o] # Unset)
           screens == [o \in Outputs |-> IF n.screens[o] = Unset THEN Unset ELSE Took(o)]
           c == Screened(n, screens, n.next, n.nested)
           p == outputs_request_nested_size(c, nested)
<1>0. /\ Base(n) /\ Ordered(n) /\ n \in Native /\ n.next \in Nat /\ n.nested \in Sizes
      /\ n.revision \in Nat /\ n.screens \in [Outputs -> Screen \cup {Unset}]
  BY DEF NativeInv, Base, Ordered, Native
<1>1. Committed(n, plan) = c
  <2>1. Committed(n, plan) = [n EXCEPT !.screens = screens]
    BY DEF Committed, Taken
  <2> HIDE DEF screens
  <2> QED BY <1>0, <2>1 DEF Screened, Native
<1>2. ASSUME NEW o \in Outputs, n.screens[o] # Unset
      PROVE  /\ n.screens[o] \in Screen /\ ScreenOK(n.screens[o], o) /\ Took(o) \in Screen
             /\ LET to == Staged(n.screens[o], o, plan[o]) IN to.on => to.size \notin Refused[o]
  <2>1. n.screens[o] \in Screen /\ ScreenOK(n.screens[o], o) /\ plan[o] \in Plans
    BY <1>0, <1>2 DEF Base
  <2>2. Staged(n.screens[o], o, plan[o]) \in Mode
    BY <2>1, StagedIs
  <2>3. Took(o) \in Screen
    BY <2>1, <2>2, TakenIs
  <2> QED BY <1>2, <2>1, <2>3 DEF Refuses, Connected
<1>3. \A o \in Outputs : screens[o] = IF n.screens[o] = Unset THEN Unset ELSE Took(o)
  OBVIOUS
<1>4. screens \in [Outputs -> Screen \cup {Unset}]
  BY <1>2
<1>5. Connected(n) = {} => screens = n.screens
  BY <1>0 DEF Connected
<1> HIDE DEF screens
<1>6. Ordered(c) /\ c.screens = screens /\ c.revision = n.revision
  BY <1>0, <1>4, OrderedScreened
<1>7. Connected(n) = {} => c = n
  BY <1>0, <1>5 DEF Screened, Native
<1> HIDE DEF c
<1>8. /\ Ordered(p) /\ p.revision >= c.revision
      /\ p = c \/ (p.events # <<>> /\ p.revision > c.revision)
      /\ \A o \in Outputs : \/ p.screens[o] = c.screens[o]
                            \/ /\ o \in Host /\ c.screens[o] # Unset
                               /\ p.screens[o] = Requested(c.screens[o], nested)
      /\ NativeInv(c) => NativeInv(p)
  BY <1>6, NestedStep
<1>9. tomoe_outputs_apply(n, plan, nested)
        = IF Connected(n) = {} THEN p ELSE outputs_event(Settle(n, p, plan))
  BY <1>1 DEF tomoe_outputs_apply
<1> HIDE DEF p
<1>10. p.next \in Nat /\ p.nested \in Sizes /\ p.revision \in Nat /\ p \in Native
  BY <1>8 DEF Ordered, Native
<1>11. CASE Connected(n) = {}
  <2>1. NativeInv(p) /\ p.revision >= n.revision
    BY <1>6, <1>7, <1>8, <1>11
  <2>2. \A o \in Outputs : n.screens[o] = Unset /\ c.screens[o] = Unset
    BY <1>3, <1>6, <1>11 DEF Connected
  <2>3. \A o \in Outputs : p.screens[o] = Unset
    BY <1>8, <2>2
  <2> QED BY <1>9, <1>11, <2>1, <2>2, <2>3
<1>12. CASE Connected(n) # {}
  <2> DEFINE settled == [o \in Outputs |-> IF p.screens[o] = Unset THEN Unset
                                           ELSE Settled(p.screens[o], n.screens[o], plan[o])]
             m == outputs_event(Screened(p, settled, p.next, p.nested))
  <2>1. Settle(n, p, plan) = Screened(p, settled, p.next, p.nested)
    <3>1. Settle(n, p, plan) = [p EXCEPT !.screens = settled]
      BY DEF Settle, Settled
    <3> HIDE DEF settled
    <3> QED BY <1>10, <3>1 DEF Screened, Native
  <2>2. ASSUME NEW o \in Outputs
        PROVE  /\ settled[o] \in Screen \cup {Unset}
               /\ IF n.screens[o] = Unset THEN settled[o] = Unset
                  ELSE Applied(settled[o], n.screens[o], o, plan[o])
               /\ settled[o] # Unset => ScreenOK(settled[o], o)
    <3>0. settled[o] = IF p.screens[o] = Unset THEN Unset
                       ELSE Settled(p.screens[o], n.screens[o], plan[o])
      OBVIOUS
    <3> HIDE DEF settled
    <3>1. CASE n.screens[o] = Unset
      <4>1. c.screens[o] = Unset
        BY <1>3, <1>6, <3>1
      <4> QED BY <1>8, <3>0, <3>1, <4>1
    <3>2. CASE n.screens[o] # Unset
      <4>1. c.screens[o] = Took(o)
        BY <1>3, <1>6, <3>2
      <4>2. p.screens[o] = Took(o) \/ (o \in Host /\ p.screens[o] = Requested(Took(o), nested))
        BY <1>8, <4>1
      <4>3. /\ Applied(Settled(p.screens[o], n.screens[o], plan[o]), n.screens[o], o, plan[o])
            /\ p.screens[o] \in Screen
        BY <1>2, <3>2, <4>2, ApplyScreen
      <4>4. settled[o] = Settled(p.screens[o], n.screens[o], plan[o])
        BY <3>0, <4>3, Apart
      <4>5. settled[o] \in Screen /\ ScreenOK(settled[o], o)
        BY <4>3, <4>4 DEF Applied, ScreenOK
      <4> QED BY <3>2, <4>3, <4>4, <4>5
    <3> QED BY <3>1, <3>2
  <2>3. settled \in [Outputs -> Screen \cup {Unset}]
    BY <2>2
  <2> HIDE DEF settled
  <2>4. /\ Ordered(m) /\ Told(m) /\ m.screens = settled /\ m.events # <<>>
        /\ m.revision > p.revision /\ NativeInv(m)
    <3>1. \A o \in Outputs : settled[o] # Unset => ScreenOK(settled[o], o)
      BY <2>2
    <3>2. /\ Ordered(m) /\ Told(m) /\ m.screens = settled /\ m.events # <<>>
          /\ m.revision > p.revision
          /\ (\A o \in Outputs : settled[o] # Unset => ScreenOK(settled[o], o)) => NativeInv(m)
      <4>1. Ordered(p) /\ p.next \in Nat /\ p.nested \in Sizes
        BY <1>8, <1>10
      <4> QED BY <2>3, <4>1, TellStep
    <3> QED BY <3>1, <3>2
  <2>5. m.revision \in Nat
    BY <2>4 DEF Ordered, Native
  <2> HIDE DEF m
  <2>6. tomoe_outputs_apply(n, plan, nested) = m
    BY <1>9, <1>12, <2>1 DEF m
  <2>7. m.revision > n.revision /\ m.revision >= n.revision
    BY <1>0, <1>6, <1>8, <1>10, <2>4, <2>5
  <2>8. \A o \in Outputs :
          IF n.screens[o] = Unset THEN m.screens[o] = Unset
          ELSE Applied(m.screens[o], n.screens[o], o, plan[o])
    BY <2>2, <2>4
  <2> QED BY <2>4, <2>6, <2>7, <2>8
<1> QED BY <1>11, <1>12

-----------------------------------------------------------------------------
(* A commit. *)

LEMMA LaterHolds ==
  ASSUME NEW o, NEW a, NEW s, NEW p, PlanHolds(s, o, a), Later(p, s)
  PROVE  PlanHolds(p, o, a)
BY DEF PlanHolds, Later

LEMMA AppliedHolds ==
  ASSUME NEW o, NEW a, NEW s, NEW r, Applied(r, s, o, a.plan[o]),
         a.plan[o] \in {"hold", a.config[o]},
         a.plan[o] = "hold" => \E f \in a.failures : Blames(f, o, a.config[o], s)
  PROVE  PlanHolds(r, o, a)
BY DEF PlanHolds, Applied, Blames

\* What is planned of an output that is connected.
LEMMA PlanIs ==
  ASSUME NEW n, n.screens \in [Outputs -> Screen \cup {Unset}], NEW config, NEW F,
         NEW o \in Outputs, NEW known, known = Facts(n)
  PROVE  LET failures == matching_output_failures(F, config, known)
             plan     == Plan(config, failures, known)
             s        == n.screens[o]
         IN /\ s = Unset => plan[o] = Unset
            /\ s # Unset =>
                 \/ plan[o] = "hold" /\ \E f \in failures : Blames(f, o, config[o], s)
                 \/ plan[o] = config[o] /\ \A f \in F : ~Blames(f, o, config[o], s)
<1> DEFINE failures == matching_output_failures(F, config, known)
           plan     == Plan(config, failures, known)
           s        == n.screens[o]
<1>1. known[o] # Unset <=> s # Unset
  BY FactsType
<1>2. s # Unset => Identity(known[o]) = <<s.id, s.request>>
  BY DEF Facts, Identity
<1> HIDE DEF s
<1>3. plan[o] = IF known[o] = Unset THEN Unset
                ELSE IF \E f \in failures : f.name = o THEN "hold" ELSE config[o]
  BY DEF Plan
<1>4. \A f : f \in failures <=> /\ f \in F /\ known[f.name] # Unset
                                /\ f.config = config[f.name]
                                /\ f.connector = Identity(known[f.name])
  BY DEF matching_output_failures
<1> HIDE DEF failures, plan
<1>5. s = Unset => plan[o] = Unset
  BY <1>1, <1>3
<1>6. ASSUME s # Unset, NEW f \in failures, f.name = o
      PROVE  plan[o] = "hold" /\ Blames(f, o, config[o], s)
  BY <1>1, <1>2, <1>3, <1>4, <1>6 DEF Blames
<1>7. ASSUME s # Unset, ~ \E f \in failures : f.name = o
      PROVE  plan[o] = config[o] /\ \A f \in F : ~Blames(f, o, config[o], s)
  BY <1>1, <1>2, <1>3, <1>4, <1>7 DEF Blames
<1>8. s # Unset =>
        \/ plan[o] = "hold" /\ \E f \in failures : Blames(f, o, config[o], s)
        \/ plan[o] = config[o] /\ \A f \in F : ~Blames(f, o, config[o], s)
  BY <1>6, <1>7
<1> QED BY <1>5, <1>8 DEF failures, plan, s

LEMMA ConfigIs ==
  ASSUME NEW decl \in Candidates, NEW known
  PROVE  /\ Config(decl, known) \in [Outputs -> Configs]
         /\ ~Scaled => Config(decl, known) = decl.outputs
         /\ decl.nested \in Sizes /\ decl.virtual \in [Virtual -> Sizes \cup {Unset}]
<1>1. /\ decl.outputs \in [Outputs -> Configs]
      /\ decl.nested \in Sizes /\ decl.virtual \in [Virtual -> Sizes \cup {Unset}]
  BY OutputsAssumption DEF Outputs, Configs
<1>2. ASSUME NEW o \in Outputs
      PROVE  /\ Config(decl, known)[o] \in Configs
             /\ ~Scaled => Config(decl, known)[o] = decl.outputs[o]
  BY <1>1 DEF Config, Configs
<1>3. Config(decl, known) = [o \in Outputs |-> Config(decl, known)[o]]
  BY DEF Config
<1>4. Config(decl, known) \in [Outputs -> Configs]
  BY <1>2, <1>3
<1>5. decl.outputs = [o \in Outputs |-> decl.outputs[o]]
  BY <1>1
<1>6. ~Scaled => Config(decl, known) = decl.outputs
  BY <1>2, <1>3, <1>5
<1> QED BY <1>1, <1>4, <1>6

\* The preview foretells the facts, but for what is asked for meanwhile.
LEMMA PreviewIs ==
  ASSUME NEW n, NEW m, NEW plan, n.screens \in [Outputs -> Screen \cup {Unset}],
         m.screens \in [Outputs -> Screen \cup {Unset}],
         \A o \in Outputs : IF n.screens[o] = Unset THEN m.screens[o] = Unset
                            ELSE Applied(m.screens[o], n.screens[o], o, plan[o]),
         ~outputs_pending(m)
  PROVE  Preview(n, plan) = Facts(m)
<1>1. ASSUME NEW o \in Outputs
      PROVE  Preview(n, plan)[o] = Facts(m)[o]
  <2>1. CASE n.screens[o] = Unset
    BY <2>1 DEF Preview, Facts
  <2>2. CASE n.screens[o] # Unset
    <3> DEFINE s == n.screens[o]
               p == m.screens[o]
               to == Staged(s, o, plan[o])
    <3>1. Applied(p, s, o, plan[o])
      BY <2>2
    <3>2. p # Unset /\ p.admitted /\ p.deferred = Unset
      BY <3>1 DEF Applied, outputs_pending, Connected
    <3>3. Facts(m)[o] = [id |-> p.id, request |-> p.request, asking |-> p.deferred # Unset,
                         arriving |-> ~p.admitted, is |-> IF p.current.on THEN p.current.size ELSE Unset]
      BY <3>2 DEF Facts
    <3>4. Preview(n, plan)[o]
            = [id |-> s.id, request |-> s.request, asking |-> FALSE, arriving |-> FALSE,
               is |-> IF to.on THEN to.size ELSE Unset]
      BY <2>2 DEF Preview
    <3> HIDE DEF s, p
    <3>5. /\ p.id = s.id /\ p.request = s.request /\ p.current.on = to.on
          /\ p.current.on => p.current = to
      BY <3>1, <3>2 DEF Applied
    <3> HIDE DEF to
    <3>6. (IF p.current.on THEN p.current.size ELSE Unset) = IF to.on THEN to.size ELSE Unset
      BY <3>5
    <3>7. (p.deferred # Unset) = FALSE /\ (~p.admitted) = FALSE
      BY <3>2
    <3> QED BY <3>3, <3>4, <3>5, <3>6, <3>7
  <2> QED BY <2>1, <2>2
<1>2. /\ Preview(n, plan) = [o \in Outputs |-> Preview(n, plan)[o]]
      /\ Facts(m) = [o \in Outputs |-> Facts(m)[o]]
  BY DEF Preview, Facts
<1> QED BY <1>1, <1>2

\* A runtime record after what is assigned to its fields.
Runtime(known, revision, stale, recovery) ==
  [known |-> known, revision |-> revision, stale |-> stale, recovery |-> recovery]

Recommitted(r, known, revision) ==
  [r EXCEPT !.known = known, !.recovery = {}, !.revision = revision]

LEMMA RecommittedIs ==
  ASSUME NEW r, NEW k, NEW v, NEW s, NEW f, r = Runtime(k, v, s, f), NEW known, NEW revision
  PROVE  Recommitted(r, known, revision) = Runtime(known, revision, s, {})
<1> DEFINE m == Recommitted(r, known, revision)
<1>1. r \in [known : {k}, revision : {v}, stale : {s}, recovery : {f}]
  BY DEF Runtime
<1>2. m \in [known : {known}, revision : {revision}, stale : {s}, recovery : {{}}]
  BY <1>1 DEF Recommitted
<1> HIDE DEF m
<1>3. m = Runtime(known, revision, s, {})
  BY <1>2 DEF Runtime
<1> QED BY <1>3 DEF m

\* What a commit leaves, whether it succeeds or not.
Committing(c, n, r, a) ==
  /\ c = [ok |-> c.ok, n |-> c.n, r |-> c.r, a |-> c.a] /\ c.ok \in BOOLEAN
  /\ IF c.ok
     THEN /\ NativeInv(c.n) /\ KnownInv(c.n, c.r) /\ Accepts(c.n, c.a)
          /\ c.a.known = c.r.known
          /\ c.n.events # <<>> \/ ~outputs_pending(c.n)
     ELSE c.n = n /\ c.r = r /\ c.a = a

LEMMA CommitStep ==
  ASSUME NEW n, NativeInv(n), NEW r, KnownInv(n, r), r.known = Facts(n), r.revision = n.revision,
         NEW a, Accepts(n, a), NEW decl \in Candidates, NEW refuse
  PROVE  Committing(commit_context(n, r, a, decl, refuse), n, r, a)
<1> DEFINE config   == Config(decl, r.known)
           F        == r.recovery \cup a.failures
           failures == matching_output_failures(F, config, r.known)
           plan     == Plan(config, failures, r.known)
           changed  == outputs_pending(n) \/ plan # a.plan
           applied  == IF changed THEN tomoe_outputs_apply(n, plan, decl.nested)
                       ELSE outputs_request_nested_size(n, decl.nested)
           known    == IF changed THEN Preview(n, plan) ELSE r.known
           revision == IF changed /\ ~outputs_pending(applied) THEN applied.revision ELSE r.revision
           m        == configure_virtual_outputs(applied, a.decl.virtual, decl.virtual)
           next     == [known |-> known, revision |-> revision, stale |-> r.stale, recovery |-> {}]
           done     == [decl |-> decl, config |-> config, failures |-> failures, plan |-> plan,
                        known |-> known]
           fails    == changed /\ (refuse \/ Refuses(n, plan))
           c        == commit_context(n, r, a, decl, refuse)
<1>0. /\ Base(n) /\ Ordered(n) /\ n.revision \in Nat
      /\ n.screens \in [Outputs -> Screen \cup {Unset}]
  BY DEF NativeInv, Base, Ordered, Native
<1>1. c = IF fails THEN [ok |-> FALSE, n |-> n, r |-> r, a |-> a]
          ELSE [ok |-> TRUE, n |-> m, r |-> next, a |-> done]
  <2>1. c = IF fails THEN [ok |-> FALSE, n |-> n, r |-> r, a |-> a]
            ELSE [ok |-> TRUE, n |-> m,
                  r |-> [r EXCEPT !.known = known, !.recovery = {},
                                  !.revision = IF changed /\ ~outputs_pending(applied)
                                               THEN applied.revision ELSE @],
                  a |-> done]
    BY DEF commit_context
  <2>2. r = Runtime(r.known, r.revision, r.stale, r.recovery)
    BY DEF KnownInv, Runtime
  <2>3. ASSUME NEW k, NEW v PROVE Recommitted(r, k, v) = Runtime(k, v, r.stale, {})
    BY <2>2, RecommittedIs
  <2>4. \A k, v : [r EXCEPT !.known = k, !.recovery = {}, !.revision = v]
                    = [known |-> k, revision |-> v, stale |-> r.stale, recovery |-> {}]
    BY <2>3 DEF Recommitted, Runtime
  <2> HIDE DEF fails, m, done, changed, applied, known, c
  <2> QED BY <2>1, <2>4
<1>2. ASSUME fails PROVE Committing(c, n, r, a)
  <2> HIDE DEF fails, c
  <2>1. c = [ok |-> FALSE, n |-> n, r |-> r, a |-> a]
    BY <1>1, <1>2
  <2> HIDE DEF m, next, done
  <2> QED BY <2>1 DEF Committing
<1>3. ASSUME ~fails PROVE Committing(c, n, r, a)
  <2>1. /\ config \in [Outputs -> Configs] /\ (~Scaled => config = decl.outputs)
        /\ decl.nested \in Sizes /\ decl.virtual \in [Virtual -> Sizes \cup {Unset}]
    BY ConfigIs
  <2>2. a.decl.virtual \in [Virtual -> Sizes \cup {Unset}]
    BY ConfigIs DEF Accepts, AcceptedInv
  <2> HIDE DEF config
  <2>3. ASSUME NEW o \in Outputs
        PROVE  /\ n.screens[o] = Unset => plan[o] = Unset
               /\ n.screens[o] # Unset =>
                    /\ plan[o] \in {"hold", config[o]}
                    /\ plan[o] = "hold" => \E f \in failures : Blames(f, o, config[o], n.screens[o])
    <3> HIDE DEF F
    <3>1. config[o] # "hold"
      BY <2>1, Apart DEF Configs
    <3>2. r.known = Facts(n)
      OBVIOUS
    <3> DEFINE s == n.screens[o]
    <3>3. /\ s = Unset => plan[o] = Unset
          /\ s # Unset => \/ plan[o] = "hold" /\ \E f \in failures : Blames(f, o, config[o], s)
                          \/ plan[o] = config[o]
      BY <1>0, <3>2, PlanIs
    <3> HIDE DEF failures, plan
    <3> QED BY <3>1, <3>3
  <2>4. \A o \in Outputs : plan[o] \in Plans
    BY <2>1, <2>3 DEF Plans, Configs
  <2> HIDE DEF failures, plan
  <2>5. done.plan = plan /\ done.failures = failures /\ done.config = config /\ done.known = known
    OBVIOUS
  <2>6. /\ NativeInv(applied) /\ applied.revision >= n.revision
        /\ \A o \in Outputs : PlanHolds(applied.screens[o], o, done)
        /\ \A o \in Outputs : known[o] # Unset => ~known[o].asking /\ ~known[o].arriving
        /\ changed /\ ~outputs_pending(applied) => known = Facts(applied)
        /\ changed /\ outputs_pending(applied) => applied.revision > n.revision /\ applied.events # <<>>
        /\ changed => applied.events # <<>> \/ ~outputs_pending(applied)
        /\ ~changed => /\ known = Facts(n) /\ ~outputs_pending(n)
                       /\ applied = n \/ (applied.revision > n.revision /\ applied.events # <<>>)
    <3>1. CASE changed
      <4>1. applied = tomoe_outputs_apply(n, plan, decl.nested) /\ known = Preview(n, plan)
        BY <3>1
      <4>2. ~Refuses(n, plan)
        BY <1>3, <3>1
      <4> HIDE DEF applied, changed, known, done
      <4>3. /\ NativeInv(applied) /\ applied.revision >= n.revision
            /\ Connected(n) # {} => applied.events # <<>> /\ applied.revision > n.revision
            /\ \A o \in Outputs :
                 IF n.screens[o] = Unset THEN applied.screens[o] = Unset
                 ELSE Applied(applied.screens[o], n.screens[o], o, plan[o])
        BY <2>1, <2>4, <4>1, <4>2, ApplyStep
      <4>4. applied.screens \in [Outputs -> Screen \cup {Unset}]
        BY <4>3 DEF NativeInv, Base, Ordered, Native
      <4>5. ASSUME NEW o \in Outputs
            PROVE  PlanHolds(applied.screens[o], o, done)
        <5>1. CASE n.screens[o] = Unset
          BY <4>3, <5>1 DEF PlanHolds
        <5>2. CASE n.screens[o] # Unset
          BY <2>3, <2>5, <4>3, <5>2, AppliedHolds
        <5> QED BY <5>1, <5>2
      <4>6. ~outputs_pending(applied) => known = Facts(applied)
        BY <1>0, <4>1, <4>3, <4>4, PreviewIs
      <4>7. Connected(n) = {} => ~outputs_pending(applied)
        BY <4>3 DEF outputs_pending, Connected
      <4>8. \A o \in Outputs : known[o] # Unset => ~known[o].asking /\ ~known[o].arriving
        BY <4>1 DEF Preview
      <4> QED BY <3>1, <4>3, <4>5, <4>6, <4>7, <4>8
    <3>2. CASE ~changed
      <4>1. /\ applied = outputs_request_nested_size(n, decl.nested) /\ known = r.known
            /\ ~outputs_pending(n) /\ plan = a.plan
        BY <3>2
      <4> HIDE DEF applied, changed, known, done
      <4>2. /\ NativeInv(applied) /\ Grows(applied, n) /\ applied.revision >= n.revision
            /\ applied = n \/ (applied.events # <<>> /\ applied.revision > n.revision)
        BY <1>0, <2>1, <4>1, NestedStep
      <4>3. ASSUME NEW o \in Outputs
            PROVE  PlanHolds(applied.screens[o], o, done)
        <5>1. PlanHolds(n.screens[o], o, a)
          BY DEF Accepts
        <5>2. PlanHolds(n.screens[o], o, done)
          BY <2>3, <2>5, <4>1, <5>1 DEF PlanHolds
        <5> QED BY <4>2, <5>2, LaterHolds DEF Grows
      <4>4. ASSUME NEW o \in Outputs, known[o] # Unset
            PROVE  ~known[o].asking /\ ~known[o].arriving
        <5>1. n.screens[o] # Unset
          BY <1>0, <4>1, <4>4, FactsType
        <5>2. n.screens[o].admitted /\ n.screens[o].deferred = Unset
          BY <4>1, <5>1 DEF outputs_pending, Connected
        <5>3. known = Facts(n)
          BY <4>1
        <5>4. Facts(n)[o].asking = (n.screens[o].deferred # Unset)
              /\ Facts(n)[o].arriving = ~n.screens[o].admitted
          BY <5>1 DEF Facts
        <5> QED BY <5>2, <5>3, <5>4
      <4> QED BY <3>2, <4>1, <4>2, <4>3, <4>4
    <3> QED BY <3>1, <3>2
  <2>7. done = [decl |-> done.decl, config |-> done.config, failures |-> done.failures,
                plan |-> done.plan, known |-> done.known] /\ done.decl = decl
    OBVIOUS
  <2>8. /\ next = [known |-> next.known, revision |-> next.revision, stale |-> next.stale,
                   recovery |-> next.recovery]
        /\ next.known = known /\ next.revision = revision /\ next.stale = r.stale
    OBVIOUS
  <2>9. revision = IF changed /\ ~outputs_pending(applied) THEN applied.revision ELSE n.revision
    OBVIOUS
  <2>10. m = configure_virtual_outputs(applied, a.decl.virtual, decl.virtual)
    OBVIOUS
  <2> HIDE DEF done, next, revision, applied, known, changed, fails, c
  <2>11. NativeInv(m) /\ Grows(m, applied)
    BY <2>1, <2>2, <2>6, VirtualSteps
  <2> HIDE DEF m
  <2>12. c = [ok |-> TRUE, n |-> m, r |-> next, a |-> done]
    BY <1>1, <1>3
  <2>13. Accepts(m, done)
    <3>1. AcceptedInv(done)
      BY <2>1, <2>5, <2>6, <2>7 DEF AcceptedInv
    <3>2. \A o \in Outputs : PlanHolds(m.screens[o], o, done)
      BY <2>6, <2>11, LaterHolds DEF Grows
    <3> QED BY <3>1, <3>2 DEF Accepts
  <2>14. applied.revision \in Nat /\ m.revision \in Nat /\ r.stale \in BOOLEAN
    BY <2>6, <2>11 DEF NativeInv, Base, Ordered, Native, KnownInv
  <2>15. m = applied \/ (m.revision > applied.revision /\ m.events # <<>>)
    BY <2>11 DEF Grows
  <2>16. revision \in Nat /\ revision <= m.revision
    BY <1>0, <2>6, <2>9, <2>14, <2>15
  <2>17. revision = m.revision => known = Facts(m)
    <3>1. CASE changed
      BY <1>0, <2>6, <2>9, <2>14, <2>15, <3>1
    <3>2. CASE ~changed
      BY <1>0, <2>6, <2>9, <2>14, <2>15, <3>2
    <3> QED BY <3>1, <3>2
  <2>18. m.events = <<>> => revision = m.revision /\ ~outputs_pending(m)
    <3>1. CASE changed
      BY <1>0, <2>6, <2>9, <2>14, <2>15, <3>1
    <3>2. CASE ~changed
      BY <1>0, <2>6, <2>9, <2>14, <2>15, <3>2
    <3> QED BY <3>1, <3>2
  <2>19. KnownInv(m, next)
    BY <2>8, <2>14, <2>16, <2>17, <2>18 DEF KnownInv
  <2> QED BY <2>5, <2>8, <2>11, <2>12, <2>13, <2>18, <2>19 DEF Committing
<1> HIDE DEF fails
<1> QED BY <1>2, <1>3 DEF c

-----------------------------------------------------------------------------
(* The recovery, and a transaction. *)

LEMMA KnownRuntime ==
  ASSUME NEW n, NEW r, KnownInv(n, r)
  PROVE  r = Runtime(r.known, r.revision, r.stale, r.recovery)
BY DEF KnownInv, Runtime

Recalled(r, recovery) == [r EXCEPT !.recovery = recovery]

LEMMA RecalledIs ==
  ASSUME NEW n, NEW r, KnownInv(n, r), NEW recovery
  PROVE  LET m == Recalled(r, recovery)
         IN /\ KnownInv(n, m) /\ m.known = r.known /\ m.revision = r.revision
            /\ m.stale = r.stale /\ m.recovery = recovery
<1> DEFINE m == Recalled(r, recovery)
           k == r.known
           v == r.revision
           s == r.stale
           f == r.recovery
<1>1. r = Runtime(k, v, s, f)
  BY KnownRuntime
<1> HIDE DEF k, v, s, f
<1>2. r \in [known : {k}, revision : {v}, stale : {s}, recovery : {f}]
  BY <1>1 DEF Runtime
<1>3. m \in [known : {k}, revision : {v}, stale : {s}, recovery : {recovery}]
  BY <1>2 DEF Recalled
<1> HIDE DEF m
<1>4. /\ m.known = r.known /\ m.revision = r.revision /\ m.stale = r.stale
      /\ m.recovery = recovery
      /\ m = [known |-> m.known, revision |-> m.revision, stale |-> m.stale, recovery |-> m.recovery]
  BY <1>3 DEF k, v, s
<1>5. KnownInv(n, m)
  BY <1>4 DEF KnownInv
<1> QED BY <1>4, <1>5 DEF m

Looked(r, known, revision, stale) ==
  [r EXCEPT !.known = known, !.revision = revision, !.stale = stale]

LEMMA LookedIs ==
  ASSUME NEW n, NEW r, KnownInv(n, r), NEW known, NEW revision, NEW stale
  PROVE  LET m == Looked(r, known, revision, stale)
         IN /\ m = [known |-> m.known, revision |-> m.revision, stale |-> m.stale,
                    recovery |-> m.recovery]
            /\ m.known = known /\ m.revision = revision /\ m.stale = stale
            /\ m.recovery = r.recovery
<1> DEFINE m == Looked(r, known, revision, stale)
           k == r.known
           v == r.revision
           s == r.stale
           f == r.recovery
<1>1. r = Runtime(k, v, s, f)
  BY KnownRuntime
<1> HIDE DEF k, v, s, f
<1>2. r \in [known : {k}, revision : {v}, stale : {s}, recovery : {f}]
  BY <1>1 DEF Runtime
<1>3. m \in [known : {known}, revision : {revision}, stale : {stale}, recovery : {f}]
  BY <1>2 DEF Looked
<1> HIDE DEF m
<1>4. /\ m = [known |-> m.known, revision |-> m.revision, stale |-> m.stale, recovery |-> m.recovery]
      /\ m.known = known /\ m.revision = revision /\ m.stale = stale /\ m.recovery = r.recovery
  BY <1>3 DEF f
<1> QED BY <1>4 DEF m

LEMMA Refreshed ==
  ASSUME NEW n, NativeInv(n), NEW r, KnownInv(n, r)
  PROVE  LET m == refresh_output_facts(n, r)
         IN /\ KnownInv(n, m) /\ m.known = Facts(n) /\ m.revision = n.revision
            /\ \A known : known = r.known \/ r.stale => known = m.known \/ m.stale
<1>1. r.revision \in Nat /\ n.revision \in Nat /\ r.revision <= n.revision /\ r.stale \in BOOLEAN
  BY DEF KnownInv, NativeInv, Base, Ordered, Native
<1>2. CASE n.revision <= r.revision
  <2>1. refresh_output_facts(n, r) = r /\ r.revision = n.revision
    BY <1>1, <1>2 DEF refresh_output_facts
  <2>2. r.known = Facts(n)
    BY <2>1 DEF KnownInv
  <2> QED BY <2>1, <2>2
<1>3. CASE ~(n.revision <= r.revision)
  <2> DEFINE stale == r.stale \/ Facts(n) # r.known
             m == Looked(r, Facts(n), n.revision, stale)
  <2>1. refresh_output_facts(n, r) = m
    BY <1>3, KnownRuntime DEF refresh_output_facts, Looked, Runtime
  <2>2. stale \in BOOLEAN /\ stale = (r.stale \/ Facts(n) # r.known)
    OBVIOUS
  <2> HIDE DEF stale
  <2>3. /\ m = [known |-> m.known, revision |-> m.revision, stale |-> m.stale, recovery |-> m.recovery]
        /\ m.known = Facts(n) /\ m.revision = n.revision /\ m.stale = stale
    BY LookedIs
  <2> HIDE DEF m
  <2>4. KnownInv(n, m)
    BY <1>1, <2>2, <2>3 DEF KnownInv
  <2>5. \A known : known = r.known \/ r.stale => known = m.known \/ m.stale
    BY <2>2, <2>3
  <2> QED BY <2>1, <2>3, <2>4, <2>5
<1> QED BY <1>2, <1>3

\* What the backend may have refused is held, and what it had taken is as it was.
LEMMA RecoveryIsTaken ==
  ASSUME ~Scaled, NEW n, NativeInv(n), NEW a, Accepts(n, a), NEW known, known = Facts(n), NEW F,
         \A o \in Outputs : known[o] # Unset /\ (known[o].asking \/ known[o].arriving)
                              => output_failure(o, known, a.config) \in F
  PROVE  LET config   == Config(a.decl, known)
             recovery == matching_output_failures(F, a.config, known)
             failures == matching_output_failures(recovery \cup a.failures, config, known)
         IN ~Refuses(n, Plan(config, failures, known))
<1> DEFINE config   == Config(a.decl, known)
           recovery == matching_output_failures(F, a.config, known)
           held     == recovery \cup a.failures
           failures == matching_output_failures(held, config, known)
           plan     == Plan(config, failures, known)
<1>1. config = a.config /\ a.config \in [Outputs -> Configs]
  BY ConfigIs DEF Accepts, AcceptedInv
<1>2. Base(n) /\ n.screens \in [Outputs -> Screen \cup {Unset}]
  BY DEF NativeInv, Base, Ordered, Native
<1> HIDE DEF config
<1>3. ASSUME NEW o \in Outputs, n.screens[o] # Unset,
             Staged(n.screens[o], o, plan[o]).on
      PROVE  Staged(n.screens[o], o, plan[o]).size \notin Refused[o]
  <2> DEFINE s == n.screens[o]
             to == Staged(s, o, plan[o])
  <2>1. ScreenOK(s, o) /\ PlanHolds(s, o, a) /\ s # Unset
    BY <1>2, <1>3 DEF Base, Accepts
  <2>2. \/ plan[o] = "hold"
        \/ plan[o] = config[o] /\ \A f \in held : ~Blames(f, o, config[o], s)
    <3> HIDE DEF held
    <3> QED BY <1>2, <1>3, PlanIs
  <2>3. /\ known[o] # Unset /\ Identity(known[o]) = <<s.id, s.request>>
        /\ known[o].asking = (s.deferred # Unset) /\ known[o].arriving = ~s.admitted
    <3>1. known[o] # Unset
      BY <1>2, <1>3, FactsType
    <3>2. known[o] = [id |-> s.id, request |-> s.request, asking |-> s.deferred # Unset,
                      arriving |-> ~s.admitted,
                      is |-> IF s.current.on THEN s.current.size ELSE Unset]
      BY <1>3 DEF Facts
    <3> HIDE DEF s
    <3>3. known[o].id = s.id /\ known[o].request = s.request
          /\ known[o].asking = (s.deferred # Unset) /\ known[o].arriving = ~s.admitted
      BY <3>2
    <3> QED BY <3>1, <3>3 DEF Identity
  <2>4. ~s.admitted \/ s.deferred # Unset => plan[o] = "hold"
    <3> SUFFICES ASSUME ~s.admitted \/ s.deferred # Unset PROVE plan[o] = "hold"
      OBVIOUS
    <3> DEFINE f == output_failure(o, known, a.config)
    <3>1. f \in F
      BY <2>3
    <3>2. f.name = o /\ f.config = a.config[o] /\ f.connector = Identity(known[o])
      BY DEF output_failure
    <3> HIDE DEF f
    <3>3. f \in recovery
      BY <2>3, <3>1, <3>2 DEF matching_output_failures
    <3>4. Blames(f, o, config[o], s)
      BY <1>1, <2>3, <3>2 DEF Blames
    <3> HIDE DEF plan, recovery
    <3> QED BY <2>2, <3>3, <3>4
  <2>5. plan[o] \in Plans
    BY <1>1, <2>2 DEF Plans, Configs
  <2> HIDE DEF plan
  <2>6. plan[o] = "hold" => to = IF s.admitted THEN s.current ELSE Off(s.initial)
    BY <2>1, <2>5, StagedIs
  <2>7. CASE plan[o] = "hold"
    <3>1. to = s.current
      <4>1. ~Off(s.initial).on
        BY DEF Off
      <4>2. to.on
        BY <1>3
      <4> HIDE DEF to
      <4> QED BY <2>6, <2>7, <4>1, <4>2
    <3>2. s.current.on => s.current.size \notin Refused[o]
      BY <2>1 DEF ScreenOK
    <3> QED BY <1>3, <3>1, <3>2
  <2>8. CASE plan[o] # "hold"
    <3>1. s.admitted /\ s.deferred = Unset /\ plan[o] = a.config[o]
      BY <1>1, <2>2, <2>4, <2>8
    <3>2. \A f \in a.failures : ~Blames(f, o, a.config[o], s)
      BY <1>1, <2>2, <2>8
    <3>3. a.plan[o] = a.config[o]
      BY <2>1, <3>1, <3>2 DEF PlanHolds
    <3>4. to.on => to.size \notin Refused[o]
      BY <2>1, <3>1, <3>3 DEF PlanHolds
    <3> QED BY <1>3, <3>4
  <2> QED BY <2>7, <2>8
<1> HIDE DEF plan
<1>4. ~Refuses(n, plan)
  BY <1>3 DEF Refuses, Connected
<1> QED BY <1>4 DEF plan, config

LEMMA RecoverStep ==
  ASSUME NEW n, NativeInv(n), NEW r, KnownInv(n, r), r.known = Facts(n), r.revision = n.revision,
         NEW a, Accepts(n, a), NEW cause
  PROVE  LET c == RecoverOutputs(n, r, a, cause)
         IN /\ \E recovery : Committing(c, n, Recalled(r, recovery), a)
            /\ ~Scaled /\ cause = "backend" => c.ok
<1> DEFINE F == pending_output_failures(r, a, cause) \cup r.recovery
           recovery == matching_output_failures(F, a.config, r.known)
           q == Recalled(r, recovery)
           c == commit_context(n, q, a, a.decl, FALSE)
<1>1. RecoverOutputs(n, r, a, cause) = c
  BY DEF RecoverOutputs, Recalled
<1>2. /\ KnownInv(n, q) /\ q.known = r.known /\ q.revision = r.revision
      /\ q.recovery = recovery
  BY RecalledIs
<1>3. a.decl \in Candidates
  BY DEF Accepts, AcceptedInv
<1>4. Committing(c, n, q, a)
  <2> HIDE DEF q
  <2> QED BY <1>2, <1>3, CommitStep
<1>5. ASSUME ~Scaled, cause = "backend" PROVE c.ok
  <2> DEFINE known    == r.known
             config   == Config(a.decl, known)
             failures == matching_output_failures(recovery \cup a.failures, config, known)
  <2>1. \A o \in Outputs : known[o] # Unset /\ (known[o].asking \/ known[o].arriving)
                             => output_failure(o, known, a.config) \in F
    BY <1>5 DEF pending_output_failures
  <2>2. ~Refuses(n, Plan(config, failures, known))
    <3> HIDE DEF F, known
    <3>1. known = Facts(n)
      BY DEF known
    <3> QED BY <1>5, <2>1, <3>1, RecoveryIsTaken DEF known
  <2>3. ~Refuses(n, Plan(Config(a.decl, q.known),
                         matching_output_failures(q.recovery \cup a.failures,
                                                  Config(a.decl, q.known), q.known), q.known))
    BY <1>2, <2>2
  <2> HIDE DEF q, recovery, F
  <2> QED BY <2>3 DEF commit_context
<1> QED BY <1>1, <1>4, <1>5

Freshened(c) == [c EXCEPT !.r.stale = FALSE]

LEMMA FreshenedIs ==
  ASSUME NEW m, NEW c, c = [ok |-> c.ok, n |-> c.n, r |-> c.r, a |-> c.a], KnownInv(m, c.r)
  PROVE  LET d == Freshened(c)
         IN /\ d.n = c.n /\ d.a = c.a
            /\ KnownInv(m, d.r) /\ d.r.known = c.r.known
<1> DEFINE r == c.r
           q == Looked(r, r.known, r.revision, FALSE)
           d == Freshened(c)
<1>1. /\ q = [known |-> q.known, revision |-> q.revision, stale |-> q.stale, recovery |-> q.recovery]
      /\ q.known = r.known /\ q.revision = r.revision /\ q.stale = FALSE
  <2> DEFINE no == FALSE
  <2>1. KnownInv(m, r)
    OBVIOUS
  <2> HIDE DEF r, no
  <2>2. LET p == Looked(r, r.known, r.revision, no)
        IN /\ p = [known |-> p.known, revision |-> p.revision, stale |-> p.stale,
                   recovery |-> p.recovery]
           /\ p.known = r.known /\ p.revision = r.revision /\ p.stale = no
    BY <2>1, LookedIs
  <2> QED BY <2>2 DEF no
<1>2. r = Runtime(r.known, r.revision, r.stale, r.recovery)
  <2>1. KnownInv(m, r)
    OBVIOUS
  <2> HIDE DEF r
  <2> QED BY <2>1, KnownRuntime
<1>3. [r EXCEPT !.stale = FALSE] = q
  <2> DEFINE p == [r EXCEPT !.stale = FALSE]
             k == r.known
             v == r.revision
             s == r.stale
             f == r.recovery
  <2>1. r = Runtime(k, v, s, f)
    BY <1>2
  <2> HIDE DEF k, v, s, f, r
  <2>2. r \in [known : {k}, revision : {v}, stale : {s}, recovery : {f}]
    BY <2>1 DEF Runtime
  <2>3. p \in [known : {k}, revision : {v}, stale : {FALSE}, recovery : {f}]
    BY <2>2
  <2>4. r.known = k /\ r.revision = v
    BY DEF k, v
  <2>5. q \in [known : {k}, revision : {v}, stale : {FALSE}, recovery : {f}]
    BY <2>2, <2>4 DEF Looked
  <2> HIDE DEF p, q
  <2>6. p = Runtime(k, v, FALSE, f) /\ q = Runtime(k, v, FALSE, f)
    BY <2>3, <2>5 DEF Runtime
  <2> QED BY <2>6 DEF p, r
<1> HIDE DEF q
<1>4. d.n = c.n /\ d.a = c.a /\ d.r = q
  <2> DEFINE ok == c.ok
             n == c.n
             a == c.a
  <2>1. c = [ok |-> ok, n |-> n, r |-> r, a |-> a]
    OBVIOUS
  <2>2. d = [c EXCEPT !.r = [r EXCEPT !.stale = FALSE]]
    BY DEF Freshened
  <2>3. d = [c EXCEPT !.r = q]
    BY <1>3, <2>2
  <2> HIDE DEF d, ok, n, a, r
  <2>4. c \in [ok : {ok}, n : {n}, r : {r}, a : {a}]
    BY <2>1
  <2>5. d \in [ok : {ok}, n : {n}, r : {q}, a : {a}]
    BY <2>3, <2>4
  <2> QED BY <2>5 DEF n, a
<1> HIDE DEF d
<1>5. KnownInv(m, q)
  BY <1>1 DEF KnownInv
<1> QED BY <1>1, <1>4, <1>5 DEF d

LEMMA TransactStep ==
  ASSUME NEW n, NativeInv(n), NEW r, KnownInv(n, r), Accepts(n, accepted),
         accepted.known = r.known \/ r.stale,
         NEW decl \in Candidates, NEW cause, NEW recovers \in BOOLEAN,
         Transact(n, r, decl, cause, recovers)
  PROVE  OutputsInv'
<1> DEFINE fresh == refresh_output_facts(n, r)
           tried == IF cause = "policy" THEN [ok |-> FALSE]
                    ELSE commit_context(n, fresh, accepted, decl, cause = "backend")
           blamed == IF cause = "policy" THEN cause ELSE "backend"
           after == IF tried.ok THEN Freshened(tried)
                    ELSE IF recovers THEN RecoverOutputs(n, fresh, accepted, blamed)
                    ELSE [n |-> n, r |-> fresh, a |-> accepted]
<1>1. /\ KnownInv(n, fresh) /\ fresh.known = Facts(n) /\ fresh.revision = n.revision
      /\ accepted.known = fresh.known \/ fresh.stale
  BY Refreshed
<1>2. /\ native' = after.n /\ runtime' = after.r /\ accepted' = after.a
      /\ excused' = (outputs_pending(after.n) /\ (excused \/ cause = "policy" \/ ~recovers))
  BY DEF Transact, Freshened
<1>3. \/ cause = "policy" /\ ~tried.ok
      \/ Committing(tried, n, fresh, accepted)
  <2>1. CASE cause = "policy"
    BY <2>1
  <2>2. CASE cause # "policy"
    <3>1. tried = commit_context(n, fresh, accepted, decl, cause = "backend")
      BY <2>2
    <3> HIDE DEF fresh, tried
    <3> QED BY <1>1, <3>1, CommitStep
  <2> QED BY <2>1, <2>2
<1> HIDE DEF fresh
<1>4. /\ NativeInv(after.n) /\ KnownInv(after.n, after.r) /\ Accepts(after.n, after.a)
      /\ after.a.known = after.r.known \/ after.r.stale
      /\ ~Scaled => \/ after.n.events # <<>> \/ ~outputs_pending(after.n)
                    \/ cause = "policy" \/ ~recovers
  <2>1. CASE tried.ok
    <3>1. after = Freshened(tried)
      BY <2>1
    <3>2. Committing(tried, n, fresh, accepted)
      BY <1>3, <2>1
    <3> HIDE DEF tried, after
    <3>3. /\ NativeInv(tried.n) /\ KnownInv(tried.n, tried.r) /\ Accepts(tried.n, tried.a)
          /\ tried.a.known = tried.r.known
          /\ tried.n.events # <<>> \/ ~outputs_pending(tried.n)
          /\ tried = [ok |-> tried.ok, n |-> tried.n, r |-> tried.r, a |-> tried.a]
      BY <2>1, <3>2 DEF Committing
    <3>4. /\ after.n = tried.n /\ after.a = tried.a
          /\ KnownInv(tried.n, after.r) /\ after.r.known = tried.r.known
      BY <3>1, <3>3, FreshenedIs
    <3> QED BY <3>3, <3>4
  <2>2. CASE ~tried.ok /\ recovers
    <3>1. after = RecoverOutputs(n, fresh, accepted, blamed)
      BY <2>2
    <3> HIDE DEF tried, after, blamed
    <3>2. /\ \E recovery : Committing(after, n, Recalled(fresh, recovery), accepted)
          /\ ~Scaled /\ blamed = "backend" => after.ok
      BY <1>1, <3>1, RecoverStep
    <3>3. PICK recovery : Committing(after, n, Recalled(fresh, recovery), accepted)
      BY <3>2
    <3> DEFINE q == Recalled(fresh, recovery)
    <3>4. KnownInv(n, q) /\ q.known = fresh.known /\ q.stale = fresh.stale
      BY <1>1, RecalledIs
    <3>5. cause # "policy" => blamed = "backend"
      BY DEF blamed
    <3> HIDE DEF q
    <3>6. CASE after.ok
      BY <3>3, <3>6 DEF Committing
    <3>7. CASE ~after.ok
      <4>1. after.n = n /\ after.r = q /\ after.a = accepted
        BY <3>3, <3>7 DEF Committing, q
      <4> QED BY <1>1, <3>2, <3>4, <3>5, <3>7, <4>1
    <3> QED BY <3>6, <3>7
  <2>3. CASE ~tried.ok /\ ~recovers
    <3>1. after = [n |-> n, r |-> fresh, a |-> accepted]
      BY <2>3
    <3> HIDE DEF tried, after
    <3>2. after.n = n /\ after.r = fresh /\ after.a = accepted
      BY <3>1
    <3> QED BY <1>1, <2>3, <3>2
  <2> QED BY <2>1, <2>2, <2>3
<1> HIDE DEF after, tried
<1>5. /\ NativeInv(native') /\ KnownInv(native', runtime') /\ Accepts(native', accepted')
      /\ accepted'.known = runtime'.known \/ runtime'.stale
  BY <1>2, <1>4
<1>6. (~Scaled => FailuresAreHeld)'
  <2> SUFFICES ASSUME ~Scaled, after.n.events = <<>>, ~excused', outputs_pending(after.n)
               PROVE  FALSE
    BY <1>2 DEF FailuresAreHeld, outputs_pending, Connected
  <2>1. cause # "policy" /\ recovers
    BY <1>2
  <2> QED BY <1>4, <2>1
<1> QED BY <1>5, <1>6 DEF OutputsInv

-----------------------------------------------------------------------------
(* The steps. *)

LEMMA InitInv == OutputsInit => OutputsInv
<1> SUFFICES ASSUME OutputsInit PROVE OutputsInv
  OBVIOUS
<1> DEFINE none == [o \in Outputs |-> Unset]
           chosen == CHOOSE decl \in Candidates : decl.virtual = [o \in Virtual |-> Unset]
<1>1. chosen \in Candidates
  BY OutputsAssumption
<1>2. /\ native = [screens |-> none, revision |-> 0, events |-> <<>>, next |-> 1,
                   nested |-> chosen.nested]
      /\ runtime = [known |-> none, revision |-> 0, stale |-> FALSE, recovery |-> {}]
      /\ accepted = [decl |-> chosen, config |-> Config(chosen, none), failures |-> {},
                     plan |-> none, known |-> none]
      /\ excused = FALSE
  BY DEF OutputsInit
<1> HIDE DEF chosen
<1>3. \A o \in Outputs : none[o] = Unset
  OBVIOUS
<1>4. /\ Config(chosen, none) \in [Outputs -> Configs]
      /\ ~Scaled => Config(chosen, none) = chosen.outputs
      /\ chosen.nested \in Sizes
  BY <1>1, ConfigIs
<1>5. none \in [Outputs -> Screen \cup {Unset}]
  OBVIOUS
<1>6. native.screens = none /\ native.revision = 0 /\ native.events = <<>>
  BY <1>2
<1>7. native \in Native
  BY <1>2, <1>4, <1>5 DEF Native
<1>8. Facts(native) = none
  <2>1. \A o \in Outputs : native.screens[o] = Unset
    BY <1>3, <1>6
  <2> QED BY <2>1 DEF Facts
<1>9. runtime.known = none /\ runtime.revision = 0 /\ runtime.stale = FALSE /\ runtime.recovery = {}
  BY <1>2
<1>10. /\ accepted.decl = chosen /\ accepted.config = Config(chosen, none)
       /\ accepted.failures = {} /\ accepted.plan = none /\ accepted.known = none
  BY <1>2
<1> HIDE DEF none
<1>11. NativeInv(native)
  <2>1. Len(native.events) = 0
    BY <1>6
  <2> QED BY <1>3, <1>6, <1>7, <2>1 DEF NativeInv, Base, Ordered, Told
<1>12. KnownInv(native, runtime)
  <2>1. runtime = [known |-> runtime.known, revision |-> runtime.revision,
                   stale |-> runtime.stale, recovery |-> runtime.recovery]
    BY <1>2, <1>9
  <2>2. runtime.revision \in Nat /\ runtime.revision <= native.revision
    BY <1>6, <1>9
  <2>3. runtime.stale \in BOOLEAN
    BY <1>9
  <2> QED BY <1>6, <1>8, <1>9, <2>1, <2>2, <2>3 DEF KnownInv
<1>13. Accepts(native, accepted)
  <2>1. accepted = [decl |-> accepted.decl, config |-> accepted.config,
                    failures |-> accepted.failures, plan |-> accepted.plan,
                    known |-> accepted.known]
    BY <1>2, <1>10
  <2>2. AcceptedInv(accepted)
    BY <1>1, <1>3, <1>4, <1>10, <2>1 DEF AcceptedInv
  <2>3. \A o \in Outputs : PlanHolds(native.screens[o], o, accepted)
    BY <1>3, <1>6 DEF PlanHolds
  <2> QED BY <2>2, <2>3 DEF Accepts
<1>14. FailuresAreHeld
  BY <1>3, <1>6 DEF FailuresAreHeld, outputs_pending, Connected
<1> QED BY <1>9, <1>10, <1>11, <1>12, <1>13, <1>14 DEF OutputsInv

LEMMA OutsideStep ==
  ASSUME OutputsInv, NEW m, NativeInv(m), Grows(m, native), m.events # <<>>, Outside(m)
  PROVE  OutputsInv'
<1>1. native' = m /\ runtime' = runtime /\ accepted' = accepted /\ excused' = excused
  BY DEF Outside
<1>2. NativeInv(native')
  BY <1>1
<1>3. KnownInv(native', runtime')
  <2>1. native.revision \in Nat /\ m.revision \in Nat /\ runtime.revision \in Nat
    BY DEF OutputsInv, NativeInv, Base, Ordered, Native, KnownInv
  <2>2. m = native \/ m.revision > native.revision
    BY DEF Grows
  <2>3. KnownInv(native, runtime)
    BY DEF OutputsInv
  <2>4. runtime.revision <= m.revision
    BY <2>1, <2>2, <2>3 DEF KnownInv
  <2>5. runtime.revision = m.revision => runtime.known = Facts(m)
    BY <2>1, <2>2, <2>3 DEF KnownInv
  <2>6. KnownInv(m, runtime)
    BY <2>3, <2>4, <2>5 DEF KnownInv
  <2> QED BY <1>1, <2>6
<1>4. Accepts(native', accepted')
  <2>1. \A o \in Outputs : PlanHolds(m.screens[o], o, accepted)
    BY LaterHolds DEF OutputsInv, Accepts, Grows
  <2>2. Accepts(m, accepted)
    BY <2>1 DEF OutputsInv, Accepts
  <2> QED BY <1>1, <2>2
<1>5. accepted'.known = runtime'.known \/ runtime'.stale
  BY <1>1 DEF OutputsInv
<1>6. FailuresAreHeld'
  BY <1>1 DEF FailuresAreHeld
<1> QED BY <1>2, <1>3, <1>4, <1>5, <1>6 DEF OutputsInv

LEMMA InputSteps ==
  ASSUME OutputsInv, NEW o \in Host \cup Monitors, NEW size \in Sizes,
         Leaves(o) \/ toplevel_configure(o, size) \/ Arrives(o, size)
  PROVE  OutputsInv'
<1>1. Base(native) /\ o \in Outputs
  BY DEF OutputsInv, NativeInv, Outputs
<1>2. CASE Leaves(o)
  <2>1. Outside(output_destroy(native, o))
    BY <1>2 DEF Leaves
  <2> QED BY <1>1, <2>1, DestroyStep, OutsideStep
<1>3. CASE toplevel_configure(o, size)
  <2>1. Outside(output_request(native, o, size)) /\ o \in Connected(native) /\ o \in Host
    BY <1>3 DEF toplevel_configure
  <2>2. o \notin Monitors
    BY <2>1, OutputsAssumption
  <2> QED BY <1>1, <2>1, <2>2, RequestStep, OutsideStep
<1>4. CASE Arrives(o, size)
  <2>1. Outside(output_added(native, o, size)) /\ o \in Outputs \ Connected(native)
    BY <1>1, <1>4 DEF Arrives
  <2> QED BY <1>1, <2>1, AddStep, OutsideStep
<1> QED BY <1>2, <1>3, <1>4

\* The event that is taken is the last exactly if its revision is the present one.
LEMMA Popped ==
  ASSUME NEW n, NativeInv(n), n.events # <<>>
  PROVE  LET m == Posted(n, n.revision, Tail(n.events))
             e == Head(n.events)
         IN /\ NativeInv(m) /\ m.screens = n.screens /\ m.revision = n.revision
            /\ e.revision \in Nat /\ e.revision <= n.revision
            /\ e.revision = n.revision => e.facts = Facts(n)
            /\ m.events = <<>> => e.revision = n.revision
<1> DEFINE events == Tail(n.events)
           m == Posted(n, n.revision, events)
           e == Head(n.events)
<1>1. n \in Native /\ n.events \in Seq(Event) /\ n.revision \in Nat /\ Ordered(n) /\ Told(n) /\ Base(n)
  BY DEF NativeInv, Base, Ordered, Native
<1>2. /\ Len(n.events) \in Nat /\ Len(n.events) >= 1
      /\ events \in Seq(Event) /\ Len(events) = Len(n.events) - 1
      /\ \A i \in 1..Len(events) : events[i] = n.events[i + 1]
      /\ e = n.events[1] /\ e \in Event
  BY <1>1
<1> HIDE DEF events, e
<1>3. /\ Len(n.events) \in Nat /\ Len(n.events) >= 1 /\ Len(events) = Len(n.events) - 1
      /\ e = n.events[1] /\ (events = <<>> => Len(events) = 0)
  <2>1. Len(<<>>) = 0
    OBVIOUS
  <2> QED BY <1>2, <2>1
<1>4. /\ m \in Native /\ m.screens = n.screens /\ m.revision = n.revision /\ m.events = events
  BY <1>1, <1>2, WithEvents
<1> HIDE DEF m
<1>5. Facts(m) = Facts(n)
  BY <1>4 DEF Facts
<1>6. e.revision \in Nat /\ e.revision <= n.revision
  <2>1. e.revision \in Nat
    BY <1>2 DEF Event
  <2>2. 1 \in 1..Len(n.events)
    BY <1>3
  <2>3. e.revision <= n.revision
    BY <1>1, <1>3, <2>2 DEF Ordered
  <2> QED BY <2>1, <2>3
<1>7. n.events[Len(n.events)] = [revision |-> n.revision, facts |-> Facts(n)]
  BY <1>1 DEF Told
<1>8. e.revision = n.revision => e.facts = Facts(n)
  <2> SUFFICES ASSUME e.revision = n.revision PROVE e.facts = Facts(n)
    OBVIOUS
  <2>1. Len(n.events) = 1
    <3> SUFFICES ASSUME Len(n.events) # 1 PROVE FALSE
      OBVIOUS
    <3>1. 1 \in 1..Len(n.events) /\ Len(n.events) \in 1..Len(n.events) /\ 1 < Len(n.events)
      BY <1>3
    <3>2. n.events[1].revision < n.events[Len(n.events)].revision
      BY <1>1, <3>1 DEF Ordered
    <3>3. n.events[Len(n.events)].revision = n.revision
      BY <1>7
    <3> QED BY <1>3, <1>6, <3>2, <3>3
  <2> QED BY <1>3, <1>7, <2>1
<1>9. m.events = <<>> => e.revision = n.revision
  <2> SUFFICES ASSUME m.events = <<>> PROVE e.revision = n.revision
    OBVIOUS
  <2>1. Len(n.events) = 1
    BY <1>3, <1>4
  <2> QED BY <1>3, <1>7, <2>1
<1>10. Told(m)
  <2> SUFFICES ASSUME events # <<>>
               PROVE  events[Len(events)] = [revision |-> n.revision, facts |-> Facts(n)]
    BY <1>4, <1>5 DEF Told
  <2>1. Len(events) \in 1..Len(events) /\ Len(events) + 1 = Len(n.events)
    BY <1>2
  <2> QED BY <1>2, <1>7, <2>1
<1>11. Ordered(m)
  <2>1. \A i \in 1..Len(events) : i + 1 \in 1..Len(n.events) /\ events[i] = n.events[i + 1]
    BY <1>2
  <2>2. \A i \in 1..Len(events) : events[i].revision <= n.revision
    BY <1>1, <2>1 DEF Ordered
  <2>3. ASSUME NEW i \in 1..Len(events), NEW j \in 1..Len(events), i < j
        PROVE  events[i].revision < events[j].revision
    <3>1. i + 1 \in 1..Len(n.events) /\ j + 1 \in 1..Len(n.events) /\ i + 1 < j + 1
      BY <2>1, <2>3
    <3> QED BY <1>1, <2>1, <3>1 DEF Ordered
  <2> QED BY <1>4, <2>2, <2>3 DEF Ordered
<1>12. NativeInv(m)
  BY <1>1, <1>4, <1>10, <1>11 DEF NativeInv, Base
<1> QED BY <1>4, <1>6, <1>8, <1>9, <1>12 DEF m, events, e

\* An event with news has a transaction.
LEMMA DispatchStep ==
  ASSUME OutputsInv, NEW decl \in Candidates, NEW cause, DispatchOutputs(decl, cause)
  PROVE  OutputsInv'
<1> DEFINE e == Head(native.events)
           n == Posted(native, native.revision, Tail(native.events))
           stale == runtime.stale \/ e.facts # accepted.known
           r == Looked(runtime, e.facts, e.revision, stale)
<1>0. NativeInv(native) /\ KnownInv(native, runtime) /\ Accepts(native, accepted) /\ native.events # <<>>
  BY DEF OutputsInv, DispatchOutputs
<1>1. /\ NativeInv(n) /\ n.screens = native.screens /\ n.revision = native.revision
      /\ e.revision \in Nat /\ e.revision <= native.revision
      /\ e.revision = native.revision => e.facts = Facts(native)
      /\ n.events = <<>> => e.revision = native.revision
  BY <1>0, Popped
<1>2. IF e.revision < runtime.revision \/ ~r.stale
      THEN /\ native' = n
           /\ runtime' = IF e.revision < runtime.revision THEN runtime ELSE r
           /\ UNCHANGED <<accepted, excused>>
      ELSE Transact(n, r, decl, cause, TRUE)
  <2>1. n = [native EXCEPT !.events = Tail(@)]
    BY <1>0 DEF Posted, NativeInv, Base, Ordered, Native
  <2>2. r = [runtime EXCEPT !.known = e.facts, !.revision = e.revision,
                            !.stale = @ \/ e.facts # accepted.known]
    BY <1>0, KnownRuntime DEF Looked, Runtime
  <2> HIDE DEF n, r
  <2> QED BY <2>1, <2>2 DEF DispatchOutputs
<1> HIDE DEF n, e
<1>3. Facts(n) = Facts(native) /\ Accepts(n, accepted)
  BY <1>0, <1>1 DEF Facts, Accepts
<1>4. stale \in BOOLEAN /\ stale = (runtime.stale \/ e.facts # accepted.known)
  BY <1>0 DEF KnownInv
<1> HIDE DEF stale
<1>5. /\ r = [known |-> r.known, revision |-> r.revision, stale |-> r.stale, recovery |-> r.recovery]
      /\ r.known = e.facts /\ r.revision = e.revision /\ r.stale = stale
  BY <1>0, LookedIs
<1> HIDE DEF r
<1>6. native.revision \in Nat /\ runtime.revision \in Nat /\ runtime.revision <= native.revision
  BY <1>0 DEF KnownInv, NativeInv, Base, Ordered, Native
<1>7. KnownInv(n, r)
  BY <1>1, <1>3, <1>4, <1>5 DEF KnownInv
<1>8. accepted.known = r.known \/ r.stale
  BY <1>4, <1>5
<1>9. CASE e.revision < runtime.revision
  <2>1. n.events # <<>>
    BY <1>1, <1>6, <1>9
  <2>2. KnownInv(n, runtime)
    BY <1>0, <1>1, <1>3, <2>1 DEF KnownInv
  <2>3. native' = n /\ runtime' = runtime /\ accepted' = accepted
    BY <1>2, <1>9
  <2>4. NativeInv(native') /\ KnownInv(native', runtime') /\ Accepts(native', accepted')
    BY <1>1, <1>3, <2>2, <2>3
  <2>5. accepted'.known = runtime'.known \/ runtime'.stale
    BY <2>3 DEF OutputsInv
  <2>6. FailuresAreHeld'
    BY <2>1, <2>3 DEF FailuresAreHeld
  <2> QED BY <2>4, <2>5, <2>6 DEF OutputsInv
<1>10. CASE ~(e.revision < runtime.revision) /\ ~r.stale
  <2>1. native' = n /\ runtime' = r /\ accepted' = accepted
    BY <1>2, <1>10
  <2>2. NativeInv(native') /\ KnownInv(native', runtime') /\ Accepts(native', accepted')
    BY <1>1, <1>3, <1>7, <2>1
  <2>3. accepted'.known = runtime'.known \/ runtime'.stale
    BY <1>8, <2>1
  <2>4. n.events = <<>> => ~outputs_pending(n)
    <3> SUFFICES ASSUME n.events = <<>>, NEW o \in Connected(n)
                 PROVE  n.screens[o].admitted /\ n.screens[o].deferred = Unset
      BY DEF outputs_pending
    <3>1. accepted.known = Facts(n)
      BY <1>1, <1>3, <1>5, <1>8, <1>10
    <3>2. o \in Outputs /\ n.screens[o] # Unset
      BY DEF Connected
    <3>3. n.screens \in [Outputs -> Screen \cup {Unset}]
      BY <1>1 DEF NativeInv, Base, Ordered, Native
    <3>4. ~Facts(n)[o].asking /\ ~Facts(n)[o].arriving
      BY <1>0, <3>1, <3>2, <3>3, FactsType DEF Accepts, AcceptedInv
    <3>5. Facts(n)[o].asking = (n.screens[o].deferred # Unset)
          /\ Facts(n)[o].arriving = ~n.screens[o].admitted
      BY <3>2 DEF Facts
    <3>6. n.screens[o].admitted \in BOOLEAN
      BY <3>2, <3>3 DEF Screen
    <3> QED BY <3>4, <3>5, <3>6
  <2>5. FailuresAreHeld'
    BY <2>1, <2>4 DEF FailuresAreHeld, outputs_pending, Connected
  <2> QED BY <2>2, <2>3, <2>5 DEF OutputsInv
<1>11. CASE ~(e.revision < runtime.revision) /\ r.stale
  <2>1. Transact(n, r, decl, cause, TRUE)
    BY <1>2, <1>11
  <2> QED BY <1>1, <1>3, <1>7, <1>8, <2>1, TransactStep
<1> QED BY <1>9, <1>10, <1>11

LEMMA Settles == OutputsInv => OutputsAreSettled
<1> SUFFICES ASSUME OutputsInv PROVE OutputsAreSettled
  OBVIOUS
<1>1. /\ NativeInv(native) /\ KnownInv(native, runtime) /\ Accepts(native, accepted)
      /\ accepted.known = runtime.known \/ runtime.stale
      /\ ~Scaled => FailuresAreHeld
  BY DEF OutputsInv
<1>2. OutputsAreKnown
  BY <1>1 DEF OutputsAreKnown, KnownInv
<1>3. native.screens \in [Outputs -> Screen \cup {Unset}]
  BY <1>1 DEF NativeInv, Base, Ordered, Native
<1>4. SizesAreAsAsked
  <2> SUFFICES ASSUME NEW o \in Connected(native)
               PROVE  LET s == native.screens[o]
                      IN /\ s.asked = IF s.deferred # Unset THEN s.deferred ELSE s.initial
                         /\ (native.events = <<>> /\ ~runtime.stale /\ s.current.on
                               /\ accepted.plan[o] \in {Unset, "preferred"})
                              => s.current.size = s.asked
    BY DEF SizesAreAsAsked
  <2> DEFINE s == native.screens[o]
  <2>1. o \in Outputs /\ s # Unset
    BY DEF Connected
  <2>2. ScreenOK(s, o) /\ PlanHolds(s, o, accepted)
    BY <1>1, <2>1 DEF NativeInv, Base, Accepts
  <2>3. s.asked = IF s.deferred # Unset THEN s.deferred ELSE s.initial
    BY <2>2 DEF ScreenOK
  <2>4. ASSUME native.events = <<>>, ~runtime.stale, s.current.on,
               accepted.plan[o] \in {Unset, "preferred"}
        PROVE  s.current.size = s.asked
    <3>1. accepted.known = Facts(native)
      BY <1>1, <1>2, <2>4 DEF OutputsAreKnown
    <3>2. ~Facts(native)[o].asking
      BY <1>1, <1>3, <2>1, <3>1, FactsType DEF Accepts, AcceptedInv
    <3>3. Facts(native)[o].asking = (s.deferred # Unset)
      BY <2>1 DEF Facts
    <3>4. s.asked = s.initial
      BY <2>3, <3>2, <3>3
    <3>5. s.current = On(s.initial)
      BY <2>1, <2>2, <2>4 DEF ScreenOK, PlanHolds
    <3>6. On(s.initial).size = s.initial
      BY DEF On
    <3> QED BY <3>4, <3>5, <3>6
  <2> QED BY <2>3, <2>4
<1>5. Scaled \/ FailuresAreHeld
  BY <1>1
<1> QED BY <1>2, <1>4, <1>5 DEF OutputsAreSettled

\* With no event queued, the runtime knows the outputs as they are and its policy was
\* computed from them, the latest size the outside asked for is deferred or is the
\* baseline, and with a scale of 1 nothing is left for a later transaction but what
\* something else failed.
THEOREM OutputsSettle == OutputsSpec => []OutputsAreSettled
<1>1. OutputsInit => OutputsInv
  BY InitInv
<1>2. OutputsInv /\ [OutputsNext]_outputVars => OutputsInv'
  <2> SUFFICES ASSUME OutputsInv, [OutputsNext]_outputVars PROVE OutputsInv'
    OBVIOUS
  <2>1. ASSUME NEW o \in Host \cup Monitors, Leaves(o) PROVE OutputsInv'
    <3>1. PICK size : size \in Sizes
      BY ConfigIs, OutputsAssumption
    <3> QED BY <2>1, <3>1, InputSteps
  <2>2. ASSUME NEW o \in Host \cup Monitors, NEW size \in Sizes,
               toplevel_configure(o, size) \/ Arrives(o, size)
        PROVE  OutputsInv'
    BY <2>2, InputSteps
  <2>3. ASSUME NEW decl \in Candidates, NEW cause \in Causes, DispatchOutputs(decl, cause)
        PROVE  OutputsInv'
    BY <2>3, DispatchStep
  <2>4. ASSUME NEW decl \in Candidates, NEW cause \in Causes, DispatchOther(decl, cause)
        PROVE  OutputsInv'
    <3>1. Transact(native, runtime, decl, cause, TRUE)
      BY <2>4 DEF DispatchOther
    <3> QED BY <3>1, TransactStep DEF OutputsInv
  <2>5. ASSUME NEW decl \in Candidates, NEW cause \in Causes, PrivateCallback(decl, cause)
        PROVE  OutputsInv'
    <3>1. Transact(native, runtime, decl, cause, FALSE)
      BY <2>5 DEF PrivateCallback
    <3> QED BY <3>1, TransactStep DEF OutputsInv
  <2>6. CASE UNCHANGED outputVars
    <3>1. native' = native /\ runtime' = runtime /\ accepted' = accepted /\ excused' = excused
      BY <2>6 DEF outputVars
    <3>2. FailuresAreHeld' = FailuresAreHeld
      BY <3>1 DEF FailuresAreHeld, outputs_pending, Connected
    <3> QED BY <3>1, <3>2 DEF OutputsInv
  <2> QED BY <2>1, <2>2, <2>3, <2>4, <2>5, <2>6 DEF OutputsNext
<1> QED BY <1>1, <1>2, Settles, PTL DEF OutputsSpec
=============================================================================
