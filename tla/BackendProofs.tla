---------------------------- MODULE BackendProofs ----------------------------
(***************************************************************************)
(* Machine-checked proofs about the native side: EventQueue, for every set *)
(* of surfaces, every queue capacity and every quota, Capture, for any     *)
(* sessions and copies and any sizes and versions of what is shown, and    *)
(* Keyboard, for any keyboards, codes, keymaps and shortcuts.              *)
(***************************************************************************)
EXTENDS EventQueue, Capture, Keyboard, FiniteSetTheorems, WellFoundedInduction, TLAPS

-----------------------------------------------------------------------------
(* Sequences. *)

\* Appending, as end_event does.
LEMMA AppendFacts ==
  ASSUME NEW S, NEW q \in Seq(S), NEW e \in S
  PROVE  /\ Append(q, e) \in Seq(S)
         /\ Len(Append(q, e)) = Len(q) + 1
         /\ \A i \in 1..Len(q) : Append(q, e)[i] = q[i]
         /\ Append(q, e)[Len(q) + 1] = e
OBVIOUS

\* Popping, as tomoe_next_event does.
LEMMA TailFacts ==
  ASSUME NEW S, NEW q \in Seq(S), q # <<>>
  PROVE  /\ Tail(q) \in Seq(S)
         /\ Len(q) \in Nat \ {0}
         /\ Len(Tail(q)) = Len(q) - 1
         /\ \A i \in 1..Len(Tail(q)) : Tail(q)[i] = q[i + 1]
         /\ Head(q) = q[1]
         /\ Head(q) \in S
OBVIOUS

-----------------------------------------------------------------------------
(* Types. *)

\* Every event a handler posts is an event.
LEMMA PostTypes ==
  ASSUME TypeOK, NEW e \in Event, Post(e)
  PROVE  /\ queue' \in Seq(Event)
         /\ Len(queue') <= MaxEvents
         /\ barrier' \in 0..MaxEvents
         /\ failed' \in BOOLEAN
<1>1. CASE failed
  BY <1>1 DEF Post, TypeOK, queueVars
<1>2. CASE ~failed /\ Len(queue) >= MaxEvents
  BY <1>2 DEF Post, TypeOK
<1>3. CASE ~failed /\ Len(queue) < MaxEvents
  <2>1. Len(queue) \in Nat
    BY DEF TypeOK
  <2>2. /\ queue' = Append(queue, e)
        /\ barrier' = IF observation_event(e) THEN Len(queue) + 1 ELSE barrier
        /\ failed' = failed
    BY <1>3, <2>1, QueueAssumption DEF Post
  <2>3. queue \in Seq(Event)
    BY DEF TypeOK
  <2>4. /\ queue' \in Seq(Event)
        /\ Len(queue') = Len(queue) + 1
    BY <2>2, <2>3, AppendFacts
  <2> QED
    BY <1>3, <2>1, <2>2, <2>4, QueueAssumption DEF TypeOK
<1> QED
  BY <1>1, <1>2, <1>3, QueueAssumption DEF TypeOK

LEMMA PopTypes ==
  ASSUME TypeOK, Pop
  PROVE  /\ queue' \in Seq(Event)
         /\ Len(queue') <= MaxEvents
         /\ barrier' \in 0..MaxEvents
         /\ failed' \in BOOLEAN
         /\ Head(queue) \in Event
<1>1. queue \in Seq(Event) /\ queue # <<>> /\ queue' = Tail(queue)
  BY DEF TypeOK, Pop
<1>2. /\ Tail(queue) \in Seq(Event)
      /\ Len(queue) \in Nat
      /\ Len(Tail(queue)) = Len(queue) - 1
      /\ Head(queue) \in Event
  BY <1>1, TailFacts
<1> QED
  BY <1>1, <1>2, QueueAssumption DEF TypeOK, Pop

\* Dispatching keeps the policy's side well typed.
LEMMA DispatchTypes ==
  ASSUME TypeOK, NEW e \in Event, dispatch_event(e)
  PROVE  /\ registry' \in Knowledge
         /\ effective' = effective
         /\ pending' \in BOOLEAN
         /\ busy' \in {"idle", "event"}
<1>1. Adopt(e) \in Knowledge
  <2>1. CASE Adopt(e) = registry
    BY <2>1 DEF TypeOK
  <2>2. CASE Adopt(e) # registry
    <3>1. Adopt(e) = [registry EXCEPT ![e.id] = e.fact] /\ e.type # "input"
      BY <2>2 DEF Adopt
    <3>2. e.id \in Surfaces /\ e.fact \in FactsOf(e.id) \cup {None}
      BY <3>1, QueueAssumption
      DEF Event, WindowEvent, LayerEvent, GoneEvent, InputEvent, FactsOf, Surfaces
    <3> QED
      BY <3>1, <3>2 DEF TypeOK, Knowledge, Facts, FactsOf
  <2> QED
    BY <2>1, <2>2
<1> QED
  BY <1>1 DEF TypeOK, dispatch_event

\* A handler may give a surface any fact of its kind, or retire it.
LEMMA ObserveTypes ==
  ASSUME TypeOK, NEW s \in Surfaces, NEW type, NEW fact \in FactsOf(s) \cup {None},
         [type |-> type, id |-> s, fact |-> fact] \in Event,
         Observe(s, type, fact)
  PROVE  /\ native' \in Knowledge
         /\ queue' \in Seq(Event)
         /\ Len(queue') <= MaxEvents
         /\ barrier' \in 0..MaxEvents
         /\ failed' \in BOOLEAN
<1>1. Post([type |-> type, id |-> s, fact |-> fact])
  BY DEF Observe
<1>2. native' \in Knowledge
  BY DEF Observe, TypeOK, Knowledge, Facts, FactsOf
<1> QED
  BY <1>1, <1>2, PostTypes

LEMMA SeenTypes ==
  ASSUME TypeOK
  PROVE  Seen(registry) \in [Surfaces -> Requests \cup WindowFacts \cup {None}]
BY DEF Seen, TypeOK, Knowledge, FactsOf, Requests

\* Every variable keeps its type.
THEOREM TypeCorrect == Spec => []TypeOK
<1>1. Init => TypeOK
  <2> SUFFICES ASSUME Init
               PROVE  TypeOK
    OBVIOUS
  <2>1. native \in Knowledge /\ registry \in Knowledge
    BY DEF Init, Knowledge
  <2>2. queue \in Seq(Event) /\ Len(queue) = 0
    BY DEF Init
  <2>3. effective \in [Surfaces -> Requests \cup WindowFacts \cup {None}]
    BY DEF Init
  <2>4. 0 \in 0..MaxEvents /\ 0 \in 0..Quota /\ 0 <= MaxEvents
    BY QueueAssumption
  <2>5. phase \in Phases
    BY DEF Init, Phases
  <2> QED
    BY <2>1, <2>2, <2>3, <2>4, <2>5 DEF Init, TypeOK
<1>2. ASSUME TypeOK, [Next]_vars
      PROVE  TypeOK'
  <2> USE QueueAssumption DEF QueueAssumption
  <2>1. CASE UNCHANGED vars
    BY <1>2, <2>1 DEF TypeOK, vars, surfaceVars, queueVars, policyVars, loopVars
  <2>2. ASSUME NEW w \in Windows, mapped(w)
        PROVE  TypeOK'
    <3>1. w \in Surfaces /\ "buffered" \in FactsOf(w)
      BY DEF Surfaces, FactsOf, WindowFacts
    <3>2. \A type \in {"map", "buffer"} :
            [type |-> type, id |-> w, fact |-> "buffered"] \in Event
      BY DEF Event, WindowEvent, WindowFacts
    <3>3. Observe(w, "map", "buffered") \/ Observe(w, "buffer", "buffered")
      BY <2>2 DEF mapped
    <3>4. /\ native' \in Knowledge
          /\ queue' \in Seq(Event)
          /\ Len(queue') <= MaxEvents
          /\ barrier' \in 0..MaxEvents
          /\ failed' \in BOOLEAN
      BY <1>2, <3>1, <3>2, <3>3, ObserveTypes
    <3>5. admitted' \in SUBSET Windows
      BY <1>2, <2>2 DEF mapped, TypeOK
    <3> QED
      BY <1>2, <2>2, <3>4, <3>5 DEF mapped, TypeOK, policyVars, loopVars
  <2>3. ASSUME NEW w \in Windows, unmapped(w)
        PROVE  TypeOK'
    <3>1. w \in Surfaces /\ "empty" \in FactsOf(w) \cup {None}
      BY <1>2, <2>3 DEF Surfaces, FactsOf, WindowFacts, unmapped, TypeOK, Knowledge
    <3>2. [type |-> "buffer", id |-> w, fact |-> "empty"] \in Event
      BY <1>2, <2>3, <3>1 DEF Event, WindowEvent, WindowFacts, FactsOf, unmapped, TypeOK, Knowledge
    <3>3. Observe(w, "buffer", "empty")
      BY <2>3 DEF unmapped
    <3>4. /\ native' \in Knowledge
          /\ queue' \in Seq(Event)
          /\ Len(queue') <= MaxEvents
          /\ barrier' \in 0..MaxEvents
          /\ failed' \in BOOLEAN
      BY <1>2, <3>1, <3>2, <3>3, ObserveTypes
    <3> QED
      BY <1>2, <2>3, <3>4 DEF unmapped, TypeOK, policyVars, loopVars
  <2>4. ASSUME NEW w \in Windows, window_metadata(w)
        PROVE  TypeOK'
    <3>1. w \in Surfaces /\ native[w] \in FactsOf(w) \cup {None}
      BY <1>2, <2>4 DEF Surfaces, FactsOf, WindowFacts, window_metadata, TypeOK, Knowledge
    <3>2. [type |-> "metadata", id |-> w, fact |-> native[w]] \in Event
      BY <1>2, <2>4, <3>1 DEF Event, WindowEvent, WindowFacts, FactsOf, window_metadata, TypeOK, Knowledge
    <3>3. Observe(w, "metadata", native[w])
      BY <2>4 DEF window_metadata
    <3>4. /\ native' \in Knowledge
          /\ queue' \in Seq(Event)
          /\ Len(queue') <= MaxEvents
          /\ barrier' \in 0..MaxEvents
          /\ failed' \in BOOLEAN
      BY <1>2, <3>1, <3>2, <3>3, ObserveTypes
    <3> QED
      BY <1>2, <2>4, <3>4 DEF window_metadata, TypeOK, policyVars, loopVars
  <2>5. ASSUME NEW w \in Windows, window_commit(w)
        PROVE  TypeOK'
    <3>1. w \in Surfaces /\ native[w] \in FactsOf(w) \cup {None}
      BY <1>2, <2>5 DEF Surfaces, FactsOf, WindowFacts, window_commit, TypeOK, Knowledge
    <3>2. [type |-> "geometry", id |-> w, fact |-> native[w]] \in Event
      BY <1>2, <2>5, <3>1 DEF Event, WindowEvent, WindowFacts, FactsOf, window_commit, TypeOK, Knowledge
    <3>3. Observe(w, "geometry", native[w])
      BY <2>5 DEF window_commit
    <3>4. /\ native' \in Knowledge
          /\ queue' \in Seq(Event)
          /\ Len(queue') <= MaxEvents
          /\ barrier' \in 0..MaxEvents
          /\ failed' \in BOOLEAN
      BY <1>2, <3>1, <3>2, <3>3, ObserveTypes
    <3> QED
      BY <1>2, <2>5, <3>4 DEF window_commit, TypeOK, policyVars, loopVars
  <2>6. ASSUME NEW w \in Windows, window_destroy(w)
        PROVE  TypeOK'
    <3>1. w \in Surfaces /\ None \in FactsOf(w) \cup {None}
      BY <1>2, <2>6 DEF Surfaces, FactsOf, WindowFacts, window_destroy, TypeOK, Knowledge
    <3>2. [type |-> "unmap", id |-> w, fact |-> None] \in Event
      BY <1>2, <2>6, <3>1 DEF Event, GoneEvent, WindowFacts, FactsOf, window_destroy, TypeOK, Knowledge
    <3>3. Observe(w, "unmap", None)
      BY <2>6 DEF window_destroy
    <3>4. /\ native' \in Knowledge
          /\ queue' \in Seq(Event)
          /\ Len(queue') <= MaxEvents
          /\ barrier' \in 0..MaxEvents
          /\ failed' \in BOOLEAN
      BY <1>2, <3>1, <3>2, <3>3, ObserveTypes
    <3> QED
      BY <1>2, <2>6, <3>4 DEF window_destroy, TypeOK, policyVars, loopVars
  <2>7. ASSUME NEW l \in Layers, layer_unmap(l)
        PROVE  TypeOK'
    <3>1. l \in Surfaces /\ None \in FactsOf(l) \cup {None}
      BY <2>7 DEF Surfaces, FactsOf
    <3>2. [type |-> "unmap", id |-> l, fact |-> None] \in Event
      BY <3>1 DEF Event, GoneEvent, FactsOf
    <3>3. Observe(l, "unmap", None)
      BY <2>7 DEF layer_unmap
    <3>4. /\ native' \in Knowledge
          /\ queue' \in Seq(Event)
          /\ Len(queue') <= MaxEvents
          /\ barrier' \in 0..MaxEvents
          /\ failed' \in BOOLEAN
      BY <1>2, <3>1, <3>2, <3>3, ObserveTypes
    <3> QED
      BY <1>2, <2>7, <3>4 DEF layer_unmap, TypeOK, policyVars, loopVars
  <2>8. ASSUME NEW l \in Layers, NEW state \in LayerStates, layer_commit(l, state)
        PROVE  TypeOK'
    <3>1. l \in Surfaces /\ state \in FactsOf(l) \cup {None}
      BY <2>8 DEF Surfaces, FactsOf
    <3>2. [type |-> "layer", id |-> l, fact |-> state] \in Event
      BY <3>1 DEF Event, LayerEvent, FactsOf
    <3>3. Observe(l, "layer", state)
      BY <2>8 DEF layer_commit
    <3>4. /\ native' \in Knowledge
          /\ queue' \in Seq(Event)
          /\ Len(queue') <= MaxEvents
          /\ barrier' \in 0..MaxEvents
          /\ failed' \in BOOLEAN
      BY <1>2, <3>1, <3>2, <3>3, ObserveTypes
    <3> QED
      BY <1>2, <2>8, <3>4 DEF layer_commit, TypeOK, policyVars, loopVars
  <2>9. ASSUME NEW l \in Layers, NEW state \in LayerStates, layers_publish_presentation(l, state)
        PROVE  TypeOK'
    <3>1. l \in Surfaces /\ state \in FactsOf(l) \cup {None}
      BY <2>9 DEF Surfaces, FactsOf
    <3>2. [type |-> "layer", id |-> l, fact |-> state] \in Event
      BY <3>1 DEF Event, LayerEvent, FactsOf
    <3>3. Observe(l, "layer", state)
      BY <2>9 DEF layers_publish_presentation
    <3>4. /\ native' \in Knowledge
          /\ queue' \in Seq(Event)
          /\ Len(queue') <= MaxEvents
          /\ barrier' \in 0..MaxEvents
          /\ failed' \in BOOLEAN
      BY <1>2, <3>1, <3>2, <3>3, ObserveTypes
    <3> QED
      BY <1>2, <2>9, <3>4 DEF layers_publish_presentation, TypeOK, policyVars, loopVars
  <2>10. CASE input_event
    <3>1. [type |-> "input", id |-> None, fact |-> None] \in Event
      BY DEF Event, InputEvent
    <3>2. /\ queue' \in Seq(Event)
          /\ Len(queue') <= MaxEvents
          /\ barrier' \in 0..MaxEvents
          /\ failed' \in BOOLEAN
      BY <1>2, <2>10, <3>1, PostTypes DEF input_event
    <3> QED
      BY <1>2, <2>10, <3>2 DEF input_event, TypeOK, surfaceVars, policyVars, loopVars
  <2>11. CASE Drain \/ Reconcile
    <3>1. Pop /\ dispatch_event(Head(queue))
      BY <2>11 DEF Drain, Reconcile
    <3>2. /\ queue' \in Seq(Event)
          /\ Len(queue') <= MaxEvents
          /\ barrier' \in 0..MaxEvents
          /\ failed' \in BOOLEAN
          /\ Head(queue) \in Event
      BY <1>2, <3>1, PopTypes
    <3>3. /\ registry' \in Knowledge
          /\ effective' = effective
          /\ pending' \in BOOLEAN
          /\ busy' \in {"idle", "event"}
      BY <1>2, <3>1, <3>2, DispatchTypes
    <3>4. delivered' \in 0..Quota
      BY <1>2, <2>11 DEF Drain, Reconcile, TypeOK, loopVars
    <3> QED
      BY <1>2, <2>11, <3>2, <3>3, <3>4 DEF Drain, Reconcile, TypeOK, surfaceVars, loopVars
  <2>12. CASE StepDone \/ DrainYield \/ NextService \/ StopRequest
    <3>1. phase' \in Phases
      BY <1>2, <2>12
      DEF StepDone, DrainYield, NextService, StopRequest, TypeOK, Phases
    <3>2. delivered' \in 0..Quota
      BY <1>2, <2>12 DEF StepDone, DrainYield, NextService, StopRequest, TypeOK
    <3>3. stop' \in BOOLEAN
      BY <1>2, <2>12 DEF StepDone, DrainYield, NextService, StopRequest, TypeOK
    <3>4. UNCHANGED <<surfaceVars, queueVars, policyVars>>
      BY <2>12 DEF StepDone, DrainYield, NextService, StopRequest
    <3> QED
      BY <1>2, <3>1, <3>2, <3>3, <3>4 DEF TypeOK, surfaceVars, queueVars, policyVars
  <2>13. CASE PrivateCallback \/ SystemCallback
    <3>1. phase' \in Phases
      BY <1>2, <2>13 DEF PrivateCallback, SystemCallback, TypeOK, Phases
    <3>2. delivered' \in 0..Quota
      BY <1>2, <2>13 DEF PrivateCallback, SystemCallback, TypeOK
    <3>3. /\ pending' \in BOOLEAN
          /\ busy' \in {"private", "system"}
      BY <1>2, <2>13 DEF PrivateCallback, SystemCallback, TypeOK
    <3>4. UNCHANGED <<surfaceVars, queueVars, registry, effective, stop>>
      BY <2>13 DEF PrivateCallback, SystemCallback
    <3> QED
      BY <1>2, <3>1, <3>2, <3>3, <3>4 DEF TypeOK, surfaceVars, queueVars
  <2>14. CASE Accept \/ Reject
    BY <1>2, <2>14, SeenTypes
    DEF Accept, Reject, TypeOK, surfaceVars, queueVars, loopVars
  <2> QED
    BY <1>2, <2>1, <2>2, <2>3, <2>4, <2>5, <2>6, <2>7, <2>8, <2>9, <2>10, <2>11,
       <2>12, <2>13, <2>14
    DEF Next, Client, Loop, Callback, Publish
<1> QED
  BY <1>1, <1>2, PTL DEF Spec

-----------------------------------------------------------------------------
(* The steps, seen from the queue. *)

\* What an event posted now looks like, without its effect on the surfaces.
Appended(e) ==
  /\ queue' \in Seq(Event)
  /\ Len(queue') = Len(queue) + 1
  /\ \A i \in 1..Len(queue) : queue'[i] = queue[i]
  /\ queue'[Len(queue) + 1] = e

LEMMA PostAppends ==
  ASSUME TypeOK, NEW e \in Event, Post(e), ~failed'
  PROVE  /\ ~failed
         /\ Appended(e)
         /\ barrier' = IF observation_event(e) THEN Len(queue) + 1 ELSE barrier
<1>1. ~failed
  BY DEF Post, queueVars
<1>2. Len(queue) < MaxEvents
  BY <1>1, QueueAssumption DEF Post, TypeOK
<1>3. /\ queue' = Append(queue, e)
      /\ barrier' = IF observation_event(e) THEN Len(queue) + 1 ELSE barrier
  BY <1>1, <1>2, QueueAssumption DEF Post, TypeOK
<1>4. Appended(e)
  BY <1>3, AppendFacts DEF Appended, TypeOK
<1> QED
  BY <1>1, <1>3, <1>4

\* What is left of the queue once its head is popped.
Shifted ==
  /\ Len(queue) \in Nat \ {0}
  /\ Len(queue') = Len(queue) - 1
  /\ \A i \in 1..Len(queue') : queue'[i] = queue[i + 1]
  /\ Head(queue) = queue[1]
  /\ Head(queue) \in Event

LEMMA PopShifts ==
  ASSUME TypeOK, Pop
  PROVE  /\ Shifted
         /\ barrier' = IF barrier > 0 THEN barrier - 1 ELSE barrier
         /\ failed' = failed
<1>1. queue \in Seq(Event) /\ queue # <<>> /\ queue' = Tail(queue)
  BY DEF TypeOK, Pop
<1>2. Shifted
  BY <1>1, TailFacts DEF Shifted
<1> QED
  BY <1>2 DEF Pop

\* A surface handler: what it may say of s, and when.
Announces(s, e) ==
  /\ e \in Event /\ e.id = s
  /\ Post(e)
  /\ native' = [native EXCEPT ![s] = e.fact]
  /\ UNCHANGED <<registry, pending, effective>>
  /\ e.type = "map" => s \notin admitted /\ admitted' = admitted \cup {s}
  /\ e.type # "map" => admitted' = admitted
  /\ e.type \in {"metadata", "buffer", "geometry", "unmap"} => native[s] # None
  /\ e.type = "geometry" => e.fact = native[s]

Consumes ==
  /\ Pop
  /\ dispatch_event(Head(queue))
  /\ UNCHANGED <<native, admitted>>

\* Every step of the system is one of four kinds.
LEMMA StepKinds ==
  ASSUME TypeOK, [Next]_vars
  PROVE  \/ \E s \in Surfaces, e \in Event : Announces(s, e)
         \/ /\ Post([type |-> "input", id |-> None, fact |-> None])
            /\ UNCHANGED <<native, admitted, registry, pending, effective>>
         \/ Consumes
         \/ /\ UNCHANGED <<native, admitted, queue, barrier, failed, registry>>
            /\ \/ effective' = effective /\ (~pending' => ~pending)
               \/ effective' = Seen(registry)
<1> USE QueueAssumption DEF QueueAssumption
<1>1. ASSUME NEW w \in Windows,
             mapped(w) \/ unmapped(w) \/ window_metadata(w) \/ window_commit(w) \/ window_destroy(w)
      PROVE  \E e \in Event : Announces(w, e)
  <2>0. /\ w \in Surfaces
        /\ w \notin Layers
        /\ native[w] \in WindowFacts \cup {None}
        /\ None \notin WindowFacts
    BY <1>1 DEF TypeOK, Knowledge, FactsOf, Surfaces, Facts
  <2>1. CASE mapped(w) /\ w \notin admitted
    <3> DEFINE e == [type |-> "map", id |-> w, fact |-> "buffered"]
    <3>1. e \in Event
      BY DEF Event, WindowEvent, WindowFacts
    <3>2. CASE Observe(w, "map", "buffered") /\ admitted' = admitted \cup {w}
      <4>1. Announces(w, e)
        BY <2>1, <3>1, <3>2 DEF Announces, Observe, mapped, policyVars
      <4> QED
        BY <3>1, <4>1
    <3>3. CASE native[w] = "empty" /\ Observe(w, "buffer", "buffered") /\ admitted' = admitted
      <4> DEFINE f == [type |-> "buffer", id |-> w, fact |-> "buffered"]
      <4>1. f \in Event
        BY DEF Event, WindowEvent, WindowFacts
      <4>2. native[w] # None
        BY <2>0, <3>3 DEF WindowFacts
      <4>3. Announces(w, f)
        BY <2>1, <3>3, <4>1, <4>2 DEF Announces, Observe, mapped, policyVars
      <4> QED
        BY <4>1, <4>3
    <3> QED
      BY <2>1, <3>2, <3>3 DEF mapped
  <2>2. CASE mapped(w) /\ w \in admitted
    <3> DEFINE e == [type |-> "buffer", id |-> w, fact |-> "buffered"]
    <3>1. e \in Event
      BY DEF Event, WindowEvent, WindowFacts
    <3>2. native[w] # None
      BY <2>0, <2>2 DEF mapped, WindowFacts
    <3>3. Announces(w, e)
      BY <2>2, <3>1, <3>2 DEF Announces, Observe, mapped, policyVars
    <3> QED
      BY <3>1, <3>3
  <2>3. CASE unmapped(w)
    <3> DEFINE e == [type |-> "buffer", id |-> w, fact |-> "empty"]
    <3>1. e \in Event
      BY DEF Event, WindowEvent, WindowFacts
    <3>2. native[w] # None
      BY <2>0, <2>3 DEF unmapped, WindowFacts
    <3>3. Announces(w, e)
      BY <2>3, <3>1, <3>2 DEF Announces, Observe, unmapped, policyVars
    <3> QED
      BY <3>1, <3>3
  <2>4. CASE window_metadata(w)
    <3> DEFINE e == [type |-> "metadata", id |-> w, fact |-> native[w]]
    <3>1. e \in Event
      BY <2>0, <2>4 DEF Event, WindowEvent, window_metadata
    <3>2. Announces(w, e)
      BY <2>4, <3>1 DEF Announces, Observe, window_metadata, policyVars
    <3> QED
      BY <3>1, <3>2
  <2>5. CASE window_commit(w)
    <3> DEFINE e == [type |-> "geometry", id |-> w, fact |-> native[w]]
    <3>1. native[w] # None
      BY <2>0, <2>5 DEF window_commit, WindowFacts
    <3>2. e \in Event
      BY <2>0, <3>1 DEF Event, WindowEvent
    <3>3. Announces(w, e)
      BY <2>5, <3>1, <3>2 DEF Announces, Observe, window_commit, policyVars
    <3> QED
      BY <3>2, <3>3
  <2>6. CASE window_destroy(w)
    <3> DEFINE e == [type |-> "unmap", id |-> w, fact |-> None]
    <3>1. e \in Event
      BY <2>0 DEF Event, GoneEvent
    <3>2. Announces(w, e)
      BY <2>6, <3>1 DEF Announces, Observe, window_destroy, policyVars
    <3> QED
      BY <3>1, <3>2
  <2> QED
    BY <1>1, <2>1, <2>2, <2>3, <2>4, <2>5, <2>6
<1>2. ASSUME NEW l \in Layers, layer_unmap(l)
      PROVE  \E e \in Event : Announces(l, e)
  <2> DEFINE e == [type |-> "unmap", id |-> l, fact |-> None]
  <2>1. e \in Event
    BY DEF Event, GoneEvent, Surfaces
  <2>2. Announces(l, e)
    BY <1>2, <2>1 DEF Announces, Observe, layer_unmap, policyVars
  <2> QED
    BY <2>1, <2>2
<1>3. ASSUME NEW l \in Layers, NEW state \in LayerStates,
             layer_commit(l, state) \/ layers_publish_presentation(l, state)
      PROVE  \E e \in Event : Announces(l, e)
  <2> DEFINE e == [type |-> "layer", id |-> l, fact |-> state]
  <2>1. e \in Event
    BY DEF Event, LayerEvent
  <2>2. Announces(l, e)
    BY <1>3, <2>1 DEF Announces, Observe, layer_commit, layers_publish_presentation, policyVars
  <2> QED
    BY <2>1, <2>2
<1>4. CASE input_event
  BY <1>4 DEF input_event, surfaceVars, policyVars
<1>5. CASE Drain \/ Reconcile
  BY <1>5 DEF Drain, Reconcile, Consumes, surfaceVars
<1>6. CASE StepDone \/ DrainYield \/ NextService \/ StopRequest \/ UNCHANGED vars
  BY <1>6 DEF StepDone, DrainYield, NextService, StopRequest, vars, surfaceVars, queueVars, policyVars
<1>7. CASE PrivateCallback \/ SystemCallback
  BY <1>7 DEF PrivateCallback, SystemCallback, surfaceVars, queueVars
<1>8. CASE Accept \/ Reject
  BY <1>8 DEF Accept, Reject, surfaceVars, queueVars
<1> QED
  BY <1>1, <1>2, <1>3, <1>4, <1>5, <1>6, <1>7, <1>8
  DEF Next, Client, Loop, Callback, Publish, Surfaces

-----------------------------------------------------------------------------
(* The barrier. *)

LEMMA BarrierStep ==
  ASSUME TypeOK, BarrierMarksLastObservation, [Next]_vars
  PROVE  BarrierMarksLastObservation'
<1> USE DEF BarrierMarksLastObservation
<1>1. ASSUME NEW e \in Event, Post(e)
      PROVE  BarrierMarksLastObservation'
  <2>1. CASE failed'
    <3>1. UNCHANGED <<queue, barrier>>
      BY <1>1, <2>1 DEF Post, TypeOK, queueVars
    <3> QED
      BY <3>1 DEF observation_event
  <2>2. CASE ~failed'
    <3>1. /\ Appended(e)
          /\ barrier' = IF observation_event(e) THEN Len(queue) + 1 ELSE barrier
      BY <1>1, <2>2, PostAppends
    <3>2. Len(queue) \in Nat /\ barrier \in Nat
      BY QueueAssumption DEF TypeOK
    <3>3. CASE observation_event(e)
      BY <3>1, <3>2, <3>3 DEF Appended, observation_event
    <3>4. CASE ~observation_event(e)
      BY <3>1, <3>2, <3>4 DEF Appended, observation_event
    <3> QED
      BY <3>3, <3>4
  <2> QED
    BY <2>1, <2>2
<1>2. CASE Consumes
  <2>1. /\ Shifted
        /\ barrier' = IF barrier > 0 THEN barrier - 1 ELSE barrier
    BY <1>2, PopShifts DEF Consumes
  <2>2. barrier \in Nat
    BY QueueAssumption DEF TypeOK
  <2>3. barrier' <= Len(queue')
    BY <2>1, <2>2 DEF Shifted
  <2>4. ASSUME barrier' > 0
        PROVE  observation_event(queue'[barrier'])
    <3>1. barrier > 0 /\ barrier' = barrier - 1
      BY <2>1, <2>2, <2>4
    <3>2. queue'[barrier'] = queue[barrier]
      BY <2>1, <2>2, <2>3, <2>4, <3>1 DEF Shifted
    <3> QED
      BY <3>1, <3>2 DEF observation_event
  <2>5. ASSUME NEW i \in 1..Len(queue'), i > barrier'
        PROVE  ~observation_event(queue'[i])
    <3>1. i + 1 \in 1..Len(queue) /\ i + 1 > barrier /\ queue'[i] = queue[i + 1]
      BY <2>1, <2>2, <2>5 DEF Shifted
    <3> QED
      BY <3>1 DEF observation_event
  <2> QED
    BY <2>3, <2>4, <2>5 DEF observation_event
<1>3. CASE UNCHANGED <<queue, barrier>>
  BY <1>3 DEF observation_event
<1>4. [type |-> "input", id |-> None, fact |-> None] \in Event
  BY DEF Event, InputEvent
<1> QED
  BY <1>1, <1>2, <1>3, <1>4, StepKinds DEF Announces

\* The fence never outlives the queue: popping until the barrier is zero never
\* finds the queue empty, and no observation is left behind.
THEOREM BarrierIsExact == Spec => []BarrierMarksLastObservation
<1>1. Init => BarrierMarksLastObservation
  BY DEF Init, BarrierMarksLastObservation
<1>2. TypeOK /\ BarrierMarksLastObservation /\ [Next]_vars => BarrierMarksLastObservation'
  BY BarrierStep
<1> QED
  BY <1>1, <1>2, TypeCorrect, PTL DEF Spec

-----------------------------------------------------------------------------
(* The registry.  "No outstanding observation means an exact registry" is  *)
(* not inductive: what the queue still says of a surface has to be known.  *)

\* An event that says whether surface s is there and in which state.
About(e, s) == e.id = s /\ e.type \notin {"geometry", "input"}

\* Nothing is queued about s: the registry is right about it.
Settled(s) ==
  (\A i \in 1..Len(queue) : ~About(queue[i], s)) => registry[s] = native[s]

\* The last event queued about s says what the native side has.
LastWord(s) ==
  \A i \in 1..Len(queue) :
    /\ About(queue[i], s)
    /\ \A j \in 1..Len(queue) : j > i => ~About(queue[j], s)
    => queue[i].fact = native[s]

\* A buffer event finds its window registered when its turn comes.
BufferKnown(s) ==
  \A i \in 1..Len(queue) :
    About(queue[i], s) /\ queue[i].type = "buffer"
    => \/ registry[s] # None
       \/ \E j \in 1..Len(queue) : j < i /\ About(queue[j], s)

\* A window's unmap event is the last one about it.
Farewell(s) ==
  s \in Windows =>
    /\ native[s] # None => s \in admitted
    /\ \A i \in 1..Len(queue) :
         About(queue[i], s) /\ queue[i].type = "unmap"
         => /\ native[s] = None
            /\ s \in admitted
            /\ \A j \in 1..Len(queue) : j > i => ~About(queue[j], s)

SurfaceInv(s) == Settled(s) /\ LastWord(s) /\ BufferKnown(s) /\ Farewell(s)

RegistryInv == ~failed => \A s \in Surfaces : SurfaceInv(s)

LEMMA EventShape ==
  ASSUME NEW e \in Event
  PROVE  /\ e.type \in {"map", "metadata", "buffer", "geometry", "layer", "unmap", "input"}
         /\ e.type = "unmap" => e.fact = None
         /\ e.type \notin {"unmap", "input"} => e.fact # None
         /\ e.type \in {"map", "metadata", "buffer", "geometry"} => e.id \in Windows
         /\ e.type = "layer" => e.id \in Layers
         /\ e.type # "input" => e.id \in Surfaces
BY QueueAssumption
DEF Event, WindowEvent, LayerEvent, GoneEvent, InputEvent, Facts, WindowFacts, Surfaces

\* An event that does not concern s leaves what is known of s alone.
LEMMA AppendOther ==
  ASSUME TypeOK, NEW s \in Surfaces, SurfaceInv(s), NEW e \in Event,
         Appended(e), ~About(e, s), native'[s] = native[s], registry' = registry,
         s \in admitted' <=> s \in admitted
  PROVE  SurfaceInv(s)'
<1>1. Len(queue) \in Nat
  BY DEF TypeOK
<1>2. Settled(s)'
  BY <1>1 DEF SurfaceInv, Settled, Appended, About
<1>3. LastWord(s)'
  BY <1>1 DEF SurfaceInv, LastWord, Appended, About
<1>4. BufferKnown(s)'
  BY <1>1 DEF SurfaceInv, BufferKnown, Appended, About
<1>5. Farewell(s)'
  BY <1>1 DEF SurfaceInv, Farewell, Appended, About
<1> QED
  BY <1>2, <1>3, <1>4, <1>5 DEF SurfaceInv

\* A handler's announcement about s becomes the last word about s.
LEMMA AppendAbout ==
  ASSUME TypeOK, NEW s \in Surfaces, SurfaceInv(s), NEW e \in Event,
         Appended(e), About(e, s), Announces(s, e)
  PROVE  SurfaceInv(s)'
<1>1. Len(queue) \in Nat
  BY DEF TypeOK
<1>2. native'[s] = e.fact /\ registry' = registry
  BY DEF Announces, TypeOK, Knowledge
<1>3. Settled(s)'
  BY <1>1 DEF Settled, Appended, About
<1>4. LastWord(s)'
  BY <1>1, <1>2 DEF LastWord, Appended, About
<1>5. BufferKnown(s)'
  <2>1. ASSUME e.type = "buffer", registry[s] = None
        PROVE  \E j \in 1..Len(queue) : About(queue[j], s)
    BY <2>1 DEF Announces, SurfaceInv, Settled
  <2> QED
    BY <1>1, <1>2, <2>1 DEF SurfaceInv, BufferKnown, Appended, About
<1>6. Farewell(s)'
  <2> SUFFICES ASSUME s \in Windows
               PROVE  Farewell(s)'
    BY DEF Farewell
  <2>1. \A i \in 1..Len(queue) : About(queue[i], s) => queue[i].type # "unmap"
    BY EventShape, QueueAssumption DEF Announces, About, SurfaceInv, Farewell
  <2>2. e.type = "unmap" => e.fact = None
    BY EventShape
  <2>3. s \in admitted'
    BY EventShape, QueueAssumption DEF Announces, About, SurfaceInv, Farewell
  <2> QED
    BY <1>1, <1>2, <2>1, <2>2, <2>3 DEF Farewell, Appended, About
<1> QED
  BY <1>3, <1>4, <1>5, <1>6 DEF SurfaceInv

\* Adopting the head of the queue makes the registry say of its surface what
\* the event says, and changes nothing else.
LEMMA AdoptHead ==
  ASSUME TypeOK, NEW s \in Surfaces, SurfaceInv(s), Consumes
  PROVE  /\ About(Head(queue), s) => registry'[s] = Head(queue).fact
         /\ ~About(Head(queue), s) => registry'[s] = registry[s]
<1> DEFINE e == Head(queue)
<1>1. /\ Len(queue) \in Nat \ {0} /\ e = queue[1] /\ e \in Event
      /\ registry' = Adopt(e)
  BY PopShifts DEF Consumes, Shifted, dispatch_event
<1>2. e.type = "buffer" /\ About(e, s) => registry[s] # None
  BY <1>1 DEF SurfaceInv, BufferKnown
<1>3. About(e, s) => e.type \in {"map", "metadata", "buffer", "layer", "unmap"}
  BY <1>1, EventShape DEF About
<1>4. CASE About(e, s)
  <2>1. registry' = [registry EXCEPT ![e.id] = e.fact] /\ e.id = s
    BY <1>1, <1>2, <1>3, <1>4 DEF Adopt, About
  <2> QED
    BY <1>4, <2>1 DEF TypeOK, Knowledge
<1>5. CASE ~About(e, s)
  <2>1. CASE e.type \in {"geometry", "input"}
    BY <1>1, <1>5, <2>1 DEF Adopt
  <2>2. CASE e.id # s
    BY <1>1, <1>5, <2>2 DEF Adopt, TypeOK, Knowledge
  <2> QED
    BY <1>5, <2>1, <2>2 DEF About
<1> QED
  BY <1>4, <1>5

LEMMA PopKeeps ==
  ASSUME TypeOK, NEW s \in Surfaces, SurfaceInv(s), Consumes
  PROVE  SurfaceInv(s)'
<1> DEFINE e == Head(queue)
<1>1. /\ Shifted
      /\ native' = native /\ admitted' = admitted
  BY PopShifts DEF Consumes
<1>2. /\ Len(queue) \in Nat \ {0}
      /\ Len(queue') = Len(queue) - 1
      /\ e = queue[1] /\ e \in Event
      /\ \A i \in 1..Len(queue') : i + 1 \in 1..Len(queue) /\ queue'[i] = queue[i + 1]
      /\ \A i \in 1..Len(queue) : i = 1 \/ (i - 1 \in 1..Len(queue') /\ queue'[i - 1] = queue[i])
  BY <1>1 DEF Shifted
<1>3. /\ About(e, s) => registry'[s] = e.fact
      /\ ~About(e, s) => registry'[s] = registry[s]
  BY AdoptHead
<1>4. Settled(s)'
  <2> SUFFICES ASSUME \A i \in 1..Len(queue') : ~About(queue'[i], s)
               PROVE  registry'[s] = native[s]
    BY <1>1 DEF Settled, About
  <2>1. \A i \in 1..Len(queue) : i # 1 => ~About(queue[i], s)
    BY <1>2
  <2>2. CASE About(e, s)
    BY <1>2, <1>3, <2>1, <2>2 DEF SurfaceInv, LastWord
  <2>3. CASE ~About(e, s)
    BY <1>2, <1>3, <2>1, <2>3 DEF SurfaceInv, Settled
  <2> QED
    BY <2>2, <2>3
<1>5. LastWord(s)'
  <2> SUFFICES ASSUME NEW i \in 1..Len(queue'), About(queue'[i], s),
                      \A j \in 1..Len(queue') : j > i => ~About(queue'[j], s)
               PROVE  queue'[i].fact = native[s]
    BY <1>1 DEF LastWord, About
  <2>1. \A j \in 1..Len(queue) : j > i + 1 => ~About(queue[j], s)
    BY <1>2
  <2> QED
    BY <1>2, <2>1 DEF SurfaceInv, LastWord
<1>6. BufferKnown(s)'
  <2> SUFFICES ASSUME NEW i \in 1..Len(queue'), About(queue'[i], s),
                      queue'[i].type = "buffer",
                      \A j \in 1..Len(queue') : j < i => ~About(queue'[j], s)
               PROVE  registry'[s] # None
    BY DEF BufferKnown, About
  <2>1. /\ i + 1 \in 1..Len(queue)
        /\ About(queue[i + 1], s) /\ queue[i + 1].type = "buffer"
    BY <1>2
  <2>2. ASSUME NEW j \in 1..Len(queue), j < i + 1, j # 1
        PROVE  ~About(queue[j], s)
    <3>1. j - 1 \in 1..Len(queue') /\ queue'[j - 1] = queue[j]
      BY <1>2, <2>2
    <3>2. j - 1 < i
      BY <2>2
    <3> QED
      BY <3>1, <3>2
  <2>3. CASE About(e, s)
    <3>1. queue[i + 1] \in Event
      BY <2>1 DEF TypeOK
    <3>2. s \in Windows
      BY <2>1, <3>1, EventShape DEF About
    <3>3. e.type # "unmap"
      BY <1>2, <2>1, <2>3, <3>2 DEF SurfaceInv, Farewell
    <3>4. e.fact # None
      BY <1>2, <2>3, <3>3, EventShape DEF About
    <3> QED
      BY <1>3, <2>3, <3>4
  <2>4. CASE ~About(e, s)
    BY <1>2, <1>3, <2>1, <2>2, <2>4 DEF SurfaceInv, BufferKnown
  <2> QED
    BY <2>3, <2>4
<1>7. Farewell(s)'
  <2> SUFFICES ASSUME s \in Windows
               PROVE  Farewell(s)'
    BY DEF Farewell
  <2>1. native'[s] # None => s \in admitted'
    BY <1>1 DEF SurfaceInv, Farewell
  <2>2. ASSUME NEW i \in 1..Len(queue'), About(queue'[i], s), queue'[i].type = "unmap"
        PROVE  /\ native'[s] = None
               /\ s \in admitted'
               /\ \A j \in 1..Len(queue') : j > i => ~About(queue'[j], s)
    <3>1. /\ native[s] = None
          /\ s \in admitted
          /\ \A j \in 1..Len(queue) : j > i + 1 => ~About(queue[j], s)
      BY <1>2, <2>2 DEF SurfaceInv, Farewell
    <3> QED
      BY <1>1, <1>2, <3>1
  <2> QED
    BY <2>1, <2>2 DEF Farewell, About
<1> QED
  BY <1>4, <1>5, <1>6, <1>7 DEF SurfaceInv

LEMMA RegistryStep ==
  ASSUME TypeOK, RegistryInv, [Next]_vars
  PROVE  RegistryInv'
<1> SUFFICES ASSUME ~failed', NEW s \in Surfaces
             PROVE  SurfaceInv(s)'
  BY DEF RegistryInv
<1>1. ASSUME NEW t \in Surfaces, NEW e \in Event, Announces(t, e)
      PROVE  SurfaceInv(s)'
  <2>1. /\ Appended(e)
        /\ SurfaceInv(s)
    BY <1>1, PostAppends DEF RegistryInv, Announces
  <2>2. CASE About(e, s)
    <3>1. t = s
      BY <1>1, <2>2 DEF About, Announces
    <3> QED
      BY <1>1, <2>1, <2>2, <3>1, AppendAbout
  <2>3. CASE ~About(e, s)
    <3>1. native'[s] = native[s]
      <4>1. CASE t # s
        BY <1>1, <4>1 DEF Announces, TypeOK, Knowledge
      <4>2. CASE t = s
        <5>1. e.type # "input"
          BY <1>1, QueueAssumption
          DEF Announces, Event, InputEvent, WindowEvent, LayerEvent, GoneEvent
        <5>2. e.type = "geometry"
          BY <1>1, <2>3, <4>2, <5>1 DEF About, Announces
        <5> QED
          BY <1>1, <4>2, <5>2 DEF Announces, TypeOK, Knowledge
      <4> QED
        BY <4>1, <4>2
    <3>2. s \in admitted' <=> s \in admitted
      BY <1>1, <2>3, EventShape DEF Announces, About
    <3> QED
      BY <1>1, <2>1, <2>3, <3>1, <3>2, AppendOther DEF Announces
  <2> QED
    BY <2>2, <2>3
<1>2. ASSUME Post([type |-> "input", id |-> None, fact |-> None]),
             UNCHANGED <<native, admitted, registry>>
      PROVE  SurfaceInv(s)'
  <2> DEFINE e == [type |-> "input", id |-> None, fact |-> None]
  <2>1. e \in Event
    BY DEF Event, InputEvent
  <2>2. Appended(e) /\ SurfaceInv(s)
    BY <1>2, <2>1, PostAppends DEF RegistryInv
  <2>3. ~About(e, s)
    BY DEF About
  <2> QED
    BY <1>2, <2>1, <2>2, <2>3, AppendOther
<1>3. CASE Consumes
  <2>1. SurfaceInv(s)
    BY <1>3, PopShifts DEF RegistryInv, Consumes
  <2> QED
    BY <1>3, <2>1, PopKeeps
<1>4. CASE UNCHANGED <<native, admitted, queue, barrier, failed, registry>>
  <2>1. SurfaceInv(s)
    BY <1>4 DEF RegistryInv
  <2> QED
    BY <1>4, <2>1 DEF SurfaceInv, Settled, LastWord, BufferKnown, Farewell, About
<1> QED
  BY <1>1, <1>2, <1>3, <1>4, StepKinds

\* With no observation outstanding the registry is the native side's truth.
LEMMA RegistryInvImplies ==
  ASSUME TypeOK, BarrierMarksLastObservation, RegistryInv
  PROVE  RegistryIsCurrent
<1> SUFFICES ASSUME barrier = 0, ~failed
             PROVE  registry = native
  BY DEF RegistryIsCurrent
<1>1. \A i \in 1..Len(queue) : ~observation_event(queue[i])
  BY DEF BarrierMarksLastObservation, TypeOK
<1>2. ASSUME NEW s \in Surfaces
      PROVE  registry[s] = native[s]
  <2>1. ASSUME NEW i \in 1..Len(queue)
        PROVE  ~About(queue[i], s)
    <3>1. queue[i] \in Event
      BY DEF TypeOK
    <3> QED
      BY <1>1, <3>1, EventShape DEF About, observation_event
  <2> QED
    BY <2>1 DEF RegistryInv, SurfaceInv, Settled
<1> QED
  BY <1>2 DEF TypeOK, Knowledge

LEMMA RegistryInvariant == Spec => []RegistryInv
<1>1. Init => RegistryInv
  BY DEF Init, RegistryInv, SurfaceInv, Settled, LastWord, BufferKnown, Farewell
<1>2. TypeOK /\ RegistryInv /\ [Next]_vars => RegistryInv'
  BY RegistryStep
<1> QED
  BY <1>1, <1>2, TypeCorrect, PTL DEF Spec

THEOREM RegistryCorrect == Spec => []RegistryIsCurrent
<1>1. TypeOK /\ BarrierMarksLastObservation /\ RegistryInv => RegistryIsCurrent
  BY RegistryInvImplies
<1> QED
  BY <1>1, TypeCorrect, BarrierIsExact, RegistryInvariant, PTL

\* A private callback is never selected while the registry is behind.
THEOREM CallbacksAreFenced == Spec => CallbacksSeeCurrentRegistry
<1>1. ASSUME RegistryIsCurrent, [Next]_vars
      PROVE  busy = "idle" /\ busy' = "private" /\ ~failed => registry = native
  <2> SUFFICES ASSUME busy = "idle", busy' = "private", ~failed
               PROVE  registry = native
    OBVIOUS
  <2>1. PrivateCallback
    BY <1>1
    DEF Next, Client, Loop, Callback, Publish, vars, policyVars, mapped, unmapped,
        window_metadata, window_commit, window_destroy, layer_commit, layer_unmap,
        input_event, StepDone, Drain, DrainYield, Reconcile, dispatch_event,
        SystemCallback, NextService, layers_publish_presentation, Accept, Reject,
        StopRequest
  <2> QED
    BY <2>1, <1>1 DEF RegistryIsCurrent, PrivateCallback
<1> QED
  BY <1>1, RegistryCorrect, PTL DEF Spec, CallbacksSeeCurrentRegistry

-----------------------------------------------------------------------------
(* What the policy was computed from. *)

LEMMA PolicyStep ==
  ASSUME TypeOK, RegistryInv, PolicyNotBehind, [Next]_vars
  PROVE  PolicyNotBehind'
<1> SUFFICES ASSUME ~pending'
             PROVE  effective' = Seen(registry)'
  BY DEF PolicyNotBehind
<1>1. ASSUME NEW t \in Surfaces, NEW e \in Event, Announces(t, e)
      PROVE  effective' = Seen(registry)'
  BY <1>1 DEF Announces, PolicyNotBehind, Seen
<1>2. CASE UNCHANGED <<registry, pending, effective>>
  BY <1>2 DEF PolicyNotBehind, Seen
<1>3. CASE Consumes
  <2> DEFINE e == Head(queue)
  <2>1. e \in Event
    BY <1>3, PopShifts DEF Consumes, Shifted
  <2>2. PICK changed \in BOOLEAN :
          /\ MustChange(e) => changed
          /\ registry' = Adopt(e)
          /\ pending' = (pending \/ (changed /\ observation_event(e)))
          /\ effective' = effective
    BY <1>3 DEF Consumes, dispatch_event
  <2>3. effective' = Seen(registry)
    BY <2>2 DEF PolicyNotBehind
  <2>4. CASE Adopt(e) = registry
    BY <2>2, <2>3, <2>4 DEF Seen
  <2>5. CASE Adopt(e) # registry
    <3>1. e.type # "input"
      BY <2>5 DEF Adopt
    <3>2. observation_event(e)
      BY <2>1, <3>1, EventShape DEF observation_event
    <3>3. ~MustChange(e)
      BY <2>2, <3>2
    <3>4. e.type = "layer" /\ Echo(e)
      BY <2>5, <3>3 DEF MustChange
    <3>5. /\ registry' = [registry EXCEPT ![e.id] = e.fact]
          /\ e.id \in Layers /\ e.fact # None
          /\ registry[e.id] # None
          /\ RequestOf[registry[e.id]] = RequestOf[e.fact]
      BY <2>1, <2>2, <3>4, EventShape DEF Adopt, Echo
    <3>6. \A s \in Surfaces : registry'[s] = IF s = e.id THEN e.fact ELSE registry[s]
      BY <3>5 DEF TypeOK, Knowledge
    <3>7. Seen(registry)' = Seen(registry)
      BY <3>5, <3>6 DEF Seen
    <3> QED
      BY <2>2, <2>3, <3>7
  <2> QED
    BY <2>4, <2>5
<1>4. CASE /\ UNCHANGED registry
           /\ \/ effective' = effective /\ (~pending' => ~pending)
              \/ effective' = Seen(registry)
  BY <1>4 DEF PolicyNotBehind, Seen
<1> QED
  BY <1>1, <1>2, <1>3, <1>4, StepKinds

\* However many transactions fail, the policy's view of the surfaces is either
\* up to date or known to be stale.
THEOREM PolicyKeepsUp == Spec => []PolicyNotBehind
<1>1. Init => PolicyNotBehind
  BY DEF Init, PolicyNotBehind, Seen
<1>2. TypeOK /\ RegistryInv /\ PolicyNotBehind /\ [Next]_vars => PolicyNotBehind'
  BY PolicyStep
<1> QED
  BY <1>1, <1>2, TypeCorrect, RegistryInvariant, PTL DEF Spec

-----------------------------------------------------------------------------
(* Captures: the inductive invariant. *)

\* The type of cap.
Captures ==
  [out : Output \cup {Nil}, win : Sizes \cup {"unmapped", "gone"}, image : Nat, over : BOOLEAN,
   copy : [Copies -> Copy \cup {Nil}], since : {Nil, "damaged", "clean"}, copied : Nat \cup {Nil},
   session : [Sessions -> Session \cup {Nil}], cursor : Cursor \cup {Nil}]

\* A frame of this output comes, or none can or does.
Comes(out) == out = Nil \/ ~out.active \/ out.frame \/ out.failed

\* What was recorded, drawn and shown last is one, unless something is known to have
\* been damaged since; damage outlives a frame only if that one failed.
OutputOK(out, since, copied) ==
  IF out = Nil THEN since = Nil
  ELSE /\ ~out.damaged /\ ~out.scanout => out.ops = out.shown /\ out.presented = out.shown
       /\ out.damaged => out.failed
       /\ ~out.damaged /\ since = "clean" => copied = out.shown

\* The session of the cursor; there is one at most.
CursorOf(e) == e # Nil /\ e.live /\ e.what = "cursor"

\* A session has its source, a stopped one owes nothing, one of the output that was not
\* told of damage has the image that is shown, and one that waits is served.
SessionOK(e, out, win, cursor, image) ==
  /\ e.live => IF e.what = "window" THEN win # "gone" ELSE out # Nil
  /\ ~e.live => e.frame \notin {"capturing", "copying"}
  /\ e.live /\ e.what = "cursor" => cursor # Nil /\ cursor.requested
  /\ e.live /\ e.what = "output" /\ ~out.damaged /\ ~e.damaged => e.seen = out.shown
  /\ e.live /\ e.frame = "capturing" =>
       /\ e.what = "output" => Comes(out) \/ ~(e.damaged \/ out.damaged)
       /\ e.what = "window" /\ win \in Sizes => Comes(out)
       /\ e.what = "cursor" => ~cursor.entered \/ cursor.served = image

\* A copy that waits for damage has a manager who knows whether there is any.
CopyOK(c, out, since, copied) ==
  /\ out # Nil
  /\ c.since => since # Nil
  /\ c.waiting => Comes(out) \/ (c.damage /\ (c.since => copied = out.shown))

CaptureInv(s) ==
  /\ s \in Captures
  /\ OutputOK(s.out, s.since, s.copied)
  /\ \A x \in Sessions : s.session[x] # Nil => SessionOK(s.session[x], s.out, s.win, s.cursor, s.image)
  /\ \A x, y \in Sessions : CursorOf(s.session[x]) /\ CursorOf(s.session[y]) => x = y
  /\ \A f \in Copies : s.copy[f] # Nil => CopyOK(s.copy[f], s.out, s.since, s.copied)

\* The invariant of CaptureSpec.
CaptureIInv == CaptureInv(cap)

LEMMA CaptureNils ==
  /\ \A e \in Session : e # Nil
  /\ \A e \in Output : e # Nil
  /\ \A e \in Copy : e # Nil
  /\ \A e \in Cursor : e # Nil
BY CaptureAssumption

\* Everything but the output, and what was drawn of it, is as it was.
LEMMA OutputKeeps ==
  ASSUME NEW s, NEW t, CaptureInv(s), t \in Captures,
         s.out # Nil, t.out # Nil,
         t = [s EXCEPT !.out = t.out],
         t.out.damaged = s.out.damaged, t.out.scanout = s.out.scanout, t.out.ops = s.out.ops,
         t.out.shown = s.out.shown, t.out.presented = s.out.presented, t.out.failed = s.out.failed,
         Comes(s.out) => Comes(t.out)
  PROVE  CaptureInv(t)
<1>1. /\ t.win = s.win /\ t.image = s.image /\ t.copy = s.copy /\ t.since = s.since
      /\ t.copied = s.copied /\ t.session = s.session /\ t.cursor = s.cursor
  BY DEF CaptureInv, Captures
<1>2. OutputOK(t.out, t.since, t.copied)
  BY <1>1 DEF CaptureInv, OutputOK
<1>3. ASSUME NEW x \in Sessions, t.session[x] # Nil
      PROVE  SessionOK(t.session[x], t.out, t.win, t.cursor, t.image)
  BY <1>1, <1>3 DEF CaptureInv, SessionOK
<1>4. ASSUME NEW f \in Copies, t.copy[f] # Nil
      PROVE  CopyOK(t.copy[f], t.out, t.since, t.copied)
  BY <1>1, <1>4 DEF CaptureInv, CopyOK
<1>5. \A x, y \in Sessions : CursorOf(t.session[x]) /\ CursorOf(t.session[y]) => x = y
  BY <1>1 DEF CaptureInv
<1> QED BY <1>2, <1>3, <1>4, <1>5 DEF CaptureInv

\* One session changes.
LEMMA SessionChanges ==
  ASSUME NEW s, NEW x \in Sessions, NEW e \in Session \cup {Nil}, CaptureInv(s),
         e # Nil => SessionOK(e, s.out, s.win, s.cursor, s.image),
         CursorOf(e) => CursorOf(s.session[x])
                        \/ \A y \in Sessions : y # x => ~CursorOf(s.session[y])
  PROVE  CaptureInv([s EXCEPT !.session[x] = e])
<1> DEFINE t == [s EXCEPT !.session[x] = e]
<1>1. /\ t \in Captures /\ t.session[x] = e
      /\ \A y \in Sessions : y # x => t.session[y] = s.session[y]
      /\ t.out = s.out /\ t.win = s.win /\ t.image = s.image /\ t.copy = s.copy
      /\ t.since = s.since /\ t.copied = s.copied /\ t.cursor = s.cursor
  BY DEF CaptureInv, Captures
<1> HIDE DEF t
<1>2. OutputOK(t.out, t.since, t.copied)
  BY <1>1 DEF CaptureInv
<1>3. ASSUME NEW y \in Sessions, t.session[y] # Nil
      PROVE  SessionOK(t.session[y], t.out, t.win, t.cursor, t.image)
  BY <1>1, <1>3 DEF CaptureInv
<1>4. ASSUME NEW f \in Copies, t.copy[f] # Nil
      PROVE  CopyOK(t.copy[f], t.out, t.since, t.copied)
  BY <1>1, <1>4 DEF CaptureInv
<1>5. \A y, z \in Sessions : CursorOf(t.session[y]) /\ CursorOf(t.session[z]) => y = z
  BY <1>1 DEF CaptureInv
<1>6. CaptureInv(t)
  BY <1>1, <1>2, <1>3, <1>4, <1>5 DEF CaptureInv
<1> QED BY <1>6 DEF t

LEMMA FrameScheduled ==
  ASSUME NEW s, CaptureInv(s)
  PROVE  /\ s.out # Nil => CaptureInv(screen_schedule_frame(s))
         /\ CaptureInv(schedule_scene(s))
<1>1. ASSUME s.out # Nil PROVE CaptureInv(screen_schedule_frame(s))
  <2> DEFINE t == screen_schedule_frame(s)
  <2>1. /\ t \in Captures /\ t.out # Nil /\ t = [s EXCEPT !.out = t.out]
        /\ t.out = [s.out EXCEPT !.frame = TRUE] /\ s.out \in Output
    BY <1>1, CaptureNils DEF screen_schedule_frame, CaptureInv, Captures, Output
  <2>2. /\ t.out.damaged = s.out.damaged /\ t.out.scanout = s.out.scanout /\ t.out.ops = s.out.ops
        /\ t.out.shown = s.out.shown /\ t.out.presented = s.out.presented
        /\ t.out.failed = s.out.failed /\ t.out.frame
    BY <2>1 DEF Output
  <2> HIDE DEF t
  <2>3. CaptureInv(t)
    BY <1>1, <2>1, <2>2, OutputKeeps DEF Comes
  <2> QED BY <2>3 DEF t
<1> QED BY <1>1 DEF schedule_scene, Active

\* What changes on the output schedules it.
LEMMA SceneStep == ASSUME CaptureIInv, SceneChanges PROVE CaptureIInv'
<1> DEFINE t == [cap EXCEPT !.out.scene = (@ + 1) % Versions]
<1>1. cap.out \in Output /\ (cap.out.scene + 1) % Versions \in Nat
  BY CaptureAssumption DEF CaptureIInv, CaptureInv, Captures, SceneChanges, Output
<1>2. /\ t \in Captures /\ t = [cap EXCEPT !.out = t.out]
      /\ t.out = [cap.out EXCEPT !.scene = (cap.out.scene + 1) % Versions]
  BY <1>1 DEF CaptureIInv, CaptureInv, Captures, Output
<1>3. /\ t.out.damaged = cap.out.damaged /\ t.out.scanout = cap.out.scanout /\ t.out.ops = cap.out.ops
      /\ t.out.shown = cap.out.shown /\ t.out.presented = cap.out.presented
      /\ t.out.failed = cap.out.failed /\ t.out.frame = cap.out.frame
      /\ t.out.active = cap.out.active /\ t.out # Nil
  BY <1>1, <1>2, CaptureNils DEF Output
<1>4. cap' = schedule_scene(t)
  BY DEF SceneChanges
<1> HIDE DEF t
<1>5. CaptureInv(t)
  BY <1>1, <1>2, <1>3, CaptureNils, OutputKeeps DEF Comes, CaptureIInv
<1> QED BY <1>4, <1>5, FrameScheduled DEF CaptureIInv

\* tomoe_outputs_apply: what is turned on is drawn.
LEMMA ConfiguredStep ==
  ASSUME CaptureIInv, NEW active \in BOOLEAN, NEW size \in Sizes, OutputConfigured(active, size)
  PROVE  CaptureIInv'
<1> DEFINE o == [cap.out EXCEPT !.active = active, !.size = size, !.frame = @ \/ active]
<1>1. cap \in Captures /\ cap.out \in Output /\ o \in Output
  BY DEF CaptureIInv, CaptureInv, Captures, OutputConfigured, Output
<1>2. /\ o.damaged = cap.out.damaged /\ o.scanout = cap.out.scanout /\ o.ops = cap.out.ops
      /\ o.shown = cap.out.shown /\ o.presented = cap.out.presented /\ o.failed = cap.out.failed
      /\ o.active = active /\ (active => o.frame)
  BY <1>1 DEF Output
<1>3. cap' = [cap EXCEPT !.out = o]
  <2> DEFINE p == [cap.out EXCEPT !.active = active, !.size = size]
             t == [cap EXCEPT !.out = p]
  <2>1. cap' = schedule_scene(t)
    BY DEF OutputConfigured
  <2>2. p \in Output /\ p.active = active /\ t.out = p
    BY <1>1 DEF Output, Captures
  <2>3. o = IF active THEN [p EXCEPT !.frame = TRUE] ELSE p
    BY <1>1, <2>2 DEF Output
  <2> HIDE DEF o, p
  <2>4. CASE active
    <3>1. schedule_scene(t) = [t EXCEPT !.out.frame = TRUE]
      BY <2>2, <2>4, CaptureNils DEF schedule_scene, screen_schedule_frame, Active
    <3>2. [t EXCEPT !.out.frame = TRUE] = [cap EXCEPT !.out = [p EXCEPT !.frame = TRUE]]
      BY <1>1, <2>2 DEF Captures
    <3> QED BY <2>1, <2>3, <2>4, <3>1, <3>2
  <2>5. CASE ~active
    <3>1. schedule_scene(t) = t
      BY <2>2, <2>5 DEF schedule_scene, Active
    <3> QED BY <2>1, <2>3, <2>5, <3>1
  <2> QED BY <2>4, <2>5
<1> HIDE DEF o
<1>4. cap' \in Captures /\ cap'.out = o
  BY <1>1, <1>3 DEF Captures
<1>5. o # Nil /\ cap.out # Nil /\ (Comes(cap.out) => Comes(o))
  BY <1>1, <1>2, CaptureNils DEF Comes
<1> QED BY <1>2, <1>3, <1>4, <1>5, OutputKeeps DEF CaptureIInv

\* create_session.
LEMMA CreateStep ==
  ASSUME CaptureIInv, NEW x \in Sessions, NEW what \in {"output", "window"}, NEW cursors \in BOOLEAN,
         create_session(x, what, cursors)
  PROVE  CaptureIInv'
<1> DEFINE size == source_size(cap, what)
           e == IF size = Nil THEN Stopped
                ELSE [Stopped EXCEPT !.what = what, !.live = TRUE, !.cursors = cursors,
                                     !.damaged = TRUE, !.size = size]
<1>1. cap' = [cap EXCEPT !.session[x] = e] /\ cap.session[x] = Nil
  BY DEF create_session
<1>2. size \in Sizes \cup {Nil} /\ cap \in Captures
  BY DEF source_size, CaptureIInv, CaptureInv, Captures, Active, Output
<1>3. e \in Session /\ e.frame = Nil /\ e.damaged = e.live /\ e.live = (size # Nil)
      /\ e.what \in {"output", "window"} /\ (e.live => e.what = what)
  BY <1>2 DEF Session, Stopped
<1>4. size # Nil => IF what = "window" THEN cap.win # "gone" ELSE cap.out # Nil
  BY CaptureAssumption DEF source_size, Active
<1> HIDE DEF e, size
<1>5. SessionOK(e, cap.out, cap.win, cap.cursor, cap.image) /\ ~CursorOf(e)
  BY <1>3, <1>4, CaptureAssumption DEF SessionOK, CursorOf
<1> QED BY <1>1, <1>3, <1>5, SessionChanges DEF CaptureIInv

\* What a client does with its session and its frame, and the end of a copy.
LEMMA SimpleSteps ==
  ASSUME CaptureIInv, NEW x \in Sessions,
         \/ session_create_frame(x) \/ image_frame_destroy(x) \/ frame_copied(x)
         \/ \E size \in Sizes : image_frame_attach(x, size)
         \/ session_resource_destroy(x)
  PROVE  CaptureIInv'
<1> DEFINE e == cap.session[x]
<1>1. cap \in Captures /\ e \in Session \cup {Nil}
      /\ (e # Nil => SessionOK(e, cap.out, cap.win, cap.cursor, cap.image))
  BY DEF CaptureIInv, CaptureInv, Captures
<1> HIDE DEF e
<1>2. CASE session_create_frame(x)
  <2> DEFINE d == [e EXCEPT !.frame = "idle"]
  <2>1. cap' = [cap EXCEPT !.session[x] = d] /\ e \in Session
    BY <1>1, <1>2 DEF session_create_frame, e
  <2>2. d \in Session /\ d # Nil /\ SessionOK(d, cap.out, cap.win, cap.cursor, cap.image)
        /\ (CursorOf(d) => CursorOf(e))
    BY <1>1, <2>1, CaptureNils DEF Session, SessionOK, CursorOf
  <2> HIDE DEF d
  <2> QED BY <2>1, <2>2, SessionChanges DEF CaptureIInv, e
<1>3. CASE image_frame_destroy(x)
  <2> DEFINE d == [e EXCEPT !.frame = Nil, !.buffer = Nil]
  <2>1. cap' = [cap EXCEPT !.session[x] = d] /\ e \in Session
    BY <1>1, <1>3 DEF image_frame_destroy, e, Captures
  <2>2. d \in Session /\ d # Nil /\ SessionOK(d, cap.out, cap.win, cap.cursor, cap.image)
        /\ (CursorOf(d) => CursorOf(e))
    BY <1>1, <2>1, CaptureNils, CaptureAssumption DEF Session, SessionOK, CursorOf
  <2> HIDE DEF d
  <2> QED BY <2>1, <2>2, SessionChanges DEF CaptureIInv, e
<1>4. CASE frame_copied(x)
  <2> DEFINE d == Answered(e)
  <2>1. cap' = [cap EXCEPT !.session[x] = d] /\ e \in Session
    BY <1>1, <1>4 DEF frame_copied, e
  <2>2. d \in Session /\ d # Nil /\ SessionOK(d, cap.out, cap.win, cap.cursor, cap.image)
        /\ (CursorOf(d) => CursorOf(e))
    BY <1>1, <2>1, CaptureNils, CaptureAssumption DEF Session, SessionOK, CursorOf, Answered
  <2> HIDE DEF d
  <2> QED BY <2>1, <2>2, SessionChanges DEF CaptureIInv, e
<1>5. ASSUME NEW size \in Sizes, image_frame_attach(x, size) PROVE CaptureIInv'
  <2> DEFINE d == [e EXCEPT !.buffer = size]
  <2>1. cap' = [cap EXCEPT !.session[x] = d] /\ e \in Session
    BY <1>1, <1>5 DEF image_frame_attach, e
  <2>2. d \in Session /\ d # Nil /\ SessionOK(d, cap.out, cap.win, cap.cursor, cap.image)
        /\ (CursorOf(d) => CursorOf(e))
    BY <1>1, <2>1, CaptureNils DEF Session, SessionOK, CursorOf
  <2> HIDE DEF d
  <2> QED BY <2>1, <2>2, SessionChanges DEF CaptureIInv, e
<1>6. CASE session_resource_destroy(x)
  <2>1. ~CursorOf(Nil) /\ cap' = [cap EXCEPT !.session[x] = Nil]
    BY <1>6 DEF CursorOf, session_resource_destroy
  <2> QED BY <2>1, SessionChanges DEF CaptureIInv
<1> QED BY <1>2, <1>3, <1>4, <1>5, <1>6

\* What serving leaves of a session: one that goes on waiting has nothing to see, or
\* has asked for a frame; one that took the image has the newest.
ServedOK(s, e, content, r) ==
  /\ r.session \in Session /\ r.again \in BOOLEAN
  /\ r.session.live /\ r.session.what = e.what
  /\ r.session.frame = "capturing" =>
       /\ e.what = "window" => s.win \notin Sizes
       /\ e.what = "output" => ~Active(s) \/ ~r.session.damaged \/ r.again
  /\ r.again => e.what = "output" /\ Active(s) /\ ~e.cursors
  /\ ~r.session.damaged => \/ ~e.damaged /\ r.session.seen = e.seen
                           \/ r.session.seen = content

LEMMA ServedIs ==
  ASSUME NEW s, s \in Captures, NEW e \in Session, e.live, e.what # "cursor",
         NEW content \in Nat \cup {Nil}, NEW bare \in BOOLEAN, NEW how \in How
  PROVE  ServedOK(s, e, content, serve_session(s, e, content, bare, how))
<1> DEFINE size == source_size(s, e.what)
           t == IF size = e.size THEN e ELSE [e EXCEPT !.size = size, !.damaged = TRUE]
           r == serve_session(s, e, content, bare, how)
<1>1. size \in Sizes \cup {Nil}
  BY DEF source_size, Captures, Active, Output
<1>2. /\ size = Nil => (e.what = "window" => s.win \notin Sizes) /\ (e.what = "output" => ~Active(s))
      /\ size # Nil /\ e.what = "output" => Active(s)
  BY CaptureAssumption DEF source_size, Active, Captures, Output
<1>3. /\ t \in Session /\ t.live /\ t.what = e.what /\ t.cursors = e.cursors /\ t.seen = e.seen
      /\ t.frame = e.frame /\ (~t.damaged => ~e.damaged)
  BY <1>1 DEF Session
<1>4. r = IF e.frame # "capturing" \/ size = Nil THEN Served(e, FALSE)
          ELSE IF e.what = "output" THEN serve_output(t, content, bare, how)
          ELSE Served(Answered(t), FALSE)
  BY DEF serve_session
<1> HIDE DEF r, t, size
<1>5. CASE e.frame # "capturing" \/ size = Nil
  <2>1. r.session = e /\ r.again = FALSE
    BY <1>4, <1>5 DEF Served
  <2> QED BY <1>2, <1>5, <2>1 DEF r, ServedOK
<1>6. CASE ~(e.frame # "capturing" \/ size = Nil) /\ e.what = "window"
  <2>1. r.session = Answered(t) /\ r.again = FALSE
    BY <1>4, <1>6 DEF Served
  <2>2. Answered(t) \in Session /\ Answered(t).live /\ Answered(t).what = e.what
        /\ Answered(t).frame = "idle" /\ Answered(t).damaged = t.damaged /\ Answered(t).seen = e.seen
    BY <1>3 DEF Answered, Session
  <2> QED BY <1>3, <2>1, <2>2 DEF r, ServedOK
<1>7. CASE ~(e.frame # "capturing" \/ size = Nil) /\ e.what = "output"
  <2>1. r = serve_output(t, content, bare, how) /\ Active(s)
    BY <1>2, <1>4, <1>7
  <2>2. CASE ~t.damaged
    <3>1. r.session = t /\ r.again = FALSE
      BY <2>1, <2>2 DEF serve_output, Served
    <3> QED BY <1>3, <1>7, <2>2, <3>1 DEF r, ServedOK
  <2>3. CASE t.damaged /\ t.buffer # t.size
    <3>1. r.session = Answered(t) /\ r.again = FALSE
      BY <2>1, <2>3 DEF serve_output, Served
    <3>2. Answered(t) \in Session /\ Answered(t).live /\ Answered(t).what = e.what
          /\ Answered(t).frame = "idle" /\ Answered(t).damaged
      BY <1>3, <2>3 DEF Answered, Session
    <3> QED BY <3>1, <3>2 DEF r, ServedOK
  <2>4. CASE t.damaged /\ t.buffer = t.size /\ ~t.cursors /\ ~bare
    <3>1. r.session = t /\ r.again = TRUE
      BY <2>1, <2>4 DEF serve_output, Served
    <3> QED BY <1>3, <1>7, <2>1, <2>4, <3>1 DEF r, ServedOK
  <2>5. CASE t.damaged /\ t.buffer = t.size /\ ~(~t.cursors /\ ~bare)
    <3> DEFINE d == CASE how = "fails" -> Answered(t)
                      [] how = "later" -> Taken(t, content, "copying")
                      [] how = "ready" -> Answered(Taken(t, content, "idle"))
    <3>1. r.session = d /\ r.again = FALSE
      <4>1. r = Served(d, FALSE)
        BY <2>1, <2>5 DEF serve_output
      <4> HIDE DEF d
      <4> QED BY <4>1 DEF Served
    <3>2. /\ d \in Session /\ d.live /\ d.what = e.what /\ d.frame # "capturing"
          /\ d.damaged \/ d.seen = content
      BY <1>3, <2>5 DEF Answered, Taken, Session, How
    <3> HIDE DEF d
    <3> QED BY <3>1, <3>2 DEF r, ServedOK
  <2> QED BY <2>2, <2>3, <2>4, <2>5
<1>8. e.what \in {"window", "output"}
  BY DEF Session
<1> QED BY <1>5, <1>6, <1>7, <1>8

\* Serving the cursor of one session.
LEMMA CursorServed ==
  ASSUME NEW s, NEW x \in Sessions, NEW how \in How, s \in Captures,
         OutputOK(s.out, s.since, s.copied),
         \A f \in Copies : s.copy[f] # Nil => CopyOK(s.copy[f], s.out, s.since, s.copied),
         \A y \in Sessions : CursorOf(s.session[y]) <=> y = x,
         \A y \in Sessions \ {x} : s.session[y] # Nil =>
            SessionOK(s.session[y], s.out, s.win, s.cursor, s.image),
         s.session[x] # Nil, s.out # Nil, s.cursor # Nil, s.cursor.requested
  PROVE  CaptureInv(serve_cursor(s, x, how))
<1> DEFINE e == s.session[x]
           t == serve_cursor(s, x, how)
<1>1. e \in Session /\ e.live /\ e.what = "cursor" /\ s.cursor \in Cursor
  BY DEF Captures, CursorOf
<1>2. CASE e.frame # "capturing" \/ ~s.cursor.entered \/ s.cursor.served = s.image
  <2>1. t = s
    BY <1>2 DEF serve_cursor
  <2>2. SessionOK(e, s.out, s.win, s.cursor, s.image)
    BY <1>1, <1>2 DEF SessionOK
  <2> QED BY <2>1, <2>2 DEF CaptureInv
<1>3. CASE ~(e.frame # "capturing" \/ ~s.cursor.entered \/ s.cursor.served = s.image)
  <2> DEFINE d == Answered(e)
             c == [s.cursor EXCEPT !.served = IF how = "fails" THEN @ ELSE s.image]
  <2>1. t = [s EXCEPT !.session[x] = d, !.cursor = c]
    BY <1>1, <1>3 DEF serve_cursor, Captures, Cursor
  <2>2. d \in Session /\ d.live /\ d.what = "cursor" /\ d.frame = "idle"
    BY <1>1 DEF Answered, Session
  <2>3. c \in Cursor /\ c.requested
    BY <1>1 DEF Cursor, Captures
  <2> HIDE DEF d, c, t
  <2>4. /\ t \in Captures /\ t.out = s.out /\ t.win = s.win /\ t.image = s.image /\ t.copy = s.copy
        /\ t.since = s.since /\ t.copied = s.copied /\ t.cursor = c /\ t.session[x] = d
        /\ \A y \in Sessions \ {x} : t.session[y] = s.session[y]
    BY <2>1, <2>2, <2>3 DEF Captures
  <2>5. ASSUME NEW y \in Sessions, t.session[y] # Nil
        PROVE  SessionOK(t.session[y], t.out, t.win, t.cursor, t.image)
    <3>1. CASE y = x
      BY <1>1, <2>2, <2>3, <2>4, <3>1, CaptureNils DEF SessionOK
    <3>2. CASE y # x
      <4>1. SessionOK(s.session[y], s.out, s.win, s.cursor, s.image) /\ ~CursorOf(s.session[y])
        BY <2>4, <2>5, <3>2
      <4> QED BY <2>4, <2>5, <3>2, <4>1 DEF SessionOK, CursorOf
    <3> QED BY <3>1, <3>2
  <2>6. \A y, z \in Sessions : CursorOf(t.session[y]) /\ CursorOf(t.session[z]) => y = z
    BY <2>4
  <2>7. CaptureInv(t)
    BY <2>4, <2>5, <2>6 DEF CaptureInv
  <2> QED BY <2>7 DEF t
<1> QED BY <1>2, <1>3

\* image_frame_capture: the cursor's and what is on the screen are answered now, the rest
\* has a frame coming.
LEMMA AskStep ==
  ASSUME CaptureIInv, NEW x \in Sessions, NEW how \in How, image_frame_capture(x, how)
  PROVE  CaptureIInv'
<1> DEFINE e == cap.session[x]
           d == [e EXCEPT !.frame = "capturing"]
           s == [cap EXCEPT !.session[x].frame = "capturing"]
           now == serve_session(s, s.session[x], s.out.presented, FALSE, how).session
<1>1. e \in Session /\ e.frame = "idle" /\ SessionOK(e, cap.out, cap.win, cap.cursor, cap.image)
      /\ cap \in Captures
  BY DEF CaptureIInv, CaptureInv, Captures, image_frame_capture
<1>2. d \in Session /\ d.frame = "capturing" /\ d.live = e.live /\ d.what = e.what
      /\ d.damaged = e.damaged /\ d.cursors = e.cursors /\ d.seen = e.seen
  BY <1>1 DEF Session
<1>3. cap' = CASE ~e.live -> [cap EXCEPT !.session[x] = Answered(e)]
               [] e.live /\ e.what = "cursor" -> serve_cursor(s, x, how)
               [] e.live /\ e.what # "cursor" /\ (e.what = "window" \/ ~Active(s)) -> schedule_scene(s)
               [] OTHER ->
                    IF e.damaged /\ e.cursors /\ ~s.out.scanout /\ s.out.presented # Nil
                    THEN [s EXCEPT !.session[x] = now]
                    ELSE IF e.damaged \/ s.out.damaged THEN screen_schedule_frame(s) ELSE s
  BY DEF image_frame_capture
<1>4. s = [cap EXCEPT !.session[x] = d]
  BY <1>1 DEF Captures
<1> HIDE DEF d, s
<1>5. /\ s \in Captures /\ s.out = cap.out /\ s.win = cap.win /\ s.image = cap.image /\ s.copy = cap.copy
      /\ s.since = cap.since /\ s.copied = cap.copied /\ s.cursor = cap.cursor /\ s.session[x] = d
      /\ \A y \in Sessions \ {x} : s.session[y] = cap.session[y]
  BY <1>1, <1>2, <1>4 DEF Captures
<1>6. now = serve_session(s, d, cap.out.presented, FALSE, how).session
  BY <1>5
<1> HIDE DEF e, now
<1>7. CASE ~e.live
  <2>1. Answered(e) \in Session /\ ~Answered(e).live /\ Answered(e).frame = "idle"
    BY <1>1, <1>7 DEF Session, Answered
  <2>2. SessionOK(Answered(e), cap.out, cap.win, cap.cursor, cap.image) /\ ~CursorOf(Answered(e))
    BY <2>1 DEF SessionOK, CursorOf
  <2> QED BY <1>3, <1>7, <2>1, <2>2, SessionChanges DEF CaptureIInv
<1>8. CASE e.live /\ e.what = "cursor"
  <2>1. \A y \in Sessions : CursorOf(s.session[y]) <=> y = x
    <3>1. CursorOf(d) /\ CursorOf(cap.session[x])
      BY <1>1, <1>2, <1>8, CaptureNils DEF CursorOf, e
    <3>2. \A y \in Sessions : CursorOf(cap.session[y]) => y = x
      BY <3>1 DEF CaptureIInv, CaptureInv
    <3> QED BY <1>5, <3>1, <3>2
  <2>2. /\ OutputOK(s.out, s.since, s.copied)
        /\ \A f \in Copies : s.copy[f] # Nil => CopyOK(s.copy[f], s.out, s.since, s.copied)
        /\ \A y \in Sessions \ {x} : s.session[y] # Nil =>
             SessionOK(s.session[y], s.out, s.win, s.cursor, s.image)
    BY <1>5 DEF CaptureIInv, CaptureInv
  <2>3. s.session[x] # Nil /\ s.out # Nil /\ s.cursor # Nil /\ s.cursor.requested
    BY <1>1, <1>2, <1>5, <1>8, CaptureNils DEF SessionOK
  <2>4. cap' = serve_cursor(s, x, how)
    BY <1>3, <1>8
  <2> QED BY <1>5, <2>1, <2>2, <2>3, <2>4, CursorServed DEF CaptureIInv
<1>9. CASE e.live /\ e.what = "window"
  <2>1. cap' = schedule_scene(s)
    BY <1>3, <1>9
  <2>2. CASE Active(s)
    <3> DEFINE u == [cap EXCEPT !.out.frame = TRUE]
    <3>1. CaptureInv(u) /\ u = [cap EXCEPT !.out = [cap.out EXCEPT !.frame = TRUE]]
      BY <1>5, <2>2, FrameScheduled DEF CaptureIInv, screen_schedule_frame, Active
    <3>2. u.out.frame /\ u.out = [cap.out EXCEPT !.frame = TRUE] /\ u.win = cap.win /\ u.cursor = cap.cursor
          /\ u.image = cap.image /\ u.session = cap.session
      BY <1>1, <1>5, <2>2 DEF Captures, Output, Active
    <3>3. cap' = [u EXCEPT !.session[x] = d]
      BY <1>1, <1>5, <1>4, <2>1, <2>2 DEF schedule_scene, screen_schedule_frame, Captures
    <3> HIDE DEF u
    <3>4. SessionOK(d, u.out, u.win, u.cursor, u.image)
      BY <1>1, <1>2, <1>9, <3>2 DEF SessionOK, Comes
    <3> QED BY <1>2, <1>9, <3>1, <3>3, <3>4, SessionChanges DEF CaptureIInv, CursorOf
  <2>3. CASE ~Active(s)
    <3>1. cap' = s
      BY <2>1, <2>3 DEF schedule_scene
    <3>2. SessionOK(d, cap.out, cap.win, cap.cursor, cap.image)
      BY <1>1, <1>2, <1>5, <1>9, <2>3 DEF SessionOK, Comes, Active
    <3> QED BY <1>2, <1>9, <1>4, <3>1, <3>2, SessionChanges DEF CaptureIInv, CursorOf
  <2> QED BY <2>2, <2>3
<1>10. CASE e.live /\ e.what = "output"
  <2>1. CASE ~Active(s)
    <3>1. cap' = s
      BY <1>3, <1>10, <2>1 DEF schedule_scene
    <3>2. SessionOK(d, cap.out, cap.win, cap.cursor, cap.image)
      BY <1>1, <1>2, <1>5, <1>10, <2>1 DEF SessionOK, Comes, Active
    <3> QED BY <1>2, <1>10, <1>4, <3>1, <3>2, SessionChanges DEF CaptureIInv, CursorOf
  <2>2. CASE Active(s) /\ e.damaged /\ e.cursors /\ ~s.out.scanout /\ s.out.presented # Nil
    <3>1. cap' = [s EXCEPT !.session[x] = now] /\ cap.out \in Output
      BY <1>1, <1>5, <1>3, <1>10, <2>2 DEF Active, Captures
    <3>2. cap' = [cap EXCEPT !.session[x] = now]
      BY <1>1, <1>4, <3>1 DEF Captures
    <3>3. cap.out.presented \in Nat \cup {Nil} /\ FALSE \in BOOLEAN /\ d.live /\ d.what # "cursor"
      BY <1>2, <1>10, <3>1 DEF Output
    <3>4. /\ now \in Session /\ now.live /\ now.what = "output"
          /\ now.frame = "capturing" => ~now.damaged
          /\ ~now.damaged => now.seen = cap.out.presented
      <4> DEFINE r == serve_session(s, d, cap.out.presented, FALSE, how)
      <4>1. ServedOK(s, d, cap.out.presented, r)
        BY <1>2, <1>5, <3>3, ServedIs
      <4> HIDE DEF r
      <4>2. now = r.session
        BY <1>6 DEF r
      <4> QED BY <1>2, <1>10, <2>2, <4>1, <4>2 DEF ServedOK
    <3>5. ~cap.out.damaged => cap.out.presented = cap.out.shown
      BY <1>5, <2>2 DEF CaptureIInv, CaptureInv, OutputOK, Active
    <3>6. SessionOK(now, cap.out, cap.win, cap.cursor, cap.image) /\ ~CursorOf(now)
      <4>1. cap.out.damaged => Comes(cap.out)
        BY <1>5, <2>2 DEF CaptureIInv, CaptureInv, OutputOK, Active, Comes
      <4> QED BY <1>5, <2>2, <3>4, <3>5, <4>1 DEF SessionOK, CursorOf, Active
    <3> QED BY <3>2, <3>4, <3>6, SessionChanges DEF CaptureIInv
  <2>3. CASE Active(s) /\ ~(e.damaged /\ e.cursors /\ ~s.out.scanout /\ s.out.presented # Nil)
             /\ (e.damaged \/ s.out.damaged)
    <3> DEFINE u == [cap EXCEPT !.out.frame = TRUE]
    <3>1. CaptureInv(u) /\ u = [cap EXCEPT !.out = [cap.out EXCEPT !.frame = TRUE]]
      BY <1>5, <2>3, FrameScheduled DEF CaptureIInv, screen_schedule_frame, Active
    <3>2. u.out.frame /\ u.out = [cap.out EXCEPT !.frame = TRUE] /\ u.win = cap.win /\ u.cursor = cap.cursor
          /\ u.image = cap.image /\ u.session = cap.session
      BY <1>1, <1>5, <2>3 DEF Captures, Output, Active
    <3>3. cap' = [u EXCEPT !.session[x] = d]
      <4>1. cap' = screen_schedule_frame(s)
        BY <1>3, <1>10, <2>3
      <4> QED BY <1>1, <1>4, <4>1 DEF screen_schedule_frame, Captures
    <3> HIDE DEF u
    <3>4. u.out.damaged = cap.out.damaged /\ u.out.shown = cap.out.shown /\ u.out # Nil
      <4>1. cap.out \in Output
        BY <1>1, <1>5, <2>3 DEF Captures, Active
      <4> QED BY <3>2, <4>1, CaptureNils DEF Output
    <3>5. SessionOK(d, u.out, u.win, u.cursor, u.image)
      BY <1>1, <1>2, <1>10, <3>2, <3>4 DEF SessionOK, Comes
    <3> QED BY <1>2, <1>10, <3>1, <3>3, <3>5, SessionChanges DEF CaptureIInv, CursorOf
  <2>4. CASE Active(s) /\ ~(e.damaged \/ s.out.damaged)
    <3>1. cap' = s
      BY <1>3, <1>10, <2>4
    <3>2. SessionOK(d, cap.out, cap.win, cap.cursor, cap.image)
      BY <1>1, <1>2, <1>5, <1>10, <2>4 DEF SessionOK, Comes, Active
    <3> QED BY <1>2, <1>10, <1>4, <3>1, <3>2, SessionChanges DEF CaptureIInv, CursorOf
  <2> QED BY <2>1, <2>2, <2>3, <2>4
<1>11. e.what \in {"output", "window", "cursor"}
  BY <1>1 DEF Session
<1> QED BY <1>7, <1>8, <1>9, <1>10, <1>11

\* Some sessions are stopped; what changes else suits the others.
LEMMA StopKeeps ==
  ASSUME NEW s, NEW t, NEW xs \in SUBSET Sessions, CaptureInv(s), t \in Captures,
         \A x \in xs : s.session[x] # Nil,
         t.session = Stopping(s, xs).session,
         OutputOK(t.out, t.since, t.copied),
         \A f \in Copies : t.copy[f] # Nil => CopyOK(t.copy[f], t.out, t.since, t.copied),
         \A x \in Sessions \ xs : s.session[x] # Nil =>
            SessionOK(s.session[x], t.out, t.win, t.cursor, t.image)
  PROVE  CaptureInv(t)
<1>1. \A x \in Sessions : t.session[x] = IF x \in xs THEN session_stop(s.session[x]) ELSE s.session[x]
  BY DEF Stopping, CaptureInv, Captures
<1>2. ASSUME NEW x \in xs
      PROVE  /\ SessionOK(t.session[x], t.out, t.win, t.cursor, t.image)
             /\ ~CursorOf(t.session[x])
  <2> DEFINE e == s.session[x]
             d == IF e.frame \in {"capturing", "copying"} THEN Answered(e) ELSE e
  <2>1. e \in Session
    BY DEF CaptureInv, Captures
  <2>2. d \in Session /\ d.frame \notin {"capturing", "copying"}
    BY <2>1 DEF Session, Answered
  <2> HIDE DEF d
  <2>3. t.session[x] = [d EXCEPT !.live = FALSE]
    BY <1>1 DEF session_stop, d
  <2> QED BY <2>2, <2>3 DEF Session, SessionOK, CursorOf
<1>3. ASSUME NEW x \in Sessions, t.session[x] # Nil
      PROVE  SessionOK(t.session[x], t.out, t.win, t.cursor, t.image)
  BY <1>1, <1>2, <1>3
<1>4. \A x, y \in Sessions : CursorOf(t.session[x]) /\ CursorOf(t.session[y]) => x = y
  BY <1>1, <1>2 DEF CaptureInv
<1> QED BY <1>3, <1>4 DEF CaptureInv

LEMMA ListedAre ==
  ASSUME NEW s, NEW what
  PROVE  /\ Listed(s, what) \in SUBSET Sessions
         /\ \A x \in Listed(s, what) : s.session[x] # Nil /\ s.session[x].live /\ s.session[x].what = what
         /\ \A x \in Sessions : s.session[x] # Nil /\ s.session[x].live /\ s.session[x].what = what
              => x \in Listed(s, what)
BY DEF Listed

LEMMA StoppedSession ==
  ASSUME NEW s \in Captures, NEW xs \in SUBSET Sessions, \A x \in xs : s.session[x] # Nil
  PROVE  /\ Stopping(s, xs) \in Captures
         /\ Stopping(s, xs) = [s EXCEPT !.session = Stopping(s, xs).session]
         /\ Stopping(s, xs).session \in [Sessions -> Session \cup {Nil}]
<1>1. ASSUME NEW x \in xs PROVE session_stop(s.session[x]) \in Session
  <2> DEFINE e == s.session[x]
             d == IF e.frame \in {"capturing", "copying"} THEN Answered(e) ELSE e
  <2>1. e \in Session
    BY DEF Captures
  <2>2. d \in Session
    BY <2>1 DEF Session, Answered
  <2> HIDE DEF d
  <2>3. session_stop(e) = [d EXCEPT !.live = FALSE]
    BY DEF session_stop, d
  <2> QED BY <2>2, <2>3 DEF Session
<1> DEFINE sessions == [x \in Sessions |-> IF x \in xs THEN session_stop(s.session[x]) ELSE s.session[x]]
<1>2. sessions \in [Sessions -> Session \cup {Nil}]
  BY <1>1 DEF Captures
<1>3. Stopping(s, xs) = [s EXCEPT !.session = sessions]
  BY DEF Stopping
<1> HIDE DEF sessions
<1> QED BY <1>2, <1>3 DEF Captures

LEMMA CursorDestroyed == ASSUME CaptureIInv, cursor_session_resource_destroy PROVE CaptureIInv'
<1> DEFINE xs == Listed(cap, "cursor")
           u == Stopping(cap, xs)
<1>1. /\ xs \in SUBSET Sessions /\ \A x \in xs : cap.session[x] # Nil
      /\ cap \in Captures
  BY ListedAre DEF CaptureIInv, CaptureInv
<1> HIDE DEF xs
<1>2. u \in Captures /\ u = [cap EXCEPT !.session = u.session]
      /\ u.session \in [Sessions -> Session \cup {Nil}]
  BY <1>1, StoppedSession
<1>3. cap' = [u EXCEPT !.cursor = Nil]
  BY DEF cursor_session_resource_destroy, xs
<1>4. u.session = Stopping(cap, xs).session
  OBVIOUS
<1> HIDE DEF u
<1>5. /\ cap' \in Captures /\ cap'.session = u.session /\ cap'.out = cap.out /\ cap'.win = cap.win
      /\ cap'.image = cap.image /\ cap'.copy = cap.copy /\ cap'.since = cap.since
      /\ cap'.copied = cap.copied /\ cap'.cursor = Nil
  BY <1>1, <1>2, <1>3 DEF Captures
<1>6. ASSUME NEW x \in Sessions \ xs, cap.session[x] # Nil
      PROVE  SessionOK(cap.session[x], cap.out, cap.win, Nil, cap.image)
  <2>1. ~(cap.session[x].live /\ cap.session[x].what = "cursor")
    BY <1>6, ListedAre DEF xs
  <2>2. SessionOK(cap.session[x], cap.out, cap.win, cap.cursor, cap.image)
    BY <1>6 DEF CaptureIInv, CaptureInv
  <2> QED BY <2>1, <2>2 DEF SessionOK
<1>7. OutputOK(cap.out, cap.since, cap.copied)
      /\ \A f \in Copies : cap.copy[f] # Nil => CopyOK(cap.copy[f], cap.out, cap.since, cap.copied)
  BY DEF CaptureIInv, CaptureInv
<1> QED BY <1>1, <1>5, <1>6, <1>4, <1>7, StopKeeps DEF CaptureIInv

\* capture_output_gone.
LEMMA OutputGoneStep == ASSUME CaptureIInv, capture_output_gone PROVE CaptureIInv'
<1> DEFINE xs == Listed(cap, "output") \cup Listed(cap, "cursor")
           u == Stopping(cap, xs)
           c == IF cap.cursor = Nil THEN Nil ELSE [cap.cursor EXCEPT !.source = FALSE, !.entered = FALSE]
           copies == [f \in Copies |-> Nil]
<1>1. /\ xs \in SUBSET Sessions /\ \A x \in xs : cap.session[x] # Nil
      /\ cap \in Captures /\ c \in Cursor \cup {Nil}
      /\ (cap.cursor # Nil => c # Nil /\ c.requested = cap.cursor.requested /\ ~c.entered)
      /\ copies \in [Copies -> Copy \cup {Nil}]
  <2>1. cap \in Captures
    BY DEF CaptureIInv, CaptureInv
  <2>2. cap.cursor \in Cursor \cup {Nil}
    BY <2>1 DEF Captures
  <2>3. c \in Cursor \cup {Nil}
        /\ (cap.cursor # Nil => c # Nil /\ c.requested = cap.cursor.requested /\ ~c.entered)
    BY <2>2, CaptureNils DEF Cursor
  <2> QED BY <2>1, <2>3, ListedAre
<1>2. u.session = Stopping(cap, xs).session
  OBVIOUS
<1>3. cap' = [u EXCEPT !.out = Nil, !.copy = copies, !.since = Nil, !.copied = Nil, !.cursor = c]
  <2>1. u.cursor = cap.cursor
    BY <1>1 DEF Stopping, Captures
  <2> QED BY <2>1 DEF capture_output_gone
<1> HIDE DEF xs, c, copies
<1>4. u \in Captures /\ u = [cap EXCEPT !.session = u.session]
      /\ u.session \in [Sessions -> Session \cup {Nil}]
  BY <1>1, StoppedSession
<1> HIDE DEF u
<1>5. /\ cap' \in Captures /\ cap'.session = u.session /\ cap'.out = Nil /\ cap'.win = cap.win
      /\ cap'.image = cap.image /\ cap'.copy = copies /\ cap'.since = Nil
      /\ cap'.copied = Nil /\ cap'.cursor = c
  BY <1>1, <1>4, <1>3 DEF Captures
<1>6. ASSUME NEW x \in Sessions \ xs, cap.session[x] # Nil
      PROVE  SessionOK(cap.session[x], Nil, cap.win, c, cap.image)
  <2>1. ~(cap.session[x].live /\ cap.session[x].what \in {"output", "cursor"})
    BY <1>6, ListedAre DEF xs
  <2>2. SessionOK(cap.session[x], cap.out, cap.win, cap.cursor, cap.image) /\ cap.session[x] \in Session
    BY <1>1, <1>6 DEF CaptureIInv, CaptureInv, Captures
  <2>3. cap.session[x].what \in {"output", "cursor", "window"}
    BY <2>2 DEF Session
  <2> QED BY <2>1, <2>2, <2>3 DEF SessionOK, Comes
<1>7. OutputOK(Nil, Nil, Nil) /\ \A f \in Copies : copies[f] = Nil
  BY DEF OutputOK, copies
<1> QED BY <1>1, <1>5, <1>6, <1>2, <1>7, StopKeeps DEF CaptureIInv

\* output_added.
LEMMA AddedStep == ASSUME CaptureIInv, NEW size \in Sizes, output_added(size) PROVE CaptureIInv'
<1> DEFINE o == NewOutput(size)
<1>1. cap \in Captures /\ cap.out = Nil /\ cap' = [cap EXCEPT !.out = o] /\ cap.since = Nil
  BY DEF CaptureIInv, CaptureInv, output_added, OutputOK
<1>2. /\ o \in Output /\ o # Nil /\ o.frame /\ ~o.damaged /\ ~o.scanout /\ o.ops = Nil
      /\ o.shown = Nil /\ o.presented = Nil
  BY CaptureNils DEF NewOutput, Output
<1> HIDE DEF o
<1>3. /\ cap' \in Captures /\ cap'.session = cap.session /\ cap'.out = o /\ cap'.win = cap.win
      /\ cap'.image = cap.image /\ cap'.copy = cap.copy /\ cap'.since = cap.since
      /\ cap'.copied = cap.copied /\ cap'.cursor = cap.cursor
  BY <1>1, <1>2 DEF Captures
<1>4. OutputOK(o, cap.since, cap.copied)
  BY <1>1, <1>2, CaptureAssumption DEF OutputOK
<1>5. ASSUME NEW x \in Sessions, cap.session[x] # Nil
      PROVE  SessionOK(cap.session[x], o, cap.win, cap.cursor, cap.image)
  <2>1. SessionOK(cap.session[x], Nil, cap.win, cap.cursor, cap.image)
    BY <1>1, <1>5 DEF CaptureIInv, CaptureInv
  <2>2. cap.session[x] \in Session
    BY <1>1, <1>5 DEF Captures
  <2> QED BY <1>2, <2>1, <2>2 DEF SessionOK, Session, Comes
<1>6. \A f \in Copies : cap.copy[f] = Nil
  BY <1>1 DEF CaptureIInv, CaptureInv, CopyOK
<1>7. \A x, y \in Sessions : CursorOf(cap.session[x]) /\ CursorOf(cap.session[y]) => x = y
  BY DEF CaptureIInv, CaptureInv
<1> QED BY <1>3, <1>4, <1>5, <1>6, <1>7 DEF CaptureIInv, CaptureInv

\* capture_window_gone, and a window's other changes.
LEMMA WindowStep ==
  ASSUME CaptureIInv, NEW size \in Sizes \cup {"unmapped", "gone"}, WindowChanges(size)
  PROVE  CaptureIInv'
<1> DEFINE xs == IF size = "gone" THEN Listed(cap, "window") ELSE {}
           u == Stopping(cap, xs)
           t == [u EXCEPT !.win = size]
           s == schedule_scene(t)
<1>1. xs \in SUBSET Sessions /\ (\A x \in xs : cap.session[x] # Nil) /\ cap \in Captures
  BY ListedAre DEF CaptureIInv, CaptureInv
<1>2. u \in Captures /\ u = [cap EXCEPT !.session = u.session]
      /\ u.session \in [Sessions -> Session \cup {Nil}]
  BY <1>1, StoppedSession
<1>3. cap' = s
  <2>1. CASE size = "gone"
    BY <2>1 DEF WindowChanges
  <2>2. CASE size # "gone"
    <3>1. Stopping(cap, {}) = cap
      BY <1>1 DEF Stopping, Captures
    <3> QED BY <2>2, <3>1 DEF WindowChanges
  <2> QED BY <2>1, <2>2
<1>4. cap.win # "gone"
  BY DEF WindowChanges
<1>5. u.session = Stopping(cap, xs).session
  OBVIOUS
<1> HIDE DEF u
<1>6. /\ t \in Captures /\ t.session = u.session /\ t.out = cap.out /\ t.win = size
      /\ t.image = cap.image /\ t.copy = cap.copy /\ t.since = cap.since
      /\ t.copied = cap.copied /\ t.cursor = cap.cursor
  BY <1>1, <1>2 DEF Captures
<1> HIDE DEF t
<1> DEFINE o == IF Active(cap) THEN [cap.out EXCEPT !.frame = TRUE] ELSE cap.out
<1>7. s = [t EXCEPT !.out = o]
  BY <1>6 DEF schedule_scene, screen_schedule_frame, Active, Captures
<1>8. /\ o \in Output \cup {Nil} /\ (o = Nil <=> cap.out = Nil) /\ Comes(o)
      /\ o # Nil => /\ o.damaged = cap.out.damaged /\ o.scanout = cap.out.scanout
                    /\ o.ops = cap.out.ops /\ o.shown = cap.out.shown
                    /\ o.presented = cap.out.presented /\ o.failed = cap.out.failed
  <2>1. CASE Active(cap)
    <3>1. cap.out \in Output /\ o = [cap.out EXCEPT !.frame = TRUE]
      BY <1>1, <2>1 DEF Active, Captures
    <3> HIDE DEF o
    <3> QED BY <3>1, CaptureNils DEF Comes, Output
  <2>2. CASE ~Active(cap)
    BY <1>1, <2>2 DEF Active, Captures, Comes
  <2> QED BY <2>1, <2>2
<1> HIDE DEF o, s
<1>9. /\ s \in Captures /\ s.session = u.session /\ s.out = o /\ s.win = size
      /\ s.image = cap.image /\ s.copy = cap.copy /\ s.since = cap.since
      /\ s.copied = cap.copied /\ s.cursor = cap.cursor
  BY <1>6, <1>7, <1>8 DEF Captures
<1>10. OutputOK(o, cap.since, cap.copied)
  BY <1>8 DEF CaptureIInv, CaptureInv, OutputOK
<1>11. \A f \in Copies : cap.copy[f] # Nil => CopyOK(cap.copy[f], o, cap.since, cap.copied)
  BY <1>8 DEF CaptureIInv, CaptureInv, CopyOK
<1>12. ASSUME NEW x \in Sessions \ xs, cap.session[x] # Nil
       PROVE  SessionOK(cap.session[x], o, size, cap.cursor, cap.image)
  <2>1. size = "gone" => ~(cap.session[x].live /\ cap.session[x].what = "window")
    BY <1>12, ListedAre DEF xs
  <2>2. SessionOK(cap.session[x], cap.out, cap.win, cap.cursor, cap.image)
    BY <1>12 DEF CaptureIInv, CaptureInv
  <2> QED BY <1>8, <2>1, <2>2 DEF SessionOK
<1> HIDE DEF xs
<1>13. CaptureInv(s)
  BY <1>1, <1>5, <1>9, <1>10, <1>11, <1>12, StopKeeps DEF CaptureIInv
<1> QED BY <1>3, <1>13 DEF CaptureIInv

\* cursor_update restores what a new image, or a new cursor session, broke.
LEMMA CursorUpdated ==
  ASSUME NEW s \in Captures, NEW how \in How,
         OutputOK(s.out, s.since, s.copied),
         \A f \in Copies : s.copy[f] # Nil => CopyOK(s.copy[f], s.out, s.since, s.copied),
         \A x, y \in Sessions : CursorOf(s.session[x]) /\ CursorOf(s.session[y]) => x = y,
         \A x \in Sessions : s.session[x] # Nil =>
            IF CursorOf(s.session[x]) THEN s.out # Nil /\ s.cursor # Nil /\ s.cursor.requested
            ELSE SessionOK(s.session[x], s.out, s.win, s.cursor, s.image)
  PROVE  CaptureInv(cursor_update(s, how))
<1>1. CASE s.cursor = Nil
  <2>1. cursor_update(s, how) = s
    BY <1>1 DEF cursor_update
  <2>2. \A x \in Sessions : s.session[x] # Nil =>
           SessionOK(s.session[x], s.out, s.win, s.cursor, s.image)
    BY <1>1
  <2> QED BY <2>1, <2>2 DEF CaptureInv
<1>2. CASE s.cursor # Nil /\ ~(s.cursor.source /\ Active(s) /\ s.over)
  <2> DEFINE c == [s.cursor EXCEPT !.entered = FALSE]
             t == [s EXCEPT !.cursor = c]
  <2>1. cursor_update(s, how) = t
    BY <1>2 DEF cursor_update, Captures
  <2>2. c \in Cursor /\ c # Nil /\ c.requested = s.cursor.requested /\ ~c.entered
    BY <1>2, CaptureNils DEF Captures, Cursor
  <2> HIDE DEF c
  <2>3. /\ t \in Captures /\ t.session = s.session /\ t.out = s.out /\ t.win = s.win
        /\ t.image = s.image /\ t.copy = s.copy /\ t.since = s.since /\ t.copied = s.copied
        /\ t.cursor = c
    BY <2>2 DEF Captures
  <2> HIDE DEF t
  <2>4. ASSUME NEW x \in Sessions, s.session[x] # Nil
        PROVE  SessionOK(s.session[x], s.out, s.win, c, s.image)
    BY <2>2, <2>4 DEF SessionOK, CursorOf
  <2> QED BY <2>1, <2>3, <2>4 DEF CaptureInv
<1>3. CASE s.cursor # Nil /\ s.cursor.source /\ Active(s) /\ s.over
  <2> DEFINE c == [s.cursor EXCEPT !.entered = TRUE]
             t == [s EXCEPT !.cursor = c]
             r == IF Listed(t, "cursor") = {} THEN t
                  ELSE serve_cursor(t, CHOOSE x \in Listed(t, "cursor") : TRUE, how)
  <2>1. cursor_update(s, how) = r
    BY <1>3 DEF cursor_update, Captures
  <2>2. c \in Cursor /\ c # Nil /\ c.requested = s.cursor.requested
    BY <1>3, CaptureNils DEF Captures, Cursor
  <2> HIDE DEF c
  <2>3. /\ t \in Captures /\ t.session = s.session /\ t.out = s.out /\ t.win = s.win
        /\ t.image = s.image /\ t.copy = s.copy /\ t.since = s.since /\ t.copied = s.copied
        /\ t.cursor = c
    BY <2>2 DEF Captures
  <2> HIDE DEF t
  <2>4. ASSUME NEW x \in Sessions, s.session[x] # Nil, ~CursorOf(s.session[x])
        PROVE  SessionOK(s.session[x], s.out, s.win, c, s.image)
    BY <2>2, <2>4 DEF SessionOK, CursorOf
  <2>5. \A x \in Sessions : CursorOf(s.session[x]) <=> x \in Listed(t, "cursor")
    BY <2>3, ListedAre DEF CursorOf
  <2>6. CASE Listed(t, "cursor") = {}
    <3>1. \A x \in Sessions : ~CursorOf(s.session[x])
      BY <2>5, <2>6
    <3> QED BY <2>1, <2>3, <2>4, <2>6, <3>1 DEF CaptureInv
  <2>7. CASE Listed(t, "cursor") # {}
    <3> DEFINE x == CHOOSE x \in Listed(t, "cursor") : TRUE
    <3>1. x \in Listed(t, "cursor") /\ x \in Sessions
      BY <2>7, ListedAre
    <3>2. cursor_update(s, how) = serve_cursor(t, x, how)
      BY <2>1, <2>7
    <3> HIDE DEF x
    <3>3. \A y \in Sessions : CursorOf(t.session[y]) <=> y = x
      BY <2>3, <2>5, <3>1
    <3>4. t.session[x] # Nil /\ t.out # Nil /\ t.cursor # Nil /\ t.cursor.requested
      BY <2>2, <2>3, <3>1, <3>3 DEF CursorOf
    <3>5. /\ OutputOK(t.out, t.since, t.copied)
          /\ \A f \in Copies : t.copy[f] # Nil => CopyOK(t.copy[f], t.out, t.since, t.copied)
          /\ \A y \in Sessions \ {x} : t.session[y] # Nil =>
               SessionOK(t.session[y], t.out, t.win, t.cursor, t.image)
      BY <2>3, <2>4, <3>3
    <3> QED BY <2>3, <3>1, <3>2, <3>3, <3>4, <3>5, CursorServed
  <2> QED BY <2>6, <2>7
<1> QED BY <1>1, <1>2, <1>3

LEMMA CursorChangesStep ==
  ASSUME CaptureIInv, NEW image \in Images, NEW over \in BOOLEAN, NEW how \in How,
         CursorChanges(image, over, how)
  PROVE  CaptureIInv'
<1> DEFINE s == [cap EXCEPT !.image = image, !.over = over]
<1>1. cap \in Captures /\ image \in Nat
  BY CaptureAssumption DEF CaptureIInv, CaptureInv, Images
<1>2. /\ s \in Captures /\ s.session = cap.session /\ s.out = cap.out /\ s.win = cap.win
      /\ s.copy = cap.copy /\ s.since = cap.since /\ s.copied = cap.copied
      /\ s.cursor = cap.cursor
  BY <1>1 DEF Captures
<1>3. cap' = cursor_update(s, how)
  BY DEF CursorChanges
<1> HIDE DEF s
<1>4. ASSUME NEW x \in Sessions, s.session[x] # Nil
      PROVE  IF CursorOf(s.session[x]) THEN s.out # Nil /\ s.cursor # Nil /\ s.cursor.requested
             ELSE SessionOK(s.session[x], s.out, s.win, s.cursor, s.image)
  <2> DEFINE e == cap.session[x]
  <2>1. SessionOK(e, cap.out, cap.win, cap.cursor, cap.image)
    BY <1>2, <1>4 DEF CaptureIInv, CaptureInv
  <2> HIDE DEF e
  <2>2. CursorOf(e) => cap.out # Nil /\ cap.cursor # Nil /\ cap.cursor.requested
    BY <2>1 DEF SessionOK, CursorOf
  <2>3. ~CursorOf(e) /\ e # Nil => SessionOK(e, cap.out, cap.win, cap.cursor, s.image)
    BY <2>1 DEF SessionOK, CursorOf
  <2> QED BY <1>2, <1>4, <2>2, <2>3 DEF e
<1>5. /\ OutputOK(s.out, s.since, s.copied)
      /\ \A f \in Copies : s.copy[f] # Nil => CopyOK(s.copy[f], s.out, s.since, s.copied)
      /\ \A x, y \in Sessions : CursorOf(s.session[x]) /\ CursorOf(s.session[y]) => x = y
  BY <1>2 DEF CaptureIInv, CaptureInv
<1> QED BY <1>2, <1>3, <1>4, <1>5, CursorUpdated DEF CaptureIInv

LEMMA CursorCreated ==
  ASSUME CaptureIInv, NEW how \in How, create_cursor_session(how)
  PROVE  CaptureIInv'
<1> DEFINE c == [source |-> cap.out # Nil, entered |-> FALSE, requested |-> FALSE, served |-> Nil]
           s == [cap EXCEPT !.cursor = c]
<1>1. cap \in Captures /\ cap.cursor = Nil /\ cap' = cursor_update(s, how)
  BY DEF CaptureIInv, CaptureInv, create_cursor_session
<1>2. c \in Cursor
  BY DEF Cursor
<1> HIDE DEF c
<1>3. /\ s \in Captures /\ s.session = cap.session /\ s.out = cap.out /\ s.win = cap.win
      /\ s.copy = cap.copy /\ s.since = cap.since /\ s.copied = cap.copied /\ s.image = cap.image
  BY <1>1, <1>2 DEF Captures
<1> HIDE DEF s
<1>4. ASSUME NEW x \in Sessions, s.session[x] # Nil
      PROVE  ~CursorOf(s.session[x]) /\ SessionOK(s.session[x], s.out, s.win, s.cursor, s.image)
  <2>1. SessionOK(cap.session[x], cap.out, cap.win, cap.cursor, cap.image)
    BY <1>3, <1>4 DEF CaptureIInv, CaptureInv
  <2> QED BY <1>1, <1>3, <2>1 DEF SessionOK, CursorOf
<1>5. /\ OutputOK(s.out, s.since, s.copied)
      /\ \A f \in Copies : s.copy[f] # Nil => CopyOK(s.copy[f], s.out, s.since, s.copied)
      /\ \A x, y \in Sessions : CursorOf(s.session[x]) /\ CursorOf(s.session[y]) => x = y
  BY <1>3 DEF CaptureIInv, CaptureInv
<1> QED BY <1>1, <1>3, <1>4, <1>5, CursorUpdated DEF CaptureIInv

LEMMA CursorCaptured ==
  ASSUME CaptureIInv, NEW x \in Sessions, cursor_session_capture(x)
  PROVE  CaptureIInv'
<1>1. cap \in Captures /\ cap.cursor # Nil /\ ~cap.cursor.requested /\ cap.session[x] = Nil
  BY DEF CaptureIInv, CaptureInv, cursor_session_capture
<1>2. CASE ~(cap.cursor.source /\ Active(cap))
  <2>1. cap' = [cap EXCEPT !.session[x] = Stopped]
    BY <1>2 DEF cursor_session_capture
  <2>2. Stopped \in Session /\ ~CursorOf(Stopped)
        /\ SessionOK(Stopped, cap.out, cap.win, cap.cursor, cap.image)
    BY CaptureAssumption DEF Stopped, Session, CursorOf, SessionOK
  <2> QED BY <2>1, <2>2, SessionChanges DEF CaptureIInv
<1>3. CASE cap.cursor.source /\ Active(cap)
  <2> DEFINE c == [cap.cursor EXCEPT !.requested = TRUE]
             e == [Stopped EXCEPT !.what = "cursor", !.live = TRUE]
  <2>1. cap' = [cap EXCEPT !.cursor = c, !.session[x] = e]
    BY <1>3 DEF cursor_session_capture
  <2>2. c \in Cursor /\ c # Nil /\ c.requested
    BY <1>1, CaptureNils DEF Cursor, Captures
  <2>3. e \in Session /\ e.what = "cursor" /\ e.frame = Nil
    BY DEF Session, Stopped
  <2> HIDE DEF c, e
  <2>4. /\ cap' \in Captures /\ cap'.out = cap.out /\ cap'.win = cap.win /\ cap'.image = cap.image
        /\ cap'.copy = cap.copy /\ cap'.since = cap.since /\ cap'.copied = cap.copied
        /\ cap'.cursor = c /\ cap'.session[x] = e
        /\ \A y \in Sessions \ {x} : cap'.session[y] = cap.session[y]
    BY <1>1, <2>1, <2>2, <2>3 DEF Captures
  <2>5. ASSUME NEW y \in Sessions \ {x}, cap.session[y] # Nil
        PROVE  ~CursorOf(cap.session[y]) /\ SessionOK(cap.session[y], cap.out, cap.win, c, cap.image)
    <3>1. SessionOK(cap.session[y], cap.out, cap.win, cap.cursor, cap.image)
      BY <2>5 DEF CaptureIInv, CaptureInv
    <3> QED BY <1>1, <3>1 DEF SessionOK, CursorOf
  <2>6. SessionOK(e, cap.out, cap.win, c, cap.image)
    BY <1>3, <2>2, <2>3, CaptureAssumption DEF SessionOK, Active
  <2>7. \A y, z \in Sessions : CursorOf(cap'.session[y]) /\ CursorOf(cap'.session[z]) => y = z
    BY <2>4, <2>5 DEF CursorOf
  <2> QED BY <2>4, <2>5, <2>6, <2>7 DEF CaptureIInv, CaptureInv
<1> QED BY <1>2, <1>3

\* The copies change; what is kept of their manager suits the output.
LEMMA CopiesChange ==
  ASSUME NEW s, NEW t, CaptureInv(s), t \in Captures,
         t.out = s.out, t.win = s.win, t.image = s.image, t.session = s.session, t.cursor = s.cursor,
         OutputOK(t.out, t.since, t.copied),
         \A f \in Copies : t.copy[f] # Nil => CopyOK(t.copy[f], t.out, t.since, t.copied)
  PROVE  CaptureInv(t)
<1>1. \A x \in Sessions : t.session[x] # Nil => SessionOK(t.session[x], t.out, t.win, t.cursor, t.image)
  BY DEF CaptureInv
<1>2. \A x, y \in Sessions : CursorOf(t.session[x]) /\ CursorOf(t.session[y]) => x = y
  BY DEF CaptureInv
<1> QED BY <1>1, <1>2 DEF CaptureInv

LEMMA CopyChanges ==
  ASSUME NEW s, NEW f \in Copies, NEW c \in Copy \cup {Nil}, CaptureInv(s),
         c # Nil => CopyOK(c, s.out, s.since, s.copied)
  PROVE  CaptureInv([s EXCEPT !.copy[f] = c])
<1> DEFINE t == [s EXCEPT !.copy[f] = c]
<1>1. /\ t \in Captures /\ t.copy[f] = c
      /\ \A g \in Copies : g # f => t.copy[g] = s.copy[g]
      /\ t.out = s.out /\ t.win = s.win /\ t.image = s.image /\ t.session = s.session
      /\ t.since = s.since /\ t.copied = s.copied /\ t.cursor = s.cursor
  BY DEF CaptureInv, Captures
<1> HIDE DEF t
<1>2. \A g \in Copies : t.copy[g] # Nil => CopyOK(t.copy[g], t.out, t.since, t.copied)
  BY <1>1 DEF CaptureInv
<1>3. CaptureInv(t)
  BY <1>1, <1>2, CopiesChange DEF CaptureInv
<1> QED BY <1>3 DEF t

LEMMA CopyStep ==
  ASSUME CaptureIInv, NEW f \in Copies, NEW cursor \in BOOLEAN, capture(f, cursor)
  PROVE  CaptureIInv'
<1> DEFINE c == [cursor |-> cursor, damage |-> FALSE, waiting |-> FALSE, since |-> TRUE]
           since == IF cap.since = Nil THEN "damaged" ELSE cap.since
<1>1. cap' = [cap EXCEPT !.since = since, !.copy[f] = c] /\ cap \in Captures /\ cap.out # Nil
  BY DEF capture, CaptureIInv, CaptureInv, Active
<1>2. c \in Copy /\ c.waiting = FALSE /\ since \in {"damaged", "clean"}
      /\ (since = "clean" => cap.since = "clean")
  BY <1>1 DEF Copy, Captures
<1> HIDE DEF c, since
<1>3. /\ cap' \in Captures /\ cap'.copy[f] = c /\ cap'.since = since
      /\ \A g \in Copies : g # f => cap'.copy[g] = cap.copy[g]
      /\ cap'.out = cap.out /\ cap'.win = cap.win /\ cap'.image = cap.image
      /\ cap'.session = cap.session /\ cap'.copied = cap.copied /\ cap'.cursor = cap.cursor
  BY <1>1, <1>2 DEF Captures
<1>4. OutputOK(cap.out, since, cap.copied) /\ since # Nil
  BY <1>1, <1>2, CaptureAssumption DEF OutputOK, CaptureIInv, CaptureInv
<1>5. CopyOK(c, cap.out, since, cap.copied)
  BY <1>1, <1>2, <1>4 DEF CopyOK
<1>6. ASSUME NEW g \in Copies, g # f, cap.copy[g] # Nil
      PROVE  CopyOK(cap.copy[g], cap.out, since, cap.copied)
  BY <1>4, <1>6 DEF CaptureIInv, CaptureInv, CopyOK
<1> QED BY <1>3, <1>4, <1>5, <1>6, CopiesChange DEF CaptureIInv

\* frame_request: it waits for a frame that comes, or has the newest image.
LEMMA RequestStep ==
  ASSUME CaptureIInv, NEW f \in Copies, NEW damage \in BOOLEAN, frame_request(f, damage)
  PROVE  CaptureIInv'
<1> DEFINE e == cap.copy[f]
           c == [e EXCEPT !.waiting = TRUE, !.damage = damage]
           t == [cap EXCEPT !.copy[f] = c]
<1>1. /\ cap \in Captures /\ e \in Copy /\ CopyOK(e, cap.out, cap.since, cap.copied)
      /\ OutputOK(cap.out, cap.since, cap.copied)
  BY DEF frame_request, CaptureIInv, CaptureInv, Captures
<1>2. cap' = IF ~cap.out.active THEN [cap EXCEPT !.copy[f] = Nil]
             ELSE IF ~damage \/ ~e.since \/ cap.since = "damaged"
             THEN screen_schedule_frame(t) ELSE t
  <2> DEFINE u == [cap EXCEPT !.copy[f].waiting = TRUE, !.copy[f].damage = damage]
  <2>1. u = t
    BY <1>1 DEF Captures, Copy
  <2>2. cap' = IF ~cap.out.active THEN [cap EXCEPT !.copy[f] = Nil]
               ELSE IF ~damage \/ ~e.since \/ cap.since = "damaged"
               THEN screen_schedule_frame(u) ELSE u
    BY DEF frame_request
  <2> HIDE DEF u, t
  <2> QED BY <2>1, <2>2
<1>3. c \in Copy /\ c.waiting /\ c.since = e.since /\ c.damage = damage
  BY <1>1 DEF Copy
<1> HIDE DEF c, e
<1>4. CASE ~cap.out.active
  BY <1>2, <1>4, CopyChanges DEF CaptureIInv
<1>5. CASE cap.out.active /\ (~damage \/ ~e.since \/ cap.since = "damaged")
  <2> DEFINE o == [cap.out EXCEPT !.frame = TRUE]
             u == [cap EXCEPT !.out = o]
  <2>1. CaptureInv(u)
    <3>1. u = screen_schedule_frame(cap)
      BY <1>1 DEF screen_schedule_frame
    <3>2. cap.out # Nil
      BY <1>1 DEF CopyOK
    <3> QED BY <3>1, <3>2, FrameScheduled DEF CaptureIInv
  <2>2. cap' = [u EXCEPT !.copy[f] = c]
    BY <1>1, <1>2, <1>3, <1>5 DEF screen_schedule_frame, Captures
  <2>3. o \in Output /\ o # Nil /\ o.frame
    BY <1>1, CaptureNils DEF CopyOK, Captures, Output
  <2>4. u.out = o /\ u.since = cap.since /\ u.copied = cap.copied
    BY <1>1 DEF Captures
  <2> HIDE DEF u, o
  <2>5. CopyOK(c, u.out, u.since, u.copied)
    BY <1>1, <1>3, <2>3, <2>4 DEF CopyOK, Comes
  <2> QED BY <1>3, <2>1, <2>2, <2>5, CopyChanges DEF CaptureIInv
<1>6. CASE cap.out.active /\ damage /\ e.since /\ cap.since # "damaged"
  <2>1. cap' = t
    BY <1>2, <1>6
  <2>2. cap.since = "clean"
    BY <1>1, <1>6 DEF CopyOK, Captures
  <2>3. CopyOK(c, cap.out, cap.since, cap.copied)
    BY <1>1, <1>3, <1>6, <2>2 DEF CopyOK, OutputOK, Comes
  <2> QED BY <1>3, <2>1, <2>3, CopyChanges DEF CaptureIInv
<1> QED BY <1>4, <1>5, <1>6

LEMMA CopyDestroyed ==
  ASSUME CaptureIInv, NEW f \in Copies, frame_destroy(f)
  PROVE  CaptureIInv'
BY CopyChanges DEF frame_destroy, CaptureIInv

\* manager_resource_destroy: its copies no longer wait for damage.
LEMMA ManagerStep ==
  ASSUME CaptureIInv, manager_resource_destroy
  PROVE  CaptureIInv'
<1> DEFINE Without(c) == IF c = Nil THEN Nil ELSE [c EXCEPT !.since = FALSE]
           copies == [f \in Copies |-> Without(cap.copy[f])]
<1>1. cap' = [cap EXCEPT !.since = Nil, !.copied = Nil, !.copy = copies] /\ cap \in Captures
  BY DEF manager_resource_destroy, CaptureIInv, CaptureInv, Captures
<1>2. ASSUME NEW f \in Copies
      PROVE  /\ Without(cap.copy[f]) \in Copy \cup {Nil}
             /\ Without(cap.copy[f]) # Nil => CopyOK(Without(cap.copy[f]), cap.out, Nil, Nil)
  <2>1. cap.copy[f] \in Copy \cup {Nil}
        /\ (cap.copy[f] # Nil => CopyOK(cap.copy[f], cap.out, cap.since, cap.copied))
    BY <1>1 DEF Captures, CaptureIInv, CaptureInv
  <2>2. CASE cap.copy[f] = Nil
    BY <2>2
  <2>3. CASE cap.copy[f] # Nil
    <3> DEFINE d == Without(cap.copy[f])
    <3>1. d \in Copy /\ ~d.since /\ d.waiting = cap.copy[f].waiting /\ d.damage = cap.copy[f].damage
      BY <2>1, <2>3 DEF Copy
    <3> HIDE DEF d
    <3>2. CopyOK(d, cap.out, Nil, Nil)
      BY <2>1, <2>3, <3>1 DEF CopyOK
    <3> QED BY <3>1, <3>2 DEF d
  <2> QED BY <2>2, <2>3
<1>3. /\ copies \in [Copies -> Copy \cup {Nil}]
      /\ \A f \in Copies : copies[f] # Nil => CopyOK(copies[f], cap.out, Nil, Nil)
  BY <1>2
<1> HIDE DEF copies, Without
<1>4. /\ cap' \in Captures /\ cap'.copy = copies /\ cap'.since = Nil /\ cap'.copied = Nil
      /\ cap'.out = cap.out /\ cap'.win = cap.win /\ cap'.image = cap.image
      /\ cap'.session = cap.session /\ cap'.cursor = cap.cursor
  BY <1>1, <1>3 DEF Captures
<1>5. OutputOK(cap.out, Nil, Nil)
  BY CaptureAssumption DEF OutputOK, CaptureIInv, CaptureInv
<1> QED BY <1>3, <1>4, <1>5, CopiesChange DEF CaptureIInv

-----------------------------------------------------------------------------
(* A frame. *)

\* A session whose wait is not looked at: its frame was taken.
SessionSeen(e, out, win, cursor, image) ==
  /\ e.live => IF e.what = "window" THEN win # "gone" ELSE out # Nil
  /\ ~e.live => e.frame \notin {"capturing", "copying"}
  /\ e.live /\ e.what = "cursor" => cursor # Nil /\ cursor.requested
  /\ e.live /\ e.what = "output" /\ ~out.damaged /\ ~e.damaged => e.seen = out.shown
  /\ e.live /\ e.frame = "capturing" =>
       (e.what = "cursor" => ~cursor.entered \/ cursor.served = image)

\* While a frame is served: the copies that are done are right.
FrameOK(s, content, done) ==
  /\ s \in Captures
  /\ s.out # Nil /\ s.out.active /\ ~s.out.damaged /\ ~s.out.failed /\ s.out.shown = content
  /\ OutputOK(s.out, s.since, s.copied)
  /\ \A x, y \in Sessions : CursorOf(s.session[x]) /\ CursorOf(s.session[y]) => x = y
  /\ \A f \in Copies : s.copy[f] # Nil /\ s.copy[f].since => s.since # Nil
  /\ \A f \in done : s.copy[f] # Nil => CopyOK(s.copy[f], s.out, s.since, s.copied)

SessionsSeen(s) ==
  \A x \in Sessions : s.session[x] # Nil => SessionSeen(s.session[x], s.out, s.win, s.cursor, s.image)

SessionsOK(s) ==
  \A x \in Sessions : s.session[x] # Nil => SessionOK(s.session[x], s.out, s.win, s.cursor, s.image)

\* The output, before its damage is passed on.
Shows(o, old, scanout, commits) ==
  /\ o \in Output /\ ~o.frame /\ o.scanout = scanout /\ o.active = old.active
  /\ o.damaged \/ (~old.damaged /\ ~old.scanout /\ ~scanout
                   /\ o.ops = old.ops /\ o.presented = old.presented /\ o.shown = old.shown)
  /\ IF commits THEN /\ ~o.failed /\ o.shown = old.scene
                     /\ ~scanout => o.ops = o.shown /\ o.presented = o.shown
     ELSE o.failed /\ o.shown = old.shown /\ o.presented = old.presented

\* A frame that failed: the damage stays, and nobody is owed the next frame.
LEMMA FailedStep ==
  ASSUME CaptureIInv, NEW o, NEW scanout \in BOOLEAN, cap.out # Nil, cap' = [cap EXCEPT !.out = o],
         Shows(o, cap.out, scanout, FALSE)
  PROVE  CaptureIInv'
<1>1. cap \in Captures /\ o # Nil
  BY CaptureNils DEF CaptureIInv, CaptureInv, Shows
<1>2. /\ cap' \in Captures /\ cap'.out = o /\ cap'.win = cap.win /\ cap'.image = cap.image
      /\ cap'.copy = cap.copy /\ cap'.since = cap.since /\ cap'.copied = cap.copied
      /\ cap'.session = cap.session /\ cap'.cursor = cap.cursor
  BY <1>1 DEF Captures, Shows
<1>3. Comes(o)
  BY DEF Shows, Comes
<1>4. OutputOK(o, cap.since, cap.copied)
  BY <1>1 DEF OutputOK, CaptureIInv, CaptureInv, Shows
<1>5. ASSUME NEW x \in Sessions, cap.session[x] # Nil
      PROVE  SessionOK(cap.session[x], o, cap.win, cap.cursor, cap.image)
  <2>1. SessionOK(cap.session[x], cap.out, cap.win, cap.cursor, cap.image)
    BY <1>5 DEF CaptureIInv, CaptureInv
  <2> QED BY <1>1, <1>3, <2>1 DEF SessionOK, Shows
<1>6. \A f \in Copies : cap.copy[f] # Nil => CopyOK(cap.copy[f], o, cap.since, cap.copied)
  BY <1>1, <1>3 DEF CopyOK, CaptureIInv, CaptureInv
<1>7. \A x, y \in Sessions : CursorOf(cap.session[x]) /\ CursorOf(cap.session[y]) => x = y
  BY DEF CaptureIInv, CaptureInv
<1> QED BY <1>2, <1>4, <1>5, <1>6, <1>7 DEF CaptureIInv, CaptureInv

\* The damage is passed on: everybody who has not got the new image knows.
LEMMA BroadcastIs ==
  ASSUME CaptureIInv, NEW o, NEW scanout \in BOOLEAN, NEW t, cap.out # Nil, cap.out.active,
         t = [cap EXCEPT !.out = o], Shows(o, cap.out, scanout, TRUE)
  PROVE  FrameOK(Broadcast(t), cap.out.scene, {}) /\ SessionsSeen(Broadcast(t))
<1> DEFINE b == Broadcast(t)
           content == cap.out.scene
<1>1. cap \in Captures /\ o # Nil /\ o \in Output /\ cap.out \in Output
  BY CaptureNils DEF CaptureIInv, CaptureInv, Shows, Captures
<1>2. /\ t \in Captures /\ t.out = o /\ t.win = cap.win /\ t.image = cap.image
      /\ t.copy = cap.copy /\ t.since = cap.since /\ t.copied = cap.copied
      /\ t.session = cap.session /\ t.cursor = cap.cursor
  BY <1>1 DEF Captures
<1>3. /\ OutputOK(cap.out, cap.since, cap.copied)
      /\ \A x, y \in Sessions : CursorOf(cap.session[x]) /\ CursorOf(cap.session[y]) => x = y
      /\ \A f \in Copies : cap.copy[f] # Nil /\ cap.copy[f].since => cap.since # Nil
  BY DEF CaptureIInv, CaptureInv, CopyOK
<1>4. ASSUME NEW x \in Sessions, cap.session[x] # Nil
      PROVE  /\ SessionSeen(cap.session[x], cap.out, cap.win, cap.cursor, cap.image)
             /\ cap.session[x] \in Session
  <2>1. SessionOK(cap.session[x], cap.out, cap.win, cap.cursor, cap.image)
    BY <1>4 DEF CaptureIInv, CaptureInv
  <2> QED BY <1>1, <1>4, <2>1 DEF SessionOK, SessionSeen, Captures
<1>5. o.active /\ ~o.failed /\ o.shown = content /\ (~scanout => o.ops = o.shown /\ o.presented = o.shown)
      /\ o.scanout = scanout
  BY DEF Shows
<1>6. CASE ~o.damaged
  <2>1. b = t
    BY <1>2, <1>6 DEF Broadcast
  <2>2. ~cap.out.damaged /\ o.shown = cap.out.shown
    BY <1>6 DEF Shows
  <2>3. OutputOK(o, cap.since, cap.copied)
    BY <1>1, <1>3, <1>5, <1>6, <2>2 DEF OutputOK
  <2>4. FrameOK(t, content, {})
    BY <1>1, <1>2, <1>3, <1>5, <1>6, <2>3 DEF FrameOK
  <2>5. ASSUME NEW x \in Sessions, cap.session[x] # Nil
        PROVE  SessionSeen(cap.session[x], o, cap.win, cap.cursor, cap.image)
    BY <1>1, <1>4, <1>6, <2>2, <2>5 DEF SessionSeen
  <2> HIDE DEF b
  <2>6. FrameOK(b, content, {}) /\ SessionsSeen(b)
    BY <1>2, <2>1, <2>4, <2>5 DEF SessionsSeen
  <2> QED BY <2>6 DEF b
<1>7. CASE o.damaged
  <2> DEFINE Told(x) == IF x \in Listed(t, "output") THEN [cap.session[x] EXCEPT !.damaged = TRUE]
                        ELSE cap.session[x]
             p == [o EXCEPT !.damaged = FALSE]
             since == IF cap.since = Nil THEN Nil ELSE "damaged"
             sessions == [x \in Sessions |-> Told(x)]
  <2>1. b = [t EXCEPT !.out = p, !.since = since, !.session = sessions]
    BY <1>2, <1>7 DEF Broadcast, Captures
  <2>2. /\ p \in Output /\ p # Nil /\ p.active /\ ~p.failed /\ p.shown = content /\ ~p.damaged
        /\ ~p.scanout => p.ops = p.shown /\ p.presented = p.shown
    BY <1>1, <1>5, CaptureNils DEF Output
  <2>3. ASSUME NEW x \in Sessions
         PROVE  x \in Listed(t, "output") <=> cap.session[x] # Nil /\ cap.session[x].live
                                               /\ cap.session[x].what = "output"
    BY <1>2 DEF Listed
  <2>4. ASSUME NEW x \in Sessions
        PROVE  /\ Told(x) \in Session \cup {Nil} /\ (Told(x) # Nil <=> cap.session[x] # Nil)
               /\ CursorOf(Told(x)) <=> CursorOf(cap.session[x])
               /\ Told(x) # Nil => SessionSeen(Told(x), p, cap.win, cap.cursor, cap.image)
    <3> DEFINE e == cap.session[x]
               d == [e EXCEPT !.damaged = TRUE]
    <3>1. e \in Session \cup {Nil}
      BY <1>1 DEF Captures
    <3>2. e # Nil => SessionSeen(e, cap.out, cap.win, cap.cursor, cap.image)
      BY <1>4
    <3>3. CASE x \in Listed(t, "output")
      <4>1. e # Nil /\ e \in Session /\ e.live /\ e.what = "output" /\ Told(x) = d
        BY <2>3, <3>1, <3>3
      <4>2. d \in Session /\ d # Nil /\ d.live /\ d.what = "output" /\ d.damaged
        BY <4>1, CaptureNils DEF Session
      <4> HIDE DEF d, e, Told
      <4>3. SessionSeen(d, p, cap.win, cap.cursor, cap.image) /\ ~CursorOf(d) /\ ~CursorOf(e)
        BY <2>2, <4>1, <4>2 DEF SessionSeen, CursorOf
      <4> QED BY <4>1, <4>2, <4>3 DEF e
    <3>4. CASE x \notin Listed(t, "output")
      <4>1. Told(x) = e
        BY <3>4
      <4>2. e # Nil => ~(e.live /\ e.what = "output")
        BY <2>3, <3>4
      <4> HIDE DEF e, Told
      <4>3. e # Nil => SessionSeen(e, p, cap.win, cap.cursor, cap.image)
        BY <2>2, <3>2, <4>2 DEF SessionSeen
      <4> QED BY <3>1, <4>1, <4>3 DEF e
    <3> QED BY <3>3, <3>4
  <2> HIDE DEF p, Told
  <2>5. /\ sessions \in [Sessions -> Session \cup {Nil}]
        /\ \A x \in Sessions : sessions[x] = Told(x)
    BY <2>4
  <2>6. since \in {Nil, "damaged", "clean"} /\ since # "clean" /\ (cap.since # Nil => since # Nil)
    BY CaptureAssumption
  <2> HIDE DEF sessions, since, b
  <2>7. p \in Output \cup {Nil}
    BY <2>2
  <2>8. /\ b \in Captures /\ b.out = p /\ b.win = cap.win /\ b.image = cap.image
        /\ b.copy = cap.copy /\ b.since = since /\ b.copied = cap.copied
        /\ b.session = sessions /\ b.cursor = cap.cursor
    BY <1>2, <2>1, <2>5, <2>6, <2>7 DEF Captures
  <2>9. OutputOK(p, since, cap.copied)
    BY <2>2, <2>6 DEF OutputOK
  <2>10. FrameOK(b, content, {})
    BY <1>3, <2>2, <2>4, <2>5, <2>6, <2>8, <2>9 DEF FrameOK
  <2>11. SessionsSeen(b)
    BY <2>4, <2>5, <2>8 DEF SessionsSeen
  <2> QED BY <2>10, <2>11 DEF b
<1> QED BY <1>6, <1>7

\* The sessions are served: who is left waiting has a frame coming, or nothing to see.
LEMMA SessionsServedIs ==
  ASSUME NEW s, NEW content \in Nat, NEW bare \in BOOLEAN, NEW how \in [Sessions -> How],
         FrameOK(s, content, {}), SessionsSeen(s)
  PROVE  /\ FrameOK(SessionsServed(s, content, bare, how), content, {})
         /\ SessionsOK(SessionsServed(s, content, bare, how))
<1> DEFINE v == SessionsServed(s, content, bare, how)
           listed == Listed(s, "output") \cup Listed(s, "window")
           r(x) == IF x \in listed THEN serve_session(s, s.session[x], content, bare, how[x])
                   ELSE Served(s.session[x], FALSE)
           sessions == [x \in Sessions |-> r(x).session]
           frame == s.out.frame \/ \E x \in Sessions : r(x).again
           o == [s.out EXCEPT !.frame = frame]
<1>1. s \in Captures /\ s.out \in Output
  BY DEF FrameOK, Captures
<1>2. v = [s EXCEPT !.session = sessions, !.out = o]
  <2> DEFINE served == [x \in Sessions |-> r(x)]
  <2>1. v = [s EXCEPT !.session = [x \in Sessions |-> served[x].session],
                      !.out.frame = @ \/ \E x \in Sessions : served[x].again]
    BY DEF SessionsServed
  <2>2. /\ \A x \in Sessions : served[x] = r(x)
        /\ (\E x \in Sessions : served[x].again) <=> \E x \in Sessions : r(x).again
    OBVIOUS
  <2> HIDE DEF served, r
  <2>3. [x \in Sessions |-> served[x].session] = sessions
    BY <2>2
  <2> HIDE DEF sessions
  <2> QED BY <1>1, <2>1, <2>2, <2>3 DEF Captures
<1>3. ASSUME NEW x \in Sessions
      PROVE  /\ x \in listed <=> /\ s.session[x] # Nil /\ s.session[x].live
                                 /\ s.session[x].what \in {"output", "window"}
             /\ s.session[x] \in Session \cup {Nil}
             /\ s.session[x] # Nil => SessionSeen(s.session[x], s.out, s.win, s.cursor, s.image)
  BY <1>1 DEF Listed, SessionsSeen, Captures
<1>4. ASSUME NEW x \in listed
      PROVE  ServedOK(s, s.session[x], content, r(x))
  <2>1. x \in Sessions
    BY ListedAre
  <2>2. s.session[x] \in Session /\ s.session[x].live /\ s.session[x].what # "cursor"
    BY <1>3, <2>1
  <2>3. content \in Nat \cup {Nil} /\ how[x] \in How
    BY <2>1
  <2>4. ServedOK(s, s.session[x], content, serve_session(s, s.session[x], content, bare, how[x]))
    BY <1>1, <2>2, <2>3, ServedIs
  <2> QED BY <2>4
<1>5. ASSUME NEW x \in Sessions \ listed
      PROVE  r(x).session = s.session[x] /\ r(x).again = FALSE
  BY DEF Served
<1> HIDE DEF r, listed, v
<1>6. sessions \in [Sessions -> Session \cup {Nil}] /\ frame \in BOOLEAN
      /\ \A x \in Sessions : sessions[x] = r(x).session
  <2>1. ASSUME NEW x \in Sessions PROVE r(x).session \in Session \cup {Nil}
    BY <1>3, <1>4, <1>5 DEF ServedOK
  <2>2. frame \in BOOLEAN
    BY <1>1 DEF Output
  <2> QED BY <2>1, <2>2
<1>7. \A x \in Sessions : r(x).again => frame
  OBVIOUS
<1> HIDE DEF sessions, frame
<1>8. /\ o \in Output /\ o.active = s.out.active /\ o.damaged = s.out.damaged
      /\ o.scanout = s.out.scanout /\ o.ops = s.out.ops /\ o.shown = s.out.shown
      /\ o.presented = s.out.presented /\ o.failed = s.out.failed /\ o.frame = frame
  BY <1>1, <1>6 DEF Output
<1> HIDE DEF o
<1>9. o # Nil /\ o \in Output \cup {Nil}
  BY <1>8, CaptureNils
<1>10. /\ v \in Captures /\ v.out = o /\ v.win = s.win /\ v.image = s.image
       /\ v.copy = s.copy /\ v.since = s.since /\ v.copied = s.copied
       /\ v.session = sessions /\ v.cursor = s.cursor
  BY <1>1, <1>2, <1>6, <1>9 DEF Captures
<1>11. OutputOK(o, s.since, s.copied)
  BY <1>8, <1>9 DEF OutputOK, FrameOK
<1>12. \A x \in Sessions : CursorOf(sessions[x]) => CursorOf(s.session[x])
  <2> SUFFICES ASSUME NEW x \in Sessions, CursorOf(sessions[x]) PROVE CursorOf(s.session[x])
    OBVIOUS
  <2>1. CASE x \in listed
    <3>1. r(x).session.what = s.session[x].what /\ s.session[x].what \in {"output", "window"}
      BY <1>3, <1>4, <2>1 DEF ServedOK
    <3> QED BY <1>6, <3>1 DEF CursorOf
  <2>2. CASE x \notin listed
    BY <1>5, <1>6, <2>2
  <2> QED BY <2>1, <2>2
<1>13. FrameOK(v, content, {})
  BY <1>8, <1>9, <1>10, <1>11, <1>12 DEF FrameOK
<1>14. ASSUME NEW x \in Sessions, sessions[x] # Nil
       PROVE  SessionOK(sessions[x], o, s.win, s.cursor, s.image)
  <2> DEFINE e == s.session[x]
             d == r(x).session
  <2>1. sessions[x] = d
    BY <1>6
  <2>2. CASE x \in listed
    <3>1. /\ e # Nil /\ e.live /\ e.what \in {"output", "window"}
          /\ SessionSeen(e, s.out, s.win, s.cursor, s.image)
      BY <1>3, <2>2
    <3>2. /\ d.live /\ d.what = e.what
          /\ d.frame = "capturing" =>
               /\ e.what = "window" => s.win \notin Sizes
               /\ e.what = "output" => ~Active(s) \/ ~d.damaged \/ r(x).again
          /\ ~d.damaged => (~e.damaged /\ d.seen = e.seen) \/ d.seen = content
      BY <1>4, <2>2 DEF ServedOK
    <3>3. r(x).again => o.frame
      BY <1>7, <1>8
    <3>4. Active(s) /\ ~o.damaged /\ o.shown = content /\ ~s.out.damaged /\ s.out.shown = content
      BY <1>8 DEF FrameOK, Active
    <3> HIDE DEF d, e
    <3>5. SessionOK(d, o, s.win, s.cursor, s.image)
      BY <1>9, <3>1, <3>2, <3>3, <3>4 DEF SessionOK, SessionSeen, Comes
    <3> QED BY <2>1, <3>5
  <2>3. CASE x \notin listed
    <3>1. d = e /\ e # Nil /\ e \in Session
      BY <1>3, <1>5, <1>14, <2>1, <2>3
    <3>2. ~(e.live /\ e.what \in {"output", "window"}) /\ SessionSeen(e, s.out, s.win, s.cursor, s.image)
      BY <1>3, <2>3, <3>1
    <3> HIDE DEF d, e
    <3>3. SessionOK(e, o, s.win, s.cursor, s.image)
      BY <1>9, <3>1, <3>2 DEF SessionOK, SessionSeen, Session
    <3> QED BY <2>1, <3>1, <3>3
  <2> QED BY <2>2, <2>3
<1>15. SessionsOK(v)
  BY <1>10, <1>14 DEF SessionsOK
<1> QED BY <1>13, <1>15 DEF v

\* One copy is served; who was served already stays so.
LEMMA CopyServedIs ==
  ASSUME NEW s, NEW content \in Nat, NEW bare \in BOOLEAN, NEW how \in How, NEW f \in Copies,
         NEW done \in SUBSET Copies, FrameOK(s, content, done), SessionsOK(s)
  PROVE  /\ FrameOK(serve_copy(s, f, content, bare, how), content, done \cup {f})
         /\ SessionsOK(serve_copy(s, f, content, bare, how))
<1> DEFINE t == serve_copy(s, f, content, bare, how)
           c == s.copy[f]
<1>1. s \in Captures /\ s.out \in Output /\ c \in Copy \cup {Nil}
  BY DEF FrameOK, Captures
<1>2. CASE c = Nil \/ ~c.waiting \/ ~Due(s, f)
  <2>1. t = s
    BY <1>2 DEF serve_copy
  <2>2. c # Nil => CopyOK(c, s.out, s.since, s.copied)
    <3> SUFFICES ASSUME c # Nil PROVE CopyOK(c, s.out, s.since, s.copied)
      OBVIOUS
    <3>1. s.out # Nil /\ (c.since => s.since # Nil)
      BY DEF FrameOK
    <3>2. CASE ~c.waiting
      BY <3>1, <3>2 DEF CopyOK
    <3>3. CASE ~Due(s, f)
      <4>1. c.damage /\ c.since /\ s.since # "damaged"
        BY <3>3 DEF Due
      <4>2. s.since = "clean"
        BY <1>1, <3>1, <4>1 DEF Captures
      <4>3. s.copied = s.out.shown
        BY <4>2 DEF FrameOK, OutputOK
      <4> QED BY <3>1, <4>1, <4>3 DEF CopyOK
    <3> QED BY <1>2, <3>2, <3>3
  <2> QED BY <2>1, <2>2 DEF FrameOK
<1>3. CASE ~(c = Nil \/ ~c.waiting \/ ~Due(s, f)) /\ ~c.cursor /\ ~bare
  <2> DEFINE o == [s.out EXCEPT !.frame = TRUE]
  <2>1. t = [s EXCEPT !.out = o]
    BY <1>3 DEF serve_copy, screen_schedule_frame
  <2>2. /\ o \in Output /\ o.active = s.out.active /\ o.damaged = s.out.damaged
        /\ o.scanout = s.out.scanout /\ o.ops = s.out.ops /\ o.shown = s.out.shown
        /\ o.presented = s.out.presented /\ o.failed = s.out.failed /\ o.frame
    BY <1>1 DEF Output
  <2> HIDE DEF o, t
  <2>3. o # Nil /\ o \in Output \cup {Nil}
    BY <2>2, CaptureNils
  <2>4. /\ t \in Captures /\ t.out = o /\ t.win = s.win /\ t.image = s.image
        /\ t.copy = s.copy /\ t.since = s.since /\ t.copied = s.copied
        /\ t.session = s.session /\ t.cursor = s.cursor
    BY <1>1, <2>1, <2>3 DEF Captures
  <2>5. OutputOK(o, s.since, s.copied)
    BY <2>2, <2>3 DEF OutputOK, FrameOK
  <2>6. ASSUME NEW g \in Copies, s.copy[g] # Nil
        PROVE  CopyOK(s.copy[g], o, s.since, s.copied)
    <3>1. s.copy[g].since => s.since # Nil
      BY <2>6 DEF FrameOK
    <3> QED BY <2>2, <2>3, <3>1 DEF CopyOK, Comes
  <2>7. FrameOK(t, content, done \cup {f})
    BY <2>2, <2>3, <2>4, <2>5, <2>6 DEF FrameOK
  <2>8. ASSUME NEW x \in Sessions, s.session[x] # Nil
        PROVE  SessionOK(s.session[x], o, s.win, s.cursor, s.image)
    <3>1. SessionOK(s.session[x], s.out, s.win, s.cursor, s.image)
      BY <2>8 DEF SessionsOK
    <3>2. s.out # Nil
      BY DEF FrameOK
    <3> QED BY <2>2, <2>3, <3>1, <3>2 DEF SessionOK, Comes
  <2>9. SessionsOK(t)
    BY <2>4, <2>8 DEF SessionsOK
  <2> QED BY <2>7, <2>9 DEF t
<1>4. CASE ~(c = Nil \/ ~c.waiting \/ ~Due(s, f)) /\ ~(~c.cursor /\ ~bare)
  <2> DEFINE taken == how # "fails" /\ c.since
             since == IF taken THEN "clean" ELSE s.since
             copied == IF taken THEN content ELSE s.copied
  <2>1. t = [s EXCEPT !.copy[f] = Nil, !.since = since, !.copied = copied]
    <3>1. CASE how = "fails"
      <4>1. t = [s EXCEPT !.copy[f] = Nil]
        BY <1>4, <3>1 DEF serve_copy
      <4>2. since = s.since /\ copied = s.copied
        BY <3>1
      <4> HIDE DEF since, copied, t
      <4> QED BY <1>1, <4>1, <4>2 DEF Captures
    <3>2. CASE how # "fails"
      <4>1. t = [s EXCEPT !.copy[f] = Nil,
                          !.since = IF c.since THEN "clean" ELSE s.since,
                          !.copied = IF c.since THEN content ELSE s.copied]
        BY <1>4, <3>2 DEF serve_copy
      <4> QED BY <3>2, <4>1
    <3> QED BY <3>1, <3>2
  <2>2. /\ since \in {Nil, "damaged", "clean"} /\ copied \in Nat \cup {Nil}
        /\ (s.since # Nil => since # Nil)
        /\ taken \/ (since = s.since /\ copied = s.copied)
        /\ taken => copied = content
    BY <1>1, CaptureAssumption DEF Captures
  <2>3. s.out.shown = content /\ s.out # Nil /\ ~s.out.damaged
        /\ (~taken => OutputOK(s.out, s.since, s.copied))
        /\ (taken => s.since # Nil)
        /\ (~s.out.scanout => s.out.ops = s.out.shown /\ s.out.presented = s.out.shown)
    BY <1>4 DEF FrameOK, OutputOK
  <2> HIDE DEF since, copied, t, taken
  <2>4. /\ t \in Captures /\ t.out = s.out /\ t.win = s.win /\ t.image = s.image
        /\ t.copy[f] = Nil /\ t.since = since /\ t.copied = copied
        /\ \A g \in Copies : g # f => t.copy[g] = s.copy[g]
        /\ t.session = s.session /\ t.cursor = s.cursor
    BY <1>1, <2>1, <2>2 DEF Captures
  <2>5. OutputOK(s.out, since, copied)
    BY <2>2, <2>3 DEF OutputOK
  <2>6. ASSUME NEW g \in done, g # f, s.copy[g] # Nil
        PROVE  CopyOK(s.copy[g], s.out, since, copied)
    <3>1. CopyOK(s.copy[g], s.out, s.since, s.copied)
      BY <2>6 DEF FrameOK
    <3> QED BY <2>2, <2>3, <3>1 DEF CopyOK
  <2>7. FrameOK(t, content, done \cup {f})
    BY <2>2, <2>4, <2>5, <2>6 DEF FrameOK
  <2>8. SessionsOK(t)
    BY <2>4 DEF SessionsOK
  <2> QED BY <2>7, <2>8 DEF t
<1> QED BY <1>2, <1>3, <1>4

\* Induction: a set of numbers has a least.
LEMMA Smallest ==
  ASSUME NEW T \in SUBSET Nat, T # {}
  PROVE  \E x \in T : \A y \in T : ~(y < x)
<1> DEFINE R == {ss \in Nat \X Nat : ss[1] < ss[2]}
<1>1. IsWellFoundedOn(R, Nat)
  BY NatLessThanWellFounded DEF OpToRel
<1>2. \A x, y \in Nat : y < x => <<y, x>> \in R
  OBVIOUS
<1> HIDE DEF R
<1>3. T \subseteq Nat
  OBVIOUS
<1>4. \E x \in T : \A y \in T : ~(<<y, x>> \in R)
  BY <1>1, <1>3, WFMin
<1> QED BY <1>2, <1>3, <1>4

\* The members of a set, one after the other: all of them.
LEMMA OneAfterTheOther ==
  ASSUME NEW S, IsFiniteSet(S)
  PROVE  LET members == SetToSeq(S)
         IN  /\ Len(members) \in Nat
             /\ S = {members[i] : i \in 1..Len(members)}
<1> DEFINE n == Cardinality(S)
           members == SetToSeq(S)
<1>1. n \in Nat /\ ExistsBijection(1..n, S)
  BY FS_CardinalityType
<1>2. PICK f \in [1..n -> S] : IsInjective(f)
  BY <1>1 DEF ExistsBijection, Bijection, Injection
<1>3. members \in [1..n -> S] /\ IsInjective(members)
  BY <1>2 DEF SetToSeq
<1> HIDE DEF members
<1>4. Len(members) = n
  <2>1. members \in Seq(S) /\ DOMAIN members = 1..n
    BY <1>1, <1>3
  <2> HIDE DEF n
  <2> QED BY <1>1, <2>1
<1>5. members \in Surjection(1..n, S)
  <2>1. members \in Injection(1..n, S)
    BY <1>3 DEF Injection
  <2>2. Cardinality(1..n) = n
    <3>1. 1 \in Int /\ n \in Int
      BY <1>1
    <3>2. Cardinality(1..n) = IF 1 > n THEN 0 ELSE n - 1 + 1
      <4> HIDE DEF n
      <4> QED BY <3>1, FS_Interval
    <3> HIDE DEF n
    <3> QED BY <1>1, <3>2
  <2> QED BY <1>1, <2>1, <2>2, FS_Injection
<1>6. S = {members[i] : i \in 1..n}
  BY <1>3, <1>5 DEF Surjection
<1> HIDE DEF n
<1> QED BY <1>1, <1>4, <1>6 DEF members

\* The state after each copy, as the loop of the code makes it.
CopyLoop(s, frames, content, bare, how, After, k) ==
  After = [i \in 0..k |-> IF i = 0 THEN s ELSE serve_copy(After[i - 1], frames[i], content, bare, how[frames[i]])]

LEMMA CopyLoopEnds ==
  ASSUME NEW s, NEW frames, NEW content, NEW bare, NEW how, NEW k \in Nat
  PROVE  \E After : CopyLoop(s, frames, content, bare, how, After, k)
<1> DEFINE Ends(i) == \E After : CopyLoop(s, frames, content, bare, how, After, i)
           T == {i \in Nat : ~Ends(i)}
<1>1. Ends(0)
  <2> DEFINE f == [i \in 0..0 |-> s]
  <2>1. f = [i \in 0..0 |-> IF i = 0 THEN s
                            ELSE serve_copy(f[i - 1], frames[i], content, bare, how[frames[i]])]
    OBVIOUS
  <2> QED BY <2>1 DEF CopyLoop
<1>2. ASSUME NEW i \in Nat, Ends(i) PROVE Ends(i + 1)
  <2>1. PICK f : CopyLoop(s, frames, content, bare, how, f, i)
    BY <1>2
  <2> DEFINE h == [x \in 0..(i + 1) |-> IF x = 0 THEN s
                     ELSE serve_copy(f[x - 1], frames[x], content, bare, how[frames[x]])]
  <2>2. \A x \in 0..i : h[x] = f[x]
    BY <2>1 DEF CopyLoop
  <2>3. \A x \in 0..(i + 1) : x # 0 => h[x - 1] = f[x - 1]
    <3>1. \A x \in 0..(i + 1) : x # 0 => x - 1 \in 0..i
      OBVIOUS
    <3> HIDE DEF h
    <3> QED BY <2>2, <3>1
  <2>4. h = [x \in 0..(i + 1) |-> IF x = 0 THEN s
               ELSE serve_copy(h[x - 1], frames[x], content, bare, how[frames[x]])]
    BY <2>3
  <2> QED BY <2>4 DEF CopyLoop
<1> HIDE DEF Ends
<1>3. T = {}
  <2> SUFFICES ASSUME T # {} PROVE FALSE
    OBVIOUS
  <2>1. PICK i \in T : \A y \in T : ~(y < i)
    BY Smallest
  <2>2. i # 0 /\ i \in Nat
    BY <1>1
  <2>3. i - 1 \in Nat /\ i - 1 < i /\ (i - 1) + 1 = i
    BY <2>2
  <2>4. Ends(i - 1)
    BY <2>1, <2>3
  <2>5. Ends((i - 1) + 1)
    BY <1>2, <2>3, <2>4
  <2> QED BY <2>3, <2>5
<1> QED BY <1>3 DEF Ends

\* All copies are served: of the states on the way, none is the first that is wrong.
LEMMA CopiesServedIs ==
  ASSUME NEW s, NEW content \in Nat, NEW bare \in BOOLEAN, NEW how \in [Copies -> How],
         FrameOK(s, content, {}), SessionsOK(s)
  PROVE  LET t == CopiesServed(s, content, bare, how)
         IN FrameOK(t, content, Copies) /\ SessionsOK(t)
<1> DEFINE frames == SetToSeq(Copies)
           n      == Len(frames)
           After  == CHOOSE f : CopyLoop(s, frames, content, bare, how, f, n)
           Done(i) == {frames[j] : j \in 1..i}
<1>1. n \in Nat /\ Copies = {frames[i] : i \in 1..n}
  BY OneAfterTheOther, CaptureAssumption
<1>2. CopiesServed(s, content, bare, how) = After[n]
  BY DEF CopiesServed, CopyLoop
<1> HIDE DEF frames, n
<1>3. CopyLoop(s, frames, content, bare, how, After, n)
  BY <1>1, CopyLoopEnds
<1> HIDE DEF After
<1>4. /\ After[0] = s
      /\ \A i \in 1..n : After[i] = serve_copy(After[i - 1], frames[i], content, bare, how[frames[i]])
  <2>1. \A i \in 0..n : After[i] = IF i = 0 THEN s
           ELSE serve_copy(After[i - 1], frames[i], content, bare, how[frames[i]])
    BY <1>3, Zenon DEF CopyLoop
  <2>2. 0 \in 0..n /\ \A i \in 1..n : i \in 0..n /\ i # 0
    BY <1>1
  <2> QED BY <2>1, <2>2
<1> DEFINE Good(i) == FrameOK(After[i], content, Done(i)) /\ SessionsOK(After[i])
           T == {i \in 0..n : ~Good(i)}
<1>5. Good(0)
  <2>1. Done(0) = {}
    OBVIOUS
  <2> HIDE DEF Done
  <2> QED BY <1>4, <2>1
<1>6. ASSUME NEW i \in 1..n, Good(i - 1) PROVE Good(i)
  <2>1. frames[i] \in Copies /\ how[frames[i]] \in How /\ Done(i - 1) \in SUBSET Copies
    BY <1>1
  <2>2. Done(i) = Done(i - 1) \cup {frames[i]}
    <3>1. 1..i = (1..(i - 1)) \cup {i}
      BY <1>1
    <3> QED BY <3>1
  <2>3. After[i] = serve_copy(After[i - 1], frames[i], content, bare, how[frames[i]])
    BY <1>4
  <2> DEFINE m == After[i - 1]
             f == frames[i]
             done == Done(i - 1)
  <2>4. FrameOK(m, content, done) /\ SessionsOK(m)
    BY <1>6
  <2>5. f \in Copies /\ how[f] \in How /\ done \in SUBSET Copies
    BY <2>1
  <2>6. After[i] = serve_copy(m, f, content, bare, how[f]) /\ Done(i) = done \cup {f}
    BY <2>2, <2>3
  <2> HIDE DEF m, f, done, Done
  <2>7. /\ FrameOK(serve_copy(m, f, content, bare, how[f]), content, done \cup {f})
        /\ SessionsOK(serve_copy(m, f, content, bare, how[f]))
    BY <2>4, <2>5, CopyServedIs
  <2> QED BY <2>6, <2>7
<1> HIDE DEF Good
<1>7. T = {}
  <2> SUFFICES ASSUME T # {} PROVE FALSE
    OBVIOUS
  <2>1. T \in SUBSET Nat
    BY <1>1
  <2>2. PICK i \in T : \A y \in T : ~(y < i)
    <3> HIDE DEF T
    <3> QED BY <2>1, Smallest
  <2>3. i # 0 /\ i \in 0..n /\ ~Good(i)
    BY <1>5
  <2>4. i \in 1..n /\ i - 1 \in 0..n /\ i - 1 < i
    BY <1>1, <2>3
  <2>5. Good(i - 1)
    BY <2>2, <2>4
  <2> QED BY <1>6, <2>3, <2>4, <2>5
<1>8. Good(n)
  BY <1>1, <1>7
<1>9. Done(n) = Copies
  BY <1>1
<1> HIDE DEF Done
<1> QED BY <1>2, <1>8, <1>9 DEF Good

\* output_frame.
LEMMA FrameStep ==
  ASSUME CaptureIInv, NEW scanout \in BOOLEAN, NEW rendered \in BOOLEAN, NEW commits \in BOOLEAN,
         NEW second \in BOOLEAN, NEW how \in [Sessions -> How],
         NEW howCopy \in [Copies -> {"ready", "fails"}],
         output_frame(scanout, rendered, commits, second, how, howCopy)
  PROVE  CaptureIInv'
<1> DEFINE o == cap.out
           draws == rendered /\ ~scanout
           damaged == o.damaged \/ scanout \/ o.scanout \/ (draws /\ o.ops # o.scene)
           ops == IF draws THEN o.scene ELSE o.ops
           p == [o EXCEPT !.frame = FALSE, !.scanout = scanout, !.damaged = damaged, !.ops = ops,
                          !.failed = ~commits]
           q == [p EXCEPT !.shown = o.scene, !.presented = IF draws THEN o.scene ELSE @]
           s == [cap EXCEPT !.out.frame = FALSE, !.out.scanout = scanout,
                 !.out.damaged = damaged, !.out.ops = ops, !.out.failed = ~commits]
           captured == second /\ draws /\ capture_wants_cursorless(s)
           bare == scanout \/ captured
           t == [s EXCEPT !.out.shown = o.scene, !.out.presented = IF draws THEN o.scene ELSE @]
<1>1. /\ cap \in Captures /\ o # Nil /\ o \in Output /\ o.active /\ o.frame
      /\ commits => rendered
  BY DEF CaptureIInv, CaptureInv, Captures, output_frame, Active
<1>2. cap' = IF commits THEN capture_serve(t, o.scene, scanout, captured, how, howCopy) ELSE s
  BY DEF output_frame
<1>3. s = [cap EXCEPT !.out = p] /\ p.presented = o.presented
  BY <1>1 DEF Captures, Output
<1>4. damaged \in BOOLEAN /\ ops \in Nat \cup {Nil} /\ bare \in BOOLEAN
  BY <1>1 DEF Output
<1>5. OutputOK(o, cap.since, cap.copied)
  BY DEF CaptureIInv, CaptureInv
<1>6. CASE ~commits
  <2>1. /\ p \in Output /\ ~p.frame /\ p.scanout = scanout /\ p.active = o.active /\ p.damaged = damaged
        /\ p.ops = ops /\ p.failed /\ p.shown = o.shown /\ p.presented = o.presented
    BY <1>1, <1>4, <1>6 DEF Output
  <2>2. ~damaged => ops = o.ops
    BY <1>1
  <2> HIDE DEF p
  <2>3. Shows(p, o, scanout, FALSE)
    BY <1>1, <1>5, <2>1, <2>2 DEF Shows, OutputOK
  <2>4. cap' = [cap EXCEPT !.out = p]
    BY <1>2, <1>3, <1>6
  <2> QED BY <1>1, <2>3, <2>4, FailedStep
<1>7. CASE commits
  <2>1. /\ q \in Output /\ ~q.frame /\ q.scanout = scanout /\ q.active = o.active /\ q.damaged = damaged
        /\ q.ops = ops /\ ~q.failed /\ q.shown = o.scene
        /\ q.presented = IF draws THEN o.scene ELSE o.presented
    <3>1. /\ p \in Output /\ ~p.frame /\ p.scanout = scanout /\ p.active = o.active /\ p.damaged = damaged
          /\ p.ops = ops /\ ~p.failed /\ p.presented = o.presented
      <4> DEFINE fails == ~commits
      <4>1. fails \in BOOLEAN /\ ~fails
        BY <1>7
      <4>2. p = [o EXCEPT !.frame = FALSE, !.scanout = scanout, !.damaged = damaged, !.ops = ops,
                          !.failed = fails]
        OBVIOUS
      <4> HIDE DEF p, fails, o, damaged, ops
      <4>3. p \in Output
        BY <1>1, <1>4, <4>1, <4>2 DEF Output
      <4> QED BY <1>1, <4>1, <4>2, <4>3 DEF Output
    <3>2. o.scene \in Nat /\ o.presented \in Nat \cup {Nil}
      BY <1>1 DEF Output
    <3> HIDE DEF p, o, damaged, ops
    <3> QED BY <3>1, <3>2 DEF Output
  <2>2. t = [cap EXCEPT !.out = q]
    <3> HIDE DEF p
    <3>1. s = [cap EXCEPT !.out = p]
      BY <1>3
    <3> HIDE DEF s
    <3> QED BY <1>1, <1>3, <3>1 DEF Captures
  <2>3. draws <=> ~scanout
    BY <1>1, <1>7
  <2>4. /\ ~scanout => ops = o.scene /\ q.presented = o.scene
        /\ scanout => damaged
    BY <2>1, <2>3
  <2>5. damaged \/ (~o.damaged /\ ~o.scanout /\ ~scanout /\ o.ops = o.scene /\ o.shown = o.scene
                    /\ o.presented = o.scene)
    BY <1>1, <1>5, <2>3 DEF OutputOK
  <2> HIDE DEF q, t, bare, damaged, ops
  <2>6. Shows(q, o, scanout, TRUE)
    BY <2>1, <2>5, <2>4 DEF Shows
  <2> DEFINE b == Broadcast(t)
             v == SessionsServed(b, o.scene, bare, how)
             w == CopiesServed(v, o.scene, bare, howCopy)
  <2>7. cap' = w
    BY <1>2, <1>7 DEF capture_serve, bare
  <2>8. o.scene \in Nat /\ howCopy \in [Copies -> How]
    BY <1>1 DEF Output, How
  <2> HIDE DEF o
  <2>9. FrameOK(b, o.scene, {}) /\ SessionsSeen(b)
    BY <1>1, <2>2, <2>6, BroadcastIs DEF o
  <2> HIDE DEF b
  <2>10. FrameOK(v, o.scene, {}) /\ SessionsOK(v)
    BY <1>4, <2>8, <2>9, SessionsServedIs
  <2> HIDE DEF v
  <2>11. FrameOK(w, o.scene, Copies) /\ SessionsOK(w)
    BY <1>4, <2>8, <2>10, CopiesServedIs
  <2> HIDE DEF w
  <2>12. CaptureInv(w)
    BY <2>11 DEF FrameOK, SessionsOK, CaptureInv
  <2> QED BY <2>7, <2>12 DEF CaptureIInv
<1> QED BY <1>6, <1>7

LEMMA CaptureIInvInit == ASSUME NEW size \in Sizes, CaptureInit(size, "unmapped") PROVE CaptureIInv
<1> DEFINE o == NewOutput(size)
<1>1. /\ o \in Output /\ ~o.damaged /\ o.ops = Nil /\ o.shown = Nil /\ o.presented = Nil
  BY DEF NewOutput, Output
<1>2. cap = [out |-> o, win |-> "unmapped", image |-> 0, over |-> FALSE,
             copy |-> [f \in Copies |-> Nil], since |-> Nil, copied |-> Nil,
             session |-> [x \in Sessions |-> Nil], cursor |-> Nil]
  BY DEF CaptureInit
<1> HIDE DEF o
<1>3. cap \in Captures
  BY <1>1, <1>2 DEF Captures
<1>4. OutputOK(cap.out, cap.since, cap.copied)
  BY <1>1, <1>2, CaptureAssumption DEF OutputOK
<1> QED BY <1>2, <1>3, <1>4 DEF CaptureIInv, CaptureInv, CursorOf

LEMMA CaptureIInvStep == CaptureIInv /\ [CaptureNext]_cap => CaptureIInv'
<1> SUFFICES ASSUME CaptureIInv, [CaptureNext]_cap PROVE CaptureIInv'
  OBVIOUS
<1>1. CASE capture_output_gone \/ SceneChanges \/ manager_resource_destroy
           \/ cursor_session_resource_destroy
  BY <1>1, OutputGoneStep, SceneStep, ManagerStep, CursorDestroyed
<1>2. ASSUME NEW size \in Sizes,
             output_added(size) \/ \E active \in BOOLEAN : OutputConfigured(active, size)
      PROVE  CaptureIInv'
  BY <1>2, AddedStep, ConfiguredStep
<1>3. ASSUME NEW size \in Sizes \cup {"unmapped", "gone"}, WindowChanges(size) PROVE CaptureIInv'
  BY <1>3, WindowStep
<1>4. ASSUME NEW scanout \in BOOLEAN, NEW rendered \in BOOLEAN, NEW commits \in BOOLEAN,
             NEW second \in BOOLEAN, NEW how \in [Sessions -> How],
             NEW howCopy \in [Copies -> {"ready", "fails"}],
             output_frame(scanout, rendered, commits, second, how, howCopy)
      PROVE  CaptureIInv'
  BY <1>4, FrameStep
<1>5. ASSUME NEW f \in Copies,
             frame_destroy(f) \/ \E b \in BOOLEAN : capture(f, b) \/ frame_request(f, b)
      PROVE  CaptureIInv'
  BY <1>5, CopyDestroyed, CopyStep, RequestStep
<1>6. ASSUME NEW x \in Sessions,
             \/ session_create_frame(x) \/ image_frame_destroy(x) \/ frame_copied(x)
             \/ session_resource_destroy(x) \/ cursor_session_capture(x)
             \/ \E size \in Sizes : image_frame_attach(x, size)
             \/ \E how \in How : image_frame_capture(x, how)
             \/ \E what \in {"output", "window"}, cursors \in BOOLEAN : create_session(x, what, cursors)
      PROVE  CaptureIInv'
  BY <1>6, SimpleSteps, CursorCaptured, AskStep, CreateStep
<1>7. ASSUME NEW how \in How,
             \/ create_cursor_session(how)
             \/ \E image \in Images, over \in BOOLEAN : CursorChanges(image, over, how)
      PROVE  CaptureIInv'
  BY <1>7, CursorCreated, CursorChangesStep
<1>8. CASE UNCHANGED cap
  BY <1>8 DEF CaptureIInv
<1> QED BY <1>1, <1>2, <1>3, <1>4, <1>5, <1>6, <1>7, <1>8 DEF CaptureNext

\* What the invariant says of everybody is what the property says.
LEMMA CaptureIInvImplies == CaptureIInv => CapturesAreServed
<1> SUFFICES ASSUME CaptureIInv PROVE CapturesAreServed
  OBVIOUS
<1>1. cap \in Captures /\ OutputOK(cap.out, cap.since, cap.copied)
  BY DEF CaptureIInv, CaptureInv
<1>2. ASSUME NEW x \in Sessions, cap.session[x] # Nil
      PROVE  SessionOK(cap.session[x], cap.out, cap.win, cap.cursor, cap.image)
  BY <1>2 DEF CaptureIInv, CaptureInv
<1>3. ASSUME NEW f \in Copies, cap.copy[f] # Nil
      PROVE  CopyOK(cap.copy[f], cap.out, cap.since, cap.copied)
  BY <1>3 DEF CaptureIInv, CaptureInv
<1>4. Comes(cap.out) => Coming
  BY DEF Comes, Coming, Active
<1>5. ASSUME NEW what, NEW x \in Waiting(what)
      PROVE  /\ x \in Sessions /\ cap.session[x] # Nil /\ cap.session[x].live
             /\ cap.session[x].what = what /\ cap.session[x].frame = "capturing"
  BY <1>5 DEF Waiting, Listed
<1>6. WaitingIsServed
  <2>1. ASSUME NEW x \in Waiting("output"), Active(cap)
        PROVE  Coming \/ ~(cap.session[x].damaged \/ cap.out.damaged)
    BY <1>2, <1>4, <1>5 DEF SessionOK
  <2>2. ASSUME Waiting("window") # {}, cap.win \in Sizes PROVE Coming
    BY <1>2, <1>4, <1>5, <2>2 DEF SessionOK
  <2>3. ASSUME Waiting("cursor") # {} PROVE ~cap.cursor.entered \/ cap.cursor.served = cap.image
    BY <1>2, <1>5, <2>3 DEF SessionOK
  <2>4. ASSUME NEW f \in Copies, cap.copy[f] # Nil, cap.copy[f].waiting
        PROVE  Coming \/ (cap.copy[f].damage /\ (cap.copy[f].since => cap.copied = cap.out.shown))
    BY <1>3, <1>4, <2>4 DEF CopyOK
  <2> QED BY <2>1, <2>2, <2>3, <2>4 DEF WaitingIsServed
<1>7. NothingIsMissed
  BY <1>1, <1>2 DEF NothingIsMissed, OutputOK, SessionOK, Listed
<1>8. StoppedIsAnswered
  BY <1>2 DEF StoppedIsAnswered, SessionOK
<1> QED BY <1>6, <1>7, <1>8 DEF CapturesAreServed

\* However many sessions and copies there are, whichever frame fails, is scanned out or
\* cannot be drawn without the cursor, and whatever source or client goes: who waits for an
\* image that can be had gets one, and nobody is told that nothing is new who has not got
\* the newest (capture.c:capture_serve, image_frame_capture, frame_request; output_frame).
THEOREM CapturesServed == CaptureSpec => []CapturesAreServed
<1>1. (\E size \in Sizes : CaptureInit(size, "unmapped")) => CaptureIInv
  BY CaptureIInvInit
<1> QED BY <1>1, CaptureIInvStep, CaptureIInvImplies, PTL DEF CaptureSpec

-----------------------------------------------------------------------------
(* The keyboards. *)

KeyEvent == [k : Keyboards, c : Codes, id : Ids, state : {"pressed", "released"}]

KeyPresses == [k : Keyboards, c : Codes, id : Ids]

KeyboardStates ==
  [device : [Keyboards -> KeyboardState \cup {Null}], down : SUBSET Codes, super : BOOLEAN,
   keymap : DOMAIN SymOf, seat : BOOLEAN, bindings : SUBSET Binding,
   owner : Owners \cup {Null}, shot : BOOLEAN, locked : BOOLEAN, drag : BOOLEAN,
   focus : Focusable \cup {Null}, held : SUBSET Codes, told : BOOLEAN, map : DOMAIN SymOf,
   missed : SUBSET Codes, unaware : BOOLEAN, events : Seq(KeyEvent),
   heard : [Keyboards -> [Codes -> Ids \cup {Null}]], silenced : SUBSET KeyPresses]

\* The shortcut that holds key c of keyboard k.
LatchOf(s, k, c) == IF s.device[k] = Null THEN Null ELSE s.device[k].latch[c]

\* The last that the policy hears of the binding id on the key is a press.
LastPressed(s, k, c, id) ==
  \/ s.heard[k][c] = id /\ \A i \in 1..Len(s.events) : ~(s.events[i].k = k /\ s.events[i].c = c /\ s.events[i].id = id)
  \/ \E i \in 1..Len(s.events) :
       /\ s.events[i].k = k /\ s.events[i].c = c /\ s.events[i].id = id
       /\ s.events[i].state = "pressed"
       /\ \A j \in i + 1..Len(s.events) : ~(s.events[j].k = k /\ s.events[j].c = c /\ s.events[j].id = id)

Named(s) == \A a, b \in s.bindings : a.id = b.id => a = b

Ordered(s) ==
  \A k \in Keyboards, c \in Codes, i \in 1..Len(s.events) :
    Mine(s, k, c, i) /\ s.events[i].state = "released" => Believes(s, k, c, i - 1, s.events[i].id)

\* What holds a key was announced, and nothing else of the key since.
Holding(s) ==
  \A k \in Keyboards, c \in Codes :
    LatchOf(s, k, c) # Null => Believes(s, k, c, Len(s.events), LatchOf(s, k, c).id)

\* A press whose release the policy waits for holds its key still.
Owed(s) ==
  \A k \in Keyboards, c \in Codes, id \in Ids :
    Expected(s, id) /\ LastPressed(s, k, c, id) /\ [k |-> k, c |-> c, id |-> id] \notin s.silenced =>
      LatchOf(s, k, c) # Null /\ LatchOf(s, k, c).id = id

PolicyOK(s) == Named(s) /\ Ordered(s) /\ Holding(s) /\ Owed(s)

Latched(s) ==
  \A k \in Keyboards, c \in Codes :
    LatchOf(s, k, c) # Null => LatchOf(s, k, c) \in s.bindings /\ c \in s.device[k].consumed

\* A key that is down and whose release the client will hear.
Unconsumed(s, c) == \E k \in Present(s) : c \in s.device[k].pressed /\ c \notin s.device[k].consumed

Seated(s) == (s.seat <=> Present(s) # {}) /\ (s.seat => s.map = s.keymap)

HeldKnown(s, X) ==
  s.focus # Null => \A c \in Codes \ X : c \notin s.missed => (c \in s.held <=> Unconsumed(s, c))

ModifiersKnown(s) == s.focus # Null /\ s.seat /\ ~s.unaware => s.told = s.super

TakenDown(s, X) ==
  \A k \in Present(s), c \in Codes \ X : c \in s.device[k].consumed => c \in s.device[k].pressed

Covered(s) == s.locked /\ ~s.drag => s.focus \in {Null, LockSurface}

\* All but what the merged keyboard is, and but the keys X, whose edge is on its way.
Steady(s, X) ==
  /\ s \in KeyboardStates
  /\ Seated(s) /\ HeldKnown(s, X) /\ ModifiersKnown(s) /\ TakenDown(s, X) /\ Covered(s)
  /\ Latched(s) /\ PolicyOK(s)

Merged(s) ==
  \A c \in Codes : c \in s.down <=> \E k \in Present(s) : c \in s.device[k].pressed

KeysOK(s) == Steady(s, {}) /\ Merged(s) /\ s.super = Modifiers(s)

-----------------------------------------------------------------------------
(* What the policy hears. *)

\* Nothing that the policy's part is about changes.
SamePolicy(s, t) ==
  /\ t.bindings = s.bindings /\ t.events = s.events /\ t.heard = s.heard /\ t.silenced = s.silenced
  /\ \A k \in Keyboards, c \in Codes : LatchOf(t, k, c) = LatchOf(s, k, c)

LEMMA PolicyStays ==
  ASSUME NEW s, NEW t, SamePolicy(s, t), PolicyOK(s)
  PROVE  PolicyOK(t)
<1>1. /\ \A k, c, i : Mine(t, k, c, i) <=> Mine(s, k, c, i)
      /\ \A id : Expected(t, id) <=> Expected(s, id)
      /\ \A k, c, id : LastPressed(t, k, c, id) <=> LastPressed(s, k, c, id)
  BY DEF SamePolicy, Mine, Current, Expected, LastPressed
<1>2. \A k, c, n, id : Believes(t, k, c, n, id) <=> Believes(s, k, c, n, id)
  BY <1>1 DEF SamePolicy, Believes
<1> QED BY <1>1, <1>2 DEF SamePolicy, PolicyOK, Named, Ordered, Holding, Owed

\* Beliefs about the first n events do not depend on the later ones.
LEMMA BeliefsStay ==
  ASSUME NEW s, NEW t, t.bindings = s.bindings, t.heard = s.heard, NEW n \in Nat,
         \A i \in 1..n : t.events[i] = s.events[i], NEW k, NEW c, NEW id
  PROVE  Believes(t, k, c, n, id) <=> Believes(s, k, c, n, id)
<1>1. \A i \in 1..n : Mine(t, k, c, i) <=> Mine(s, k, c, i)
  BY DEF Mine, Current
<1>2. \A i \in 1..n : \A j \in i + 1..n : j \in 1..n
  OBVIOUS
<1> QED BY <1>1, <1>2 DEF Believes

\* An event about a key leaves the beliefs about the others as they are.
LEMMA OtherBeliefs ==
  ASSUME NEW s \in KeyboardStates, NEW t, t.bindings = s.bindings, t.heard = s.heard,
         NEW e \in KeyEvent, t.events = Append(s.events, e), NEW k, NEW c, e.k # k \/ e.c # c, NEW id
  PROVE  Believes(t, k, c, Len(t.events), id) <=> Believes(s, k, c, Len(s.events), id)
<1> DEFINE n == Len(s.events)
<1>1. /\ s.events \in Seq(KeyEvent) /\ n \in Nat /\ Len(t.events) = n + 1 /\ t.events[n + 1] = e
      /\ \A i \in 1..n : t.events[i] = s.events[i]
  BY AppendFacts DEF KeyboardStates
<1> HIDE DEF n
<1>2. ~Mine(t, k, c, n + 1)
  BY <1>1 DEF Mine
<1>3. Believes(t, k, c, n + 1, id) <=> Believes(t, k, c, n, id)
  <2>1. \A i \in 1..n + 1 : Mine(t, k, c, i) => i \in 1..n
    BY <1>1, <1>2
  <2>2. 1..n \subseteq 1..n + 1
    BY <1>1
  <2>3. \A i \in 1..n : (\A j \in i + 1..n + 1 : ~Mine(t, k, c, j)) <=> (\A j \in i + 1..n : ~Mine(t, k, c, j))
    BY <1>1, <1>2
  <2> QED BY <2>1, <2>2, <2>3 DEF Believes
<1>4. Believes(t, k, c, n, id) <=> Believes(s, k, c, n, id)
  BY <1>1, BeliefsStay
<1> QED BY <1>1, <1>3, <1>4 DEF n

\* The release that a shortcut owes may follow what is believed.
LEMMA OrderedAppend ==
  ASSUME NEW s \in KeyboardStates, NEW t, Ordered(s), t.bindings = s.bindings, t.heard = s.heard,
         NEW e \in KeyEvent, t.events = Append(s.events, e),
         e.state = "released" => Believes(s, e.k, e.c, Len(s.events), e.id)
  PROVE  Ordered(t)
<1> DEFINE n == Len(s.events)
<1>1. /\ s.events \in Seq(KeyEvent) /\ n \in Nat /\ Len(t.events) = n + 1 /\ t.events[n + 1] = e
      /\ \A i \in 1..n : t.events[i] = s.events[i]
  BY AppendFacts DEF KeyboardStates
<1> SUFFICES ASSUME NEW k \in Keyboards, NEW c \in Codes, NEW i \in 1..Len(t.events),
                    Mine(t, k, c, i), t.events[i].state = "released"
             PROVE  Believes(t, k, c, i - 1, t.events[i].id)
  BY DEF Ordered
<1> HIDE DEF n
<1>2. i - 1 \in Nat /\ i - 1 <= n /\ \A j \in 1..i - 1 : t.events[j] = s.events[j]
  BY <1>1
<1>3. Believes(s, k, c, i - 1, t.events[i].id)
  <2>1. CASE i = n + 1
    BY <1>1, <2>1 DEF Mine, n
  <2>2. CASE i \in 1..n
    <3>1. Mine(s, k, c, i) /\ s.events[i].state = "released"
      BY <1>1, <2>2 DEF Mine, Current
    <3> QED BY <1>1, <2>2, <3>1 DEF Ordered, n
  <2> QED BY <1>1, <2>1, <2>2
<1> QED BY <1>2, <1>3, BeliefsStay

\* An event about another key or another binding leaves the last press as it is.
LEMMA LastPressedBefore ==
  ASSUME NEW s \in KeyboardStates, NEW t, t.heard = s.heard, NEW e \in KeyEvent,
         t.events = Append(s.events, e), NEW x, NEW y, NEW id,
         ~(e.k = x /\ e.c = y /\ e.id = id), LastPressed(t, x, y, id)
  PROVE  LastPressed(s, x, y, id)
<1> DEFINE n == Len(s.events)
           A == {i \in 1..n + 1 : t.events[i].k = x /\ t.events[i].c = y /\ t.events[i].id = id}
<1>1. /\ s.events \in Seq(KeyEvent) /\ n \in Nat /\ Len(t.events) = n + 1 /\ t.events[n + 1] = e
      /\ \A i \in 1..n : t.events[i] = s.events[i]
  BY AppendFacts DEF KeyboardStates
<1>2. /\ 1..n \subseteq 1..n + 1 /\ \A i \in 1..n : i + 1..n \subseteq 1..n
      /\ \A i \in 1..n + 1 : i = n + 1 \/ i \in 1..n
      /\ \A i \in 1..n : i + 1..n \subseteq i + 1..n + 1
      /\ \A i \in 1..n + 1 : i + 1..n + 1 \subseteq 1..n + 1
  <2> HIDE DEF n
  <2> QED BY <1>1
<1>3. n + 1 \notin A
  BY <1>1
<1>4. \A i \in 1..n : i \in A <=> s.events[i].k = x /\ s.events[i].c = y /\ s.events[i].id = id
  BY <1>1, <1>2
<1>5. \/ s.heard[x][y] = id /\ \A i \in 1..n + 1 : i \notin A
      \/ \E i \in 1..n + 1 : /\ i \in A /\ t.events[i].state = "pressed"
                            /\ \A j \in i + 1..n + 1 : j \notin A
  <2> HIDE DEF n
  <2> QED BY <1>1, <1>2 DEF LastPressed
<1> HIDE DEF A
<1>6. \/ s.heard[x][y] = id /\ \A i \in 1..n : i \notin A
      \/ \E i \in 1..n : /\ i \in A /\ s.events[i].state = "pressed"
                        /\ \A j \in i + 1..n : j \notin A
  <2> HIDE DEF n
  <2> QED BY <1>1, <1>2, <1>3, <1>5
<1> QED BY <1>2, <1>4, <1>6 DEF LastPressed

\* Nothing changes but devices, events and what the policy heard.
SameRest(s, t) ==
  /\ t.down = s.down /\ t.super = s.super /\ t.keymap = s.keymap /\ t.seat = s.seat
  /\ t.bindings = s.bindings /\ t.owner = s.owner /\ t.shot = s.shot /\ t.locked = s.locked
  /\ t.drag = s.drag /\ t.focus = s.focus /\ t.held = s.held /\ t.told = s.told
  /\ t.map = s.map /\ t.missed = s.missed /\ t.unaware = s.unaware

\* Keyboard k now has these keys consumed and key c latched so, and nothing else happened
\* to the keyboards.
Turned(s, t, k, consumed, c, latch) ==
  /\ t \in KeyboardStates
  /\ \A x \in Keyboards : x # k => t.device[x] = s.device[x]
  /\ t.device[k] # Null /\ t.device[k].pressed = s.device[k].pressed
  /\ t.device[k].explicit = s.device[k].explicit
  /\ t.device[k].consumed = consumed
  /\ \A d \in Codes : t.device[k].latch[d] = IF d = c THEN latch ELSE s.device[k].latch[d]
  /\ SameRest(s, t)

\* What the policy's part says when the latches of other keys stay.
LEMMA OtherLatches ==
  ASSUME NEW s, NEW t, NEW k \in Keyboards, NEW c, NEW consumed, NEW latch,
         Turned(s, t, k, consumed, c, latch), s.device[k] # Null
  PROVE  \A x \in Keyboards, d \in Codes :
           LatchOf(t, x, d) = IF x = k /\ d = c THEN latch ELSE LatchOf(s, x, d)
BY DEF Turned, LatchOf

LEMMA LatchTypes ==
  ASSUME NEW s \in KeyboardStates, NEW k \in Keyboards, s.device[k] # Null
  PROVE  /\ s.device[k] \in KeyboardState
         /\ \A c \in Codes : s.device[k].latch[c] \in Binding \cup {Null}
<1>1. s.device \in [Keyboards -> KeyboardState \cup {Null}]
  BY DEF KeyboardStates
<1>2. s.device[k] \in KeyboardState
  BY <1>1
<1> QED BY <1>2 DEF KeyboardState

\* What two changes of the record of one keyboard are together.
Marked(s, k, c, consumed, latch) ==
  [s EXCEPT !.device[k].consumed = consumed, !.device[k].latch[c] = latch]

MarkedDevice(d, c, consumed, latch) ==
  [d EXCEPT !.consumed = consumed, !.latch = [d.latch EXCEPT ![c] = latch]]

PutDevice(s, k, d) == [s EXCEPT !.device = [s.device EXCEPT ![k] = d]]

LEMMA OneDevice ==
  ASSUME NEW u, NEW k, NEW c, NEW C, NEW L, k \in DOMAIN u.device, "device" \in DOMAIN u
  PROVE  Marked(u, k, c, C, L) = PutDevice(u, k, MarkedDevice(u.device[k], c, C, L))
<1> DEFINE f == [u.device[k] EXCEPT !.consumed = C]
           v == [u EXCEPT !.device = [u.device EXCEPT ![k] = f]]
           l == [u.device[k].latch EXCEPT ![c] = L]
<1>1. [u EXCEPT !.device[k].consumed = C] = v
  OBVIOUS
<1>2. [u EXCEPT !.device[k].consumed = C, !.device[k].latch[c] = L] = [v EXCEPT !.device[k].latch[c] = L]
  BY <1>1
<1>3. v.device[k] = f /\ v.device = [u.device EXCEPT ![k] = f]
  OBVIOUS
<1>4. [v EXCEPT !.device[k].latch[c] = L] = [v EXCEPT !.device = [v.device EXCEPT ![k] = [f EXCEPT !.latch[c] = L]]]
  BY <1>3
<1>5. [f EXCEPT !.latch[c] = L] = [u.device[k] EXCEPT !.consumed = C, !.latch = l]
  OBVIOUS
<1> DEFINE g == [u.device[k] EXCEPT !.consumed = C, !.latch = l]
           A == [u.device EXCEPT ![k] = g]
<1>6. [v.device EXCEPT ![k] = g] = A
  <2> HIDE DEF g, f
  <2> QED BY <1>3
<1>7. [v EXCEPT !.device = A] = [u EXCEPT !.device = A]
  <2> HIDE DEF A, f
  <2> QED OBVIOUS
<1> QED BY <1>2, <1>3, <1>4, <1>5, <1>6, <1>7, Zenon DEF Marked, MarkedDevice, PutDevice

LEMMA Marks ==
  ASSUME NEW s \in KeyboardStates, NEW k \in Keyboards, NEW c \in Codes, s.device[k] # Null,
         NEW C \in SUBSET Codes, NEW L \in Binding \cup {Null}
  PROVE  LET t == Marked(s, k, c, C, L)
         IN  /\ Turned(s, t, k, C, c, L)
             /\ t.events = s.events /\ t.heard = s.heard /\ t.silenced = s.silenced
<1> DEFINE e == s.device[k]
           d == MarkedDevice(e, c, C, L)
           f == [e EXCEPT !.consumed = C]
           l == [e.latch EXCEPT ![c] = L]
           t == Marked(s, k, c, C, L)
<1>1. s.device \in [Keyboards -> KeyboardState \cup {Null}] /\ e \in KeyboardState
  BY LatchTypes DEF KeyboardStates
<1>2. l \in [Codes -> Binding \cup {Null}] /\ \A x \in Codes : l[x] = IF x = c THEN L ELSE e.latch[x]
  BY <1>1 DEF KeyboardState
<1>3. /\ f \in KeyboardState /\ f.pressed = e.pressed /\ f.latch = e.latch
      /\ f.explicit = e.explicit /\ f.consumed = C
  BY <1>1 DEF KeyboardState
<1>4. d = [f EXCEPT !.latch = l]
  BY <1>1 DEF KeyboardState, MarkedDevice
<1> HIDE DEF f, l, d, e
<1>5. /\ d \in KeyboardState /\ d # Null /\ d.pressed = e.pressed /\ d.explicit = e.explicit
      /\ d.consumed = C /\ \A x \in Codes : d.latch[x] = IF x = c THEN L ELSE e.latch[x]
  BY <1>2, <1>3, <1>4, KeyboardAssumption DEF KeyboardState
<1>6. [s.device EXCEPT ![k] = d] \in [Keyboards -> KeyboardState \cup {Null}]
  BY <1>1, <1>5
<1>7. t = PutDevice(s, k, d)
  BY OneDevice DEF KeyboardStates, d, e
<1> HIDE DEF t
<1> QED BY <1>1, <1>5, <1>6, <1>7 DEF Turned, SameRest, PutDevice, KeyboardStates, e, t

LEMMA KeyConsumed ==
  ASSUME NEW s \in KeyboardStates, NEW k \in Keyboards, NEW c \in Codes, s.device[k] # Null,
         PolicyOK(s), Latched(s)
  PROVE  LET t == Consume(s, k, c)
         IN  /\ Turned(s, t, k, s.device[k].consumed \cup {c}, c, s.device[k].latch[c])
             /\ t.events = s.events /\ t.heard = s.heard /\ t.silenced = s.silenced
             /\ PolicyOK(t) /\ Latched(t)
<1> DEFINE t == Consume(s, k, c)
           C == s.device[k].consumed \cup {c}
           b == s.device[k].latch[c]
<1>1. s.device[k] \in KeyboardState /\ C \in SUBSET Codes /\ b \in Binding \cup {Null}
  BY LatchTypes DEF KeyboardState
<1>2. t = Marked(s, k, c, C, b)
  <2> DEFINE d == [s.device[k] EXCEPT !.consumed = C]
  <2>1. d = MarkedDevice(s.device[k], c, C, b)
    BY <1>1 DEF MarkedDevice, KeyboardState
  <2>2. t = PutDevice(s, k, d)
    BY DEF Consume, PutDevice, KeyboardStates
  <2>3. k \in DOMAIN s.device /\ "device" \in DOMAIN s
    BY DEF KeyboardStates
  <2> HIDE DEF d, t, C, b
  <2> QED BY <2>1, <2>2, <2>3, OneDevice
<1> HIDE DEF t
<1>5. /\ Turned(s, t, k, s.device[k].consumed \cup {c}, c, s.device[k].latch[c])
      /\ t.events = s.events /\ t.heard = s.heard /\ t.silenced = s.silenced
  BY <1>1, <1>2, Marks
<1>6. \A x \in Keyboards, e \in Codes : LatchOf(t, x, e) = LatchOf(s, x, e)
  <2>1. \A x \in Keyboards, e \in Codes :
          LatchOf(t, x, e) = IF x = k /\ e = c THEN s.device[k].latch[c] ELSE LatchOf(s, x, e)
    BY <1>5, OtherLatches
  <2>2. LatchOf(s, k, c) = s.device[k].latch[c]
    BY DEF LatchOf
  <2> QED BY <2>1, <2>2
<1>7. PolicyOK(t)
  BY <1>5, <1>6, PolicyStays DEF SamePolicy, Turned, SameRest
<1>8. Latched(t)
  BY <1>5, <1>6 DEF Latched, Turned, SameRest, LatchOf
<1> QED BY <1>5, <1>7, <1>8 DEF t

LEMMA Unlatches ==
  ASSUME NEW s \in KeyboardStates, NEW k \in Keyboards, NEW c \in Codes, s.device[k] # Null,
         PolicyOK(s), Latched(s)
  PROVE  LET t == Unlatch(s, k, c)
         IN  Turned(s, t, k, s.device[k].consumed \ {c}, c, Null) /\ PolicyOK(t) /\ Latched(t)
<1> DEFINE b == s.device[k].latch[c]
           e == [k |-> k, c |-> c, id |-> b.id, state |-> "released"]
           posts == b \in s.bindings /\ b.of.release
           q == IF posts THEN Append(s.events, e) ELSE s.events
           u == [s EXCEPT !.events = q]
           C == u.device[k].consumed \ {c}
           t == Unlatch(s, k, c)
<1>1. posts => b \in Binding /\ b.id \in Ids /\ e \in KeyEvent
  BY DEF KeyboardStates, Binding, KeyEvent
<1>2. q \in Seq(KeyEvent)
  BY <1>1, AppendFacts DEF KeyboardStates
<1>3. t = Marked(u, k, c, C, Null)
  <2>1. b \in s.bindings => binding_event(s, k, c, b, "released") = u
    BY DEF binding_event, KeyboardStates
  <2>2. b \notin s.bindings => u = s
    BY DEF KeyboardStates
  <2> HIDE DEF u
  <2> QED BY <2>1, <2>2 DEF Unlatch, Marked
<1> HIDE DEF q
<1>4. /\ u \in KeyboardStates /\ u.events = q /\ u.device = s.device
      /\ u.heard = s.heard /\ u.silenced = s.silenced /\ SameRest(s, u)
  BY <1>2 DEF KeyboardStates, SameRest
<1> HIDE DEF u
<1>5. C \in SUBSET Codes /\ C = s.device[k].consumed \ {c}
  BY <1>4, LatchTypes DEF KeyboardState
<1>6. Turned(u, t, k, C, c, Null) /\ t.events = u.events /\ t.heard = u.heard /\ t.silenced = u.silenced
  <2> HIDE DEF C, t
  <2> QED BY <1>3, <1>4, <1>5, Marks
<1>7. /\ Turned(s, t, k, s.device[k].consumed \ {c}, c, Null)
      /\ t.events = q /\ t.heard = s.heard /\ t.silenced = s.silenced /\ t.bindings = s.bindings
  BY <1>4, <1>5, <1>6 DEF Turned, SameRest
<1> HIDE DEF t
<1>8. \A x \in Keyboards, y \in Codes :
        LatchOf(t, x, y) = IF x = k /\ y = c THEN Null ELSE LatchOf(s, x, y)
  BY <1>7, OtherLatches
<1>9. Latched(t)
  BY <1>7, <1>8 DEF Latched, Turned, SameRest, LatchOf
<1>10. LatchOf(s, k, c) = b
  BY DEF LatchOf
<1>11. CASE ~posts
  <2>1. t.events = s.events
    BY <1>7, <1>11 DEF q
  <2>2. /\ \A x, y, i : Mine(t, x, y, i) <=> Mine(s, x, y, i)
        /\ \A id : Expected(t, id) <=> Expected(s, id)
        /\ \A x, y, id : LastPressed(t, x, y, id) <=> LastPressed(s, x, y, id)
    BY <1>7, <2>1 DEF Mine, Current, Expected, LastPressed
  <2>3. \A x, y, n, id : Believes(t, x, y, n, id) <=> Believes(s, x, y, n, id)
    BY <1>7, <2>1, <2>2 DEF Believes
  <2>4. Named(t) /\ Ordered(t)
    BY <1>7, <2>1, <2>2, <2>3 DEF PolicyOK, Named, Ordered
  <2>5. Holding(t)
    BY <1>8, <2>1, <2>3 DEF PolicyOK, Holding
  <2>6. \A id \in Ids : Expected(s, id) => ~(b # Null /\ b.id = id)
    BY <1>10, <1>11 DEF PolicyOK, Named, Expected, Latched
  <2>7. Owed(t)
    BY <1>7, <1>8, <1>10, <2>1, <2>2, <2>6 DEF PolicyOK, Owed
  <2> QED BY <1>7, <1>9, <2>4, <2>5, <2>7 DEF PolicyOK, t
<1>12. CASE posts
  <2> DEFINE n == Len(s.events)
  <2>1. /\ s.events \in Seq(KeyEvent) /\ n \in Nat /\ Len(t.events) = n + 1 /\ t.events[n + 1] = e
        /\ \A i \in 1..n : t.events[i] = s.events[i]
        /\ t.events = Append(s.events, e) /\ e \in KeyEvent
    BY <1>1, <1>7, <1>12, AppendFacts DEF KeyboardStates, q
  <2>2. Believes(s, k, c, n, b.id)
    BY <1>1, <1>10, <1>12, KeyboardAssumption DEF PolicyOK, Holding
  <2>3. Ordered(t)
    BY <1>7, <2>1, <2>2, OrderedAppend DEF PolicyOK
  <2>4. Holding(t)
    <3> SUFFICES ASSUME NEW x \in Keyboards, NEW y \in Codes, LatchOf(t, x, y) # Null
                 PROVE  Believes(t, x, y, Len(t.events), LatchOf(t, x, y).id)
      BY DEF Holding
    <3>1. (e.k # x \/ e.c # y) /\ LatchOf(t, x, y) = LatchOf(s, x, y)
      BY <1>8
    <3>2. Believes(s, x, y, Len(s.events), LatchOf(s, x, y).id)
      BY <3>1 DEF PolicyOK, Holding
    <3> HIDE DEF e
    <3> QED BY <1>7, <2>1, <3>1, <3>2, OtherBeliefs
  <2>5. Owed(t)
    <3> SUFFICES ASSUME NEW x \in Keyboards, NEW y \in Codes, NEW id \in Ids, Expected(t, id),
                        LastPressed(t, x, y, id), [k |-> x, c |-> y, id |-> id] \notin t.silenced
                 PROVE  LatchOf(t, x, y) # Null /\ LatchOf(t, x, y).id = id
      BY DEF Owed
    <3>1. ~(x = k /\ y = c /\ id = b.id)
      BY <2>1 DEF LastPressed
    <3>2. ~(e.k = x /\ e.c = y /\ e.id = id)
      BY <3>1
    <3> HIDE DEF e, n
    <3>3. LastPressed(s, x, y, id)
      BY <1>7, <2>1, <3>2, LastPressedBefore
    <3>4. Expected(s, id)
      BY <1>7 DEF Expected
    <3>5. LatchOf(s, x, y) # Null /\ LatchOf(s, x, y).id = id
      BY <1>7, <3>3, <3>4 DEF PolicyOK, Owed
    <3> QED BY <1>8, <1>10, <3>1, <3>5
  <2> QED BY <1>7, <1>9, <2>3, <2>4, <2>5 DEF PolicyOK, Named, t
<1> QED BY <1>11, <1>12

LEMMA Latches ==
  ASSUME NEW s \in KeyboardStates, NEW k \in Keyboards, NEW c \in Codes, s.device[k] # Null,
         PolicyOK(s), Latched(s), s.device[k].latch[c] = Null, NEW b \in s.bindings
  PROVE  LET t == Latch(s, k, c, b)
         IN  Turned(s, t, k, s.device[k].consumed \cup {c}, c, b) /\ PolicyOK(t) /\ Latched(t)
<1> DEFINE e == [k |-> k, c |-> c, id |-> b.id, state |-> "pressed"]
           press == [k |-> k, c |-> c, id |-> b.id]
           C == s.device[k].consumed \cup {c}
           u == Marked(s, k, c, C, b)
           v == [u EXCEPT !.silenced = @ \ {press}]
           t == Latch(s, k, c, b)
           n == Len(s.events)
<1>1. b \in Binding /\ b.id \in Ids /\ e \in KeyEvent /\ press \in KeyPresses
  BY DEF KeyboardStates, Binding, KeyEvent, KeyPresses
<1>2. C \in SUBSET Codes
  BY LatchTypes DEF KeyboardState
<1>3. t = [v EXCEPT !.events = Append(@, e)]
  BY DEF Latch, binding_event, Marked, Press
<1>4. /\ Turned(s, u, k, C, c, b)
      /\ u.events = s.events /\ u.heard = s.heard /\ u.silenced = s.silenced
  <2> HIDE DEF C, u
  <2> QED BY <1>1, <1>2, Marks DEF u
<1> HIDE DEF u, e, press
<1>5. /\ v \in KeyboardStates /\ v.device = u.device /\ v.events = s.events
      /\ v.heard = s.heard /\ v.silenced = s.silenced \ {press} /\ SameRest(u, v)
  BY <1>4 DEF KeyboardStates, SameRest, Turned
<1> HIDE DEF v
<1>6. /\ s.events \in Seq(KeyEvent) /\ n \in Nat /\ Append(s.events, e) \in Seq(KeyEvent)
      /\ Len(Append(s.events, e)) = n + 1 /\ Append(s.events, e)[n + 1] = e
      /\ \A i \in 1..n : Append(s.events, e)[i] = s.events[i]
  BY <1>1, AppendFacts DEF KeyboardStates
<1>7. /\ t \in KeyboardStates /\ t.device = v.device /\ t.events = Append(s.events, e)
      /\ t.heard = v.heard /\ t.silenced = v.silenced /\ SameRest(v, t)
  <2> DEFINE q == Append(s.events, e)
  <2>1. t = [v EXCEPT !.events = q]
    BY <1>3, <1>5
  <2>2. q \in Seq(KeyEvent)
    BY <1>6
  <2> HIDE DEF q, t
  <2>3. t \in KeyboardStates /\ t.events = q
    BY <1>5, <2>1, <2>2 DEF KeyboardStates
  <2>4. t.device = v.device /\ t.heard = v.heard /\ t.silenced = v.silenced /\ SameRest(v, t)
    BY <1>5, <2>1 DEF KeyboardStates, SameRest
  <2> QED BY <2>3, <2>4 DEF q
<1> HIDE DEF t, n
<1>8. /\ Turned(s, t, k, C, c, b)
      /\ t.heard = s.heard /\ t.silenced = s.silenced \ {press} /\ t.bindings = s.bindings
  BY <1>4, <1>5, <1>7 DEF Turned, SameRest
<1>9. \A x \in Keyboards, y \in Codes :
        LatchOf(t, x, y) = IF x = k /\ y = c THEN b ELSE LatchOf(s, x, y)
  BY <1>8, OtherLatches
<1>10. Latched(t)
  BY <1>8, <1>9 DEF Latched, Turned, SameRest, LatchOf
<1>11. e.k = k /\ e.c = c /\ e.id = b.id /\ e.state = "pressed"
  BY DEF e
<1>12. Ordered(t)
  BY <1>1, <1>7, <1>8, <1>11, OrderedAppend DEF PolicyOK
<1>13. Holding(t)
  <2> SUFFICES ASSUME NEW x \in Keyboards, NEW y \in Codes, LatchOf(t, x, y) # Null
               PROVE  Believes(t, x, y, Len(t.events), LatchOf(t, x, y).id)
    BY DEF Holding
  <2>1. CASE x = k /\ y = c
    <3>1. Mine(t, k, c, n + 1)
      BY <1>6, <1>7, <1>8, <1>11 DEF Mine, Current
    <3>2. n + 1 \in 1..n + 1 /\ n + 2..n + 1 = {}
      BY <1>6
    <3> QED BY <1>6, <1>7, <1>9, <1>11, <2>1, <3>1, <3>2 DEF Believes
  <2>2. CASE ~(x = k /\ y = c)
    <3>1. LatchOf(t, x, y) = LatchOf(s, x, y)
      BY <1>9, <2>2
    <3>2. Believes(s, x, y, Len(s.events), LatchOf(s, x, y).id)
      BY <3>1 DEF PolicyOK, Holding
    <3> QED BY <1>1, <1>7, <1>8, <1>11, <2>2, <3>1, <3>2, OtherBeliefs
  <2> QED BY <2>1, <2>2
<1>14. Owed(t)
  <2> SUFFICES ASSUME NEW x \in Keyboards, NEW y \in Codes, NEW id \in Ids, Expected(t, id),
                      LastPressed(t, x, y, id), [k |-> x, c |-> y, id |-> id] \notin t.silenced
               PROVE  LatchOf(t, x, y) # Null /\ LatchOf(t, x, y).id = id
    BY DEF Owed
  <2>1. CASE x = k /\ y = c /\ id = b.id
    BY <1>1, <1>9, <2>1, KeyboardAssumption
  <2>2. CASE ~(x = k /\ y = c /\ id = b.id)
    <3>1. ~(e.k = x /\ e.c = y /\ e.id = id)
      BY <1>11, <2>2
    <3>2. LastPressed(s, x, y, id)
      BY <1>1, <1>7, <1>8, <3>1, LastPressedBefore
    <3>3. Expected(s, id)
      BY <1>8 DEF Expected
    <3>4. [k |-> x, c |-> y, id |-> id] \notin s.silenced
      BY <1>8, <2>2 DEF press
    <3>5. LatchOf(s, x, y) # Null /\ LatchOf(s, x, y).id = id
      BY <3>2, <3>3, <3>4 DEF PolicyOK, Owed
    <3>6. ~(x = k /\ y = c)
      BY <3>5 DEF LatchOf
    <3> QED BY <1>9, <3>5, <3>6
  <2> QED BY <2>1, <2>2
<1> QED BY <1>8, <1>10, <1>12, <1>13, <1>14 DEF PolicyOK, Named, t

-----------------------------------------------------------------------------
(* What the client is told, and the merged keyboard. *)

\* Only the modifiers of the merged keyboard change, and who knows them.
OnlyModifiers(s, t) ==
  /\ t \in KeyboardStates
  /\ t.device = s.device /\ t.down = s.down /\ t.keymap = s.keymap /\ t.seat = s.seat
  /\ t.bindings = s.bindings /\ t.owner = s.owner /\ t.shot = s.shot /\ t.locked = s.locked
  /\ t.drag = s.drag /\ t.focus = s.focus /\ t.held = s.held /\ t.map = s.map
  /\ t.missed = s.missed /\ t.events = s.events /\ t.heard = s.heard /\ t.silenced = s.silenced

LEMMA SteadyModifiers ==
  ASSUME NEW s, NEW t, NEW X, Steady(s, X), OnlyModifiers(s, t), ModifiersKnown(t)
  PROVE  Steady(t, X)
<1>1. Present(t) = Present(s) /\ \A k \in Keyboards, c \in Codes : LatchOf(t, k, c) = LatchOf(s, k, c)
  BY DEF OnlyModifiers, Present, LatchOf
<1>2. Seated(t) /\ HeldKnown(t, X) /\ TakenDown(t, X) /\ Covered(t) /\ Latched(t)
  BY <1>1 DEF Steady, OnlyModifiers, Seated, HeldKnown, Unconsumed, TakenDown, Covered, Latched
<1>3. PolicyOK(t)
  BY <1>1, PolicyStays DEF Steady, SamePolicy, OnlyModifiers
<1> QED BY <1>2, <1>3 DEF Steady, OnlyModifiers

\* The modifiers that hold depend on what is down and on what virtual keyboards say.
LEMMA ModifiersAre ==
  ASSUME NEW s, NEW t, t.device = s.device, t.down = s.down
  PROVE  Modifiers(t) = Modifiers(s)
BY DEF Modifiers, Present

LEMMA Refreshes ==
  ASSUME NEW s \in KeyboardStates, ModifiersKnown(s)
  PROVE  LET t == logical_refresh(s, TRUE)
         IN  OnlyModifiers(s, t) /\ ModifiersKnown(t) /\ t.super = Modifiers(t)
<1> DEFINE m == Modifiers(s)
           u == [s EXCEPT !.super = m]
           v == [u EXCEPT !.unaware = TRUE]
           w == [u EXCEPT !.told = m, !.unaware = FALSE]
           t == logical_refresh(s, TRUE)
<1>1. m \in BOOLEAN
  BY DEF Modifiers
<1> HIDE DEF m
<1>2. OnlyModifiers(s, u) /\ OnlyModifiers(s, v) /\ OnlyModifiers(s, w)
      /\ u.super = m /\ v.super = m /\ w.super = m /\ v.unaware /\ w.told = m
      /\ u.told = s.told /\ u.unaware = s.unaware /\ u.seat = s.seat
      /\ u.focus = s.focus /\ u.drag = s.drag
  BY <1>1 DEF KeyboardStates, OnlyModifiers
<1>3. t = IF m # s.super /\ s.seat THEN IF s.drag THEN v ELSE IF s.focus = Null THEN u ELSE w ELSE u
  BY <1>2 DEF logical_refresh, seat_keyboard_notify_modifiers, send_modifiers, m
<1> HIDE DEF u, v, w, t
<1>4. OnlyModifiers(s, t) /\ ModifiersKnown(t) /\ t.super = m
  BY <1>2, <1>3 DEF ModifiersKnown, OnlyModifiers
<1>5. Modifiers(t) = m
  BY <1>4, ModifiersAre DEF OnlyModifiers, m
<1> QED BY <1>4, <1>5 DEF t

LEMMA Transitions ==
  ASSUME NEW s, NEW X, Steady(s, X), NEW c \in Codes, NEW press \in BOOLEAN
  PROVE  LET t == logical_key_transition(s, c, press)
             D == IF press THEN s.down \cup {c} ELSE s.down \ {c}
         IN  OnlyModifiers([s EXCEPT !.down = D], t) /\ Steady(t, X) /\ t.super = Modifiers(t)
<1> DEFINE D == IF press THEN s.down \cup {c} ELSE s.down \ {c}
           u == [s EXCEPT !.down = D]
           t == logical_key_transition(s, c, press)
<1>1. D \in SUBSET Codes
  BY DEF Steady, KeyboardStates
<1>2. t = logical_refresh(u, TRUE)
  BY DEF logical_key_transition
<1> HIDE DEF D, t
<1>3. /\ u \in KeyboardStates /\ SamePolicy(s, u) /\ u.device = s.device /\ u.seat = s.seat
      /\ u.map = s.map /\ u.keymap = s.keymap /\ u.focus = s.focus /\ u.held = s.held
      /\ u.missed = s.missed /\ u.unaware = s.unaware /\ u.told = s.told /\ u.super = s.super
      /\ u.locked = s.locked /\ u.drag = s.drag /\ u.bindings = s.bindings
  BY <1>1 DEF Steady, KeyboardStates, SamePolicy, LatchOf
<1> HIDE DEF u
<1>4. Present(u) = Present(s) /\ \A k \in Keyboards, d \in Codes : LatchOf(u, k, d) = LatchOf(s, k, d)
  BY <1>3 DEF Present, LatchOf
<1>5. PolicyOK(u)
  BY <1>3, PolicyStays DEF Steady
<1>6. Steady(u, X)
  BY <1>3, <1>4, <1>5 DEF Steady, Seated, HeldKnown, Unconsumed, ModifiersKnown, TakenDown, Covered, Latched
<1>7. OnlyModifiers(u, t) /\ ModifiersKnown(t) /\ t.super = Modifiers(t)
  BY <1>2, <1>3, <1>6, Refreshes DEF Steady
<1> QED BY <1>6, <1>7, SteadyModifiers DEF u, D, t

-----------------------------------------------------------------------------
(* A key. *)

\* The keys that are down on keyboard k when key c has gone down or up.
Edge(s, k, c, P) ==
  P \in SUBSET Codes /\ \A d \in Codes : d # c => (d \in P <=> d \in s.device[k].pressed)

\* Key c of keyboard k has gone down or up, and the keyboard may have taken it or given
\* it back; nobody else has been told.
Moved(s, h, k, c, P) ==
  /\ h \in KeyboardStates
  /\ \A x \in Keyboards : x # k => h.device[x] = s.device[x]
  /\ h.device[k] # Null
  /\ h.device[k].pressed = P
  /\ Edge(s, k, c, P)
  /\ h.device[k].explicit = s.device[k].explicit
  /\ \A d \in Codes : d # c => (d \in h.device[k].consumed <=> d \in s.device[k].consumed)
  /\ SameRest(s, h) /\ PolicyOK(h) /\ Latched(h)

\* Whether another keyboard speaks for key c.
Elsewhere(s, k, c) == \E x \in Present(s) \ {k} : c \in s.device[x].pressed \ s.device[x].consumed

LEMMA MovedUnconsumed ==
  ASSUME NEW s, NEW h, NEW k \in Keyboards, NEW c \in Codes, NEW P,
         Moved(s, h, k, c, P), s.device[k] # Null
  PROVE  /\ Present(h) = Present(s) /\ k \in Present(s)
         /\ keyboard_has_unconsumed(h, k, c) <=> Elsewhere(s, k, c)
         /\ \A d \in Codes : d # c => (Unconsumed(h, d) <=> Unconsumed(s, d))
         /\ Unconsumed(s, c) <=> Elsewhere(s, k, c) \/ c \in s.device[k].pressed \ s.device[k].consumed
         /\ Unconsumed(h, c) <=> Elsewhere(s, k, c) \/ c \in h.device[k].pressed \ h.device[k].consumed
<1>1. Present(h) = Present(s) /\ k \in Present(s)
  BY DEF Moved, Present
<1>2. \A x \in Present(s) : x \in Keyboards /\ (x # k => h.device[x] = s.device[x])
  BY DEF Moved, Present
<1>3. keyboard_has_unconsumed(h, k, c) <=> Elsewhere(s, k, c)
  BY <1>1, <1>2 DEF keyboard_has_unconsumed, Elsewhere
<1>4. \A d \in Codes : d # c => (d \in h.device[k].pressed <=> d \in s.device[k].pressed)
  BY DEF Moved, Edge
<1>5. \A d \in Codes : d # c => (Unconsumed(h, d) <=> Unconsumed(s, d))
  BY <1>1, <1>2, <1>4 DEF Moved, Unconsumed
<1> QED BY <1>1, <1>2, <1>3, <1>5 DEF Unconsumed, Elsewhere

\* The client hears of the key, or is kept from it.
OnlyHeld(h, g, c) ==
  /\ g \in KeyboardStates
  /\ g.device = h.device /\ g.down = h.down /\ g.super = h.super /\ g.keymap = h.keymap
  /\ g.seat = h.seat /\ g.bindings = h.bindings /\ g.locked = h.locked /\ g.drag = h.drag
  /\ g.focus = h.focus /\ g.told = h.told /\ g.map = h.map /\ g.unaware = h.unaware
  /\ g.events = h.events /\ g.heard = h.heard /\ g.silenced = h.silenced
  /\ \A d \in Codes : d # c => (d \in g.held <=> d \in h.held) /\ (d \in g.missed <=> d \in h.missed)

LEMMA MovedSteady ==
  ASSUME NEW s, NEW h, NEW g, NEW k \in Keyboards, NEW c \in Codes, NEW P,
         Steady(s, {}), s.device[k] # Null, Moved(s, h, k, c, P), OnlyHeld(h, g, c),
         g.focus # Null /\ c \notin g.missed => (c \in g.held <=> Unconsumed(h, c)),
         c \in h.device[k].consumed => c \in P
  PROVE  Steady(g, {})
<1>1. /\ Present(h) = Present(s)
      /\ \A d \in Codes : d # c => (Unconsumed(h, d) <=> Unconsumed(s, d))
  BY MovedUnconsumed
<1>2. /\ Present(g) = Present(h) /\ \A d : Unconsumed(g, d) <=> Unconsumed(h, d)
      /\ \A x \in Keyboards, d \in Codes : LatchOf(g, x, d) = LatchOf(h, x, d)
  BY DEF OnlyHeld, Present, Unconsumed, LatchOf
<1>3. Seated(g) /\ ModifiersKnown(g) /\ Covered(g)
  BY <1>1, <1>2 DEF Steady, Seated, ModifiersKnown, Covered, Moved, SameRest, OnlyHeld
<1>4. HeldKnown(g, {})
  BY <1>1, <1>2 DEF Steady, HeldKnown, Moved, SameRest, OnlyHeld
<1>5. TakenDown(g, {})
  <2> SUFFICES ASSUME NEW x \in Present(g), NEW d \in Codes, d \in g.device[x].consumed
               PROVE  d \in g.device[x].pressed
    BY DEF TakenDown
  <2>1. x \in Present(s) /\ x \in Keyboards
    BY <1>1, <1>2 DEF Present
  <2>2. CASE x # k
    BY <2>1, <2>2 DEF Steady, TakenDown, Moved, OnlyHeld
  <2>3. CASE x = k /\ d # c
    BY <2>1, <2>3 DEF Steady, TakenDown, Moved, Edge, OnlyHeld
  <2>4. CASE x = k /\ d = c
    BY <2>4 DEF Moved, OnlyHeld
  <2> QED BY <2>2, <2>3, <2>4
<1>6. Latched(g)
  BY <1>2 DEF Latched, Moved, OnlyHeld
<1>7. PolicyOK(g)
  BY <1>2, PolicyStays DEF SamePolicy, Moved, OnlyHeld
<1> QED BY <1>3, <1>4, <1>5, <1>6, <1>7 DEF Steady, OnlyHeld

Recorded(s, k, P) == [s EXCEPT !.device[k].pressed = P]

LEMMA RecordsOf ==
  ASSUME NEW s \in KeyboardStates, PolicyOK(s), Latched(s), NEW k \in Keyboards, NEW c \in Codes, NEW P,
         s.device[k] # Null, Edge(s, k, c, P)
  PROVE  LET r == Recorded(s, k, P)
         IN  /\ Moved(s, r, k, c, P) /\ r.device[k].consumed = s.device[k].consumed
             /\ r.device[k].latch = s.device[k].latch
<1> DEFINE d == [s.device[k] EXCEPT !.pressed = P]
           r == Recorded(s, k, P)
<1>1. s \in KeyboardStates /\ s.device \in [Keyboards -> KeyboardState \cup {Null}] /\ s.device[k] \in KeyboardState
  BY LatchTypes DEF KeyboardStates
<1>3. r = [s EXCEPT !.device = [s.device EXCEPT ![k] = d]]
  BY <1>1 DEF Recorded, KeyboardStates
<1>4. /\ d \in KeyboardState /\ d # Null /\ d.pressed = P /\ d.explicit = s.device[k].explicit
      /\ d.consumed = s.device[k].consumed /\ d.latch = s.device[k].latch
  BY <1>1, KeyboardAssumption DEF KeyboardState, Edge
<1> HIDE DEF d
<1>5. [s.device EXCEPT ![k] = d] \in [Keyboards -> KeyboardState \cup {Null}]
  BY <1>1, <1>4
<1> HIDE DEF r
<1>6. /\ r \in KeyboardStates /\ SameRest(s, r)
      /\ \A x \in Keyboards : x # k => r.device[x] = s.device[x]
      /\ r.device[k] = d /\ r.events = s.events /\ r.heard = s.heard /\ r.silenced = s.silenced
  BY <1>1, <1>3, <1>5 DEF KeyboardStates, SameRest
<1>7. \A x \in Keyboards, y \in Codes : LatchOf(r, x, y) = LatchOf(s, x, y)
  BY <1>4, <1>6 DEF LatchOf
<1>8. PolicyOK(r)
  BY <1>6, <1>7, PolicyStays DEF SamePolicy, SameRest
<1>9. Latched(r)
  BY <1>4, <1>6, <1>7 DEF Latched, LatchOf, SameRest
<1> QED BY <1>4, <1>6, <1>8, <1>9 DEF Moved, r

LEMMA Records ==
  ASSUME NEW s, Steady(s, {}), NEW k \in Keyboards, NEW c \in Codes, NEW P,
         s.device[k] # Null, Edge(s, k, c, P)
  PROVE  LET r == Recorded(s, k, P)
         IN  /\ Moved(s, r, k, c, P) /\ r.device[k].consumed = s.device[k].consumed
             /\ r.device[k].latch = s.device[k].latch
BY RecordsOf DEF Steady

LEMMA MovedTurned ==
  ASSUME NEW s, NEW r, NEW h, NEW k \in Keyboards, NEW c \in Codes, NEW P, NEW C, NEW L,
         Moved(s, r, k, c, P), Turned(r, h, k, C, c, L), PolicyOK(h), Latched(h),
         \A d \in Codes : d # c => (d \in C <=> d \in r.device[k].consumed)
  PROVE  Moved(s, h, k, c, P) /\ h.device[k].consumed = C
BY DEF Moved, Turned, SameRest

LEMMA NothingHeld ==
  ASSUME NEW h, NEW c, h \in KeyboardStates
  PROVE  OnlyHeld(h, h, c)
BY DEF OnlyHeld

\* What a key does, whoever takes it.
Went(s, g, k, c, P) ==
  Steady(g, {}) /\ \E h : Moved(s, h, k, c, P) /\ OnlyHeld(h, g, c)

\* A key that was taken is given back.
LEMMA KeyGivenBack ==
  ASSUME NEW s, Steady(s, {}), NEW k \in Keyboards, NEW c \in Codes, NEW P,
         s.device[k] # Null, Edge(s, k, c, P), c \notin P, c \in s.device[k].consumed
  PROVE  Went(s, Unlatch(Recorded(s, k, P), k, c), k, c, P)
<1> DEFINE r == Recorded(s, k, P)
           h == Unlatch(r, k, c)
<1>1. /\ Moved(s, r, k, c, P) /\ r.device[k].consumed = s.device[k].consumed
  BY Records
<1> HIDE DEF r
<1>2. Turned(r, h, k, r.device[k].consumed \ {c}, c, Null) /\ PolicyOK(h) /\ Latched(h)
  BY <1>1, Unlatches DEF Moved
<1> HIDE DEF h
<1>3. Moved(s, h, k, c, P) /\ h.device[k].consumed = r.device[k].consumed \ {c}
  BY <1>1, <1>2, MovedTurned
<1>5. Unconsumed(h, c) <=> Unconsumed(s, c)
  <2>1. /\ Unconsumed(s, c) <=> Elsewhere(s, k, c) \/ c \in s.device[k].pressed \ s.device[k].consumed
        /\ Unconsumed(h, c) <=> Elsewhere(s, k, c) \/ c \in h.device[k].pressed \ h.device[k].consumed
    BY <1>3, MovedUnconsumed
  <2> QED BY <1>3, <2>1 DEF Moved
<1>6. h.focus # Null /\ c \notin h.missed => (c \in h.held <=> Unconsumed(h, c))
  BY <1>3, <1>5 DEF Steady, HeldKnown, Moved, SameRest
<1>7. OnlyHeld(h, h, c)
  BY <1>3, NothingHeld DEF Moved
<1>8. Steady(h, {})
  BY <1>3, <1>6, <1>7, MovedSteady
<1> QED BY <1>3, <1>7, <1>8 DEF Went, h, r

\* A press is taken: h is the state in which keyboard k has it.
LEMMA PressTaken ==
  ASSUME NEW s, Steady(s, {}), NEW k \in Keyboards, NEW c \in Codes, s.device[k] # Null,
         c \notin s.device[k].pressed, NEW P, Edge(s, k, c, P), c \in P, NEW h, Moved(s, h, k, c, P), c \in h.device[k].consumed
  PROVE  /\ h.focus # Null /\ c \notin h.missed => (c \in h.held <=> Unconsumed(h, c))
         /\ Went(s, h, k, c, P)
<1>1. /\ Unconsumed(h, c) <=> Unconsumed(s, c)
  BY MovedUnconsumed
<1>2. h.focus # Null /\ c \notin h.missed => (c \in h.held <=> Unconsumed(h, c))
  BY <1>1 DEF Steady, HeldKnown, Moved, SameRest
<1>3. OnlyHeld(h, h, c)
  BY NothingHeld DEF Moved
<1>4. Steady(h, {})
  BY <1>2, <1>3, MovedSteady
<1> QED BY <1>2, <1>3, <1>4 DEF Went

LEMMA PressConsumed ==
  ASSUME NEW s, Steady(s, {}), NEW k \in Keyboards, NEW c \in Codes, s.device[k] # Null,
         c \notin s.device[k].pressed, NEW P, Edge(s, k, c, P), c \in P
  PROVE  LET h == Consume(Recorded(s, k, P), k, c)
         IN  Moved(s, h, k, c, P) /\ c \in h.device[k].consumed
<1> DEFINE r == Recorded(s, k, P)
           h == Consume(r, k, c)
<1>1. /\ Moved(s, r, k, c, P) /\ r.device[k].consumed = s.device[k].consumed
  BY Records
<1> HIDE DEF r
<1>2. Turned(r, h, k, r.device[k].consumed \cup {c}, c, r.device[k].latch[c]) /\ PolicyOK(h) /\ Latched(h)
  BY <1>1, KeyConsumed DEF Moved
<1> HIDE DEF h
<1>3. Moved(s, h, k, c, P) /\ h.device[k].consumed = r.device[k].consumed \cup {c}
  BY <1>1, <1>2, MovedTurned
<1> QED BY <1>3 DEF h, r

LEMMA PressLatched ==
  ASSUME NEW s, Steady(s, {}), NEW k \in Keyboards, NEW c \in Codes, s.device[k] # Null,
         c \notin s.device[k].pressed, NEW P, Edge(s, k, c, P), c \in P, NEW b \in s.bindings
  PROVE  LET h == Latch(Recorded(s, k, P), k, c, b)
         IN  Moved(s, h, k, c, P) /\ c \in h.device[k].consumed
<1> DEFINE r == Recorded(s, k, P)
           h == Latch(r, k, c, b)
<1>1. /\ Moved(s, r, k, c, P) /\ r.device[k].consumed = s.device[k].consumed
      /\ r.device[k].latch = s.device[k].latch
  BY Records
<1> HIDE DEF r
<1>2. r.device[k].latch[c] = Null
  <2>1. c \notin s.device[k].consumed
    BY DEF Steady, TakenDown, Present
  <2> QED BY <1>1, <2>1 DEF Steady, Latched, LatchOf
<1>3. b \in r.bindings
  BY <1>1 DEF Moved, SameRest
<1>4. Turned(r, h, k, r.device[k].consumed \cup {c}, c, b) /\ PolicyOK(h) /\ Latched(h)
  BY <1>1, <1>2, <1>3, Latches DEF Moved
<1> HIDE DEF h
<1>5. Moved(s, h, k, c, P) /\ h.device[k].consumed = r.device[k].consumed \cup {c}
  BY <1>1, <1>4, MovedTurned
<1> QED BY <1>5 DEF h, r

\* A release that the client is kept from.
LEMMA KeyKept ==
  ASSUME NEW s, Steady(s, {}), NEW k \in Keyboards, NEW c \in Codes, NEW P, s.device[k] # Null,
         Edge(s, k, c, P), c \notin P, c \in s.device[k].pressed \ s.device[k].consumed
  PROVE  Went(s, Kept(Recorded(s, k, P), k, c), k, c, P)
<1> DEFINE r == Recorded(s, k, P)
           g == Kept(r, k, c)
           m == [r EXCEPT !.missed = @ \cup {c}]
<1>1. Moved(s, r, k, c, P)
  BY Records
<1> HIDE DEF r
<1>2. /\ keyboard_has_unconsumed(r, k, c) <=> Elsewhere(s, k, c)
      /\ Unconsumed(s, c)
      /\ Unconsumed(r, c) <=> Elsewhere(s, k, c)
  <2>1. /\ keyboard_has_unconsumed(r, k, c) <=> Elsewhere(s, k, c)
        /\ Unconsumed(s, c) <=> Elsewhere(s, k, c) \/ c \in s.device[k].pressed \ s.device[k].consumed
        /\ Unconsumed(r, c) <=> Elsewhere(s, k, c) \/ c \in r.device[k].pressed \ r.device[k].consumed
    BY <1>1, MovedUnconsumed
  <2> QED BY <1>1, <2>1 DEF Moved
<1>3. OnlyHeld(r, r, c) /\ OnlyHeld(r, m, c) /\ c \in m.missed
  BY <1>1 DEF Moved, OnlyHeld, KeyboardStates
<1>4. g = IF Elsewhere(s, k, c) \/ r.focus = Null THEN r ELSE m
  BY <1>2 DEF Kept
<1> HIDE DEF m, g
<1>5. OnlyHeld(r, g, c)
  BY <1>3, <1>4
<1>6. g.focus # Null /\ c \notin g.missed => (c \in g.held <=> Unconsumed(r, c))
  BY <1>1, <1>2, <1>3, <1>4 DEF Moved, SameRest, Steady, HeldKnown, OnlyHeld
<1>7. c \notin r.device[k].consumed
  BY Records DEF r
<1>8. Steady(g, {})
  BY <1>1, <1>5, <1>6, <1>7, MovedSteady
<1> QED BY <1>1, <1>5, <1>8 DEF Went, g, r

\* A key that nobody takes, unless another keyboard speaks for it.
LEMMA KeyTold ==
  ASSUME NEW s, Steady(s, {}), NEW k \in Keyboards, NEW c \in Codes, NEW P, s.device[k] # Null,
         Edge(s, k, c, P), (c \in P) # (c \in s.device[k].pressed), c \notin s.device[k].consumed,
         NEW press \in BOOLEAN, press <=> c \in P
  PROVE  Went(s, ClientKey(Recorded(s, k, P), k, c, press), k, c, P)
<1> DEFINE r == Recorded(s, k, P)
           g == ClientKey(r, k, c, press)
           m == [r EXCEPT !.missed = @ \cup {c}]
           a == [r EXCEPT !.held = @ \cup {c}, !.missed = @ \ {c}]
           b == [r EXCEPT !.held = @ \ {c}, !.missed = @ \ {c}]
<1>1. Moved(s, r, k, c, P) /\ r.device[k].consumed = s.device[k].consumed
  BY Records
<1> HIDE DEF r
<1>2. /\ keyboard_has_unconsumed(r, k, c) <=> Elsewhere(s, k, c)
      /\ Elsewhere(s, k, c) => Unconsumed(s, c)
      /\ Unconsumed(r, c) <=> Elsewhere(s, k, c) \/ c \in P
  <2>1. /\ keyboard_has_unconsumed(r, k, c) <=> Elsewhere(s, k, c)
        /\ Unconsumed(s, c) <=> Elsewhere(s, k, c) \/ c \in s.device[k].pressed \ s.device[k].consumed
        /\ Unconsumed(r, c) <=> Elsewhere(s, k, c) \/ c \in r.device[k].pressed \ r.device[k].consumed
    BY <1>1, MovedUnconsumed
  <2> QED BY <1>1, <2>1 DEF Moved
<1>3. /\ OnlyHeld(r, r, c) /\ OnlyHeld(r, m, c) /\ OnlyHeld(r, a, c) /\ OnlyHeld(r, b, c)
      /\ c \in m.missed /\ c \in a.held /\ c \notin b.held
  BY <1>1 DEF Moved, OnlyHeld, KeyboardStates
<1>4. g = IF Elsewhere(s, k, c) THEN r
          ELSE IF r.drag THEN m
          ELSE IF r.focus = Null THEN r
          ELSE IF press THEN a ELSE b
  BY <1>2 DEF ClientKey, seat_keyboard_notify_key, seat_keyboard_send_key
<1> HIDE DEF m, a, b, g
<1>5. OnlyHeld(r, g, c)
  BY <1>3, <1>4
<1>6. g.focus # Null /\ c \notin g.missed => (c \in g.held <=> Unconsumed(r, c))
  <2>1. CASE Elsewhere(s, k, c)
    BY <1>1, <1>2, <1>4, <2>1 DEF Moved, SameRest, Steady, HeldKnown
  <2>2. CASE ~Elsewhere(s, k, c)
    BY <1>2, <1>3, <1>4, <2>2
  <2> QED BY <2>1, <2>2
<1>7. Steady(g, {})
  BY <1>1, <1>5, <1>6, MovedSteady
<1> QED BY <1>1, <1>5, <1>7 DEF Went, g, r

Pressed(s, k, c, press) ==
  IF press THEN s.device[k].pressed \cup {c} ELSE s.device[k].pressed \ {c}

LEMMA EdgeOf ==
  ASSUME NEW s \in KeyboardStates, NEW k \in Keyboards, NEW c \in Codes, NEW press \in BOOLEAN,
         s.device[k] # Null
  PROVE  Edge(s, k, c, Pressed(s, k, c, press)) /\ (c \in Pressed(s, k, c, press) <=> press)
BY LatchTypes DEF Edge, Pressed, KeyboardState

LEMMA KeyWent ==
  ASSUME NEW s, Steady(s, {}), NEW k \in Keyboards, NEW c \in Codes, s.device[k] # Null,
         NEW press \in BOOLEAN, NEW switch \in BOOLEAN, NEW closes \in BOOLEAN,
         press # (c \in s.device[k].pressed), NEW taker \in s.bindings \cup {Null}, switch => press
  PROVE  LET P == Pressed(s, k, c, press)
         IN  Went(s, KeyGoes(Recorded(s, k, P), k, c, press, taker, switch, closes), k, c, P)
<1> DEFINE P == Pressed(s, k, c, press)
           r == Recorded(s, k, P)
           g == KeyGoes(r, k, c, press, taker, switch, closes)
           taken == Consume(r, k, c)
           latched == Latch(r, k, c, taker)
           shown == [taken EXCEPT !.shot = ~closes]
<1>1. Edge(s, k, c, P) /\ (c \in P <=> press)
  BY EdgeOf DEF Steady
<1> HIDE DEF P
<1>2. Moved(s, r, k, c, P) /\ r.device[k].consumed = s.device[k].consumed
  BY <1>1, Records
<1>3. c \in s.device[k].consumed => c \in s.device[k].pressed
  BY DEF Steady, TakenDown, Present
<1>4. c \in s.device[k].consumed => Went(s, Unlatch(r, k, c), k, c, P)
  BY <1>1, <1>3, KeyGivenBack
<1>5. press => Moved(s, taken, k, c, P) /\ c \in taken.device[k].consumed
  BY <1>1, PressConsumed
<1>6. press => /\ taken.focus # Null /\ c \notin taken.missed => (c \in taken.held <=> Unconsumed(taken, c))
               /\ Went(s, taken, k, c, P)
  BY <1>1, <1>5, PressTaken
<1>7. press => Went(s, shown, k, c, P)
  <2> SUFFICES ASSUME press PROVE Went(s, shown, k, c, P)
    OBVIOUS
  <2> HIDE DEF taken
  <2>1. OnlyHeld(taken, shown, c) /\ shown.focus = taken.focus /\ shown.missed = taken.missed /\ shown.held = taken.held
    BY <1>5 DEF OnlyHeld, Moved, KeyboardStates
  <2> HIDE DEF shown
  <2>2. Steady(shown, {})
    BY <1>1, <1>5, <1>6, <2>1, MovedSteady
  <2> QED BY <1>5, <2>1, <2>2 DEF Went
<1>8. press /\ taker # Null => Went(s, latched, k, c, P)
  <2> SUFFICES ASSUME press, taker # Null PROVE Went(s, latched, k, c, P)
    OBVIOUS
  <2>1. taker \in s.bindings
    OBVIOUS
  <2>2. Moved(s, latched, k, c, P) /\ c \in latched.device[k].consumed
    BY <1>1, <2>1, PressLatched
  <2> HIDE DEF latched
  <2> QED BY <1>1, <2>2, PressTaken
<1>9. ~press /\ c \notin s.device[k].consumed => Went(s, Kept(r, k, c), k, c, P)
  BY <1>1, KeyKept
<1>10. c \notin s.device[k].consumed => Went(s, ClientKey(r, k, c, press), k, c, P)
  BY <1>1, KeyTold
<1> HIDE DEF taken, latched, r
<1>11. \/ g = Unlatch(r, k, c) /\ c \in s.device[k].consumed
       \/ g = taken /\ press
       \/ g = shown /\ press
       \/ g = latched /\ press /\ taker # Null
       \/ g = Kept(r, k, c) /\ ~press /\ c \notin s.device[k].consumed
       \/ g = ClientKey(r, k, c, press) /\ c \notin s.device[k].consumed
  BY <1>2 DEF KeyGoes, ScreenshotKey, GrabbedKey, taken, latched
<1> HIDE DEF g, shown
<1> QED BY <1>4, <1>6, <1>7, <1>8, <1>9, <1>10, <1>11 DEF g, r, P

\* The merged keyboard follows when no other keyboard holds the key.
LEMMA KeyMerged ==
  ASSUME NEW s, KeysOK(s), NEW k \in Keyboards, NEW c \in Codes, s.device[k] # Null,
         NEW press \in BOOLEAN, NEW g, NEW P, Went(s, g, k, c, P), c \in P <=> press
  PROVE  KeysOK(IF ~keyboard_has_pressed(s, k, c) THEN logical_key_transition(g, c, press) ELSE g)
<1> DEFINE t == logical_key_transition(g, c, press)
           D == IF press THEN g.down \cup {c} ELSE g.down \ {c}
           u == [g EXCEPT !.down = D]
           Else == \E x \in Present(s) \ {k} : c \in s.device[x].pressed
<1>1. PICK h : Moved(s, h, k, c, P) /\ OnlyHeld(h, g, c)
  BY DEF Went
<1>2. /\ Steady(g, {}) /\ g \in KeyboardStates /\ s \in KeyboardStates
      /\ g.down = s.down /\ g.super = s.super /\ g.device = h.device
  BY <1>1 DEF Went, Steady, KeysOK, Moved, SameRest, OnlyHeld
<1>3. /\ \A x \in Keyboards : x # k => g.device[x] = s.device[x]
      /\ g.device[k] # Null /\ g.device[k].pressed = P
      /\ g.device[k].explicit = s.device[k].explicit
      /\ \A d \in Codes : d # c => (d \in P <=> d \in s.device[k].pressed)
  BY <1>1, <1>2 DEF Moved, Edge
<1>4. Present(g) = Present(s) /\ k \in Present(s)
  BY <1>3 DEF Present
<1>5. \A x \in Present(s) : x \in Keyboards
  BY DEF Present
<1>6. Merged(s) /\ s.super = Modifiers(s)
  BY DEF KeysOK
<1>7. \A d \in Codes : d # c =>
        (d \in s.down <=> \E x \in Present(g) : d \in g.device[x].pressed)
  BY <1>3, <1>4, <1>5, <1>6 DEF Merged
<1>8. (\E x \in Present(g) : c \in g.device[x].pressed) <=> press \/ Else
  BY <1>3, <1>4, <1>5
<1>9. keyboard_has_pressed(s, k, c) <=> Else
  BY DEF keyboard_has_pressed
<1>10. CASE Else
  <2>1. c \in s.down
    BY <1>6, <1>10 DEF Merged
  <2>2. Merged(g)
    BY <1>2, <1>7, <1>8, <1>10, <2>1 DEF Merged
  <2>3. \A x \in Present(s) : g.device[x].explicit <=> s.device[x].explicit
    BY <1>3, <1>5
  <2>4. Modifiers(g) = Modifiers(s)
    BY <1>2, <1>4, <2>3 DEF Modifiers
  <2> QED BY <1>2, <1>6, <1>9, <1>10, <2>2, <2>4 DEF KeysOK
<1>11. CASE ~Else
  <2>1. OnlyModifiers(u, t) /\ Steady(t, {}) /\ t.super = Modifiers(t)
    BY <1>2, Transitions
  <2> HIDE DEF t
  <2>2. t.down = D /\ t.device = g.device
    BY <1>2, <2>1 DEF OnlyModifiers, KeyboardStates
  <2>3. Present(t) = Present(g)
    BY <2>2 DEF Present
  <2>4. Merged(t)
    BY <1>2, <1>7, <1>8, <1>11, <2>2, <2>3 DEF Merged
  <2> QED BY <1>9, <1>11, <2>1, <2>4 DEF KeysOK, t
<1> QED BY <1>10, <1>11

LEMMA InputKeyStep ==
  ASSUME KeysOK(kbd), NEW k \in Keyboards, NEW c \in Codes, NEW press \in BOOLEAN, input_key(k, c, press)
  PROVE  KeysOK(kbd')
<1> DEFINE P == Pressed(kbd, k, c, press)
           recorded == [kbd EXCEPT !.device[k].pressed = IF press THEN @ \cup {c} ELSE @ \ {c}]
<1>1. Steady(kbd, {}) /\ kbd \in KeyboardStates
  BY DEF KeysOK, Steady
<1>2. kbd.device[k] # Null /\ press # (c \in kbd.device[k].pressed)
  BY DEF input_key
<1>3. PICK taker \in Takers(kbd, c), switch \in BOOLEAN, closes \in BOOLEAN :
        /\ switch => press
        /\ LET g == KeyGoes(recorded, k, c, press, taker, switch, closes)
           IN  kbd' = IF ~keyboard_has_pressed(kbd, k, c) THEN logical_key_transition(g, c, press) ELSE g
  BY DEF input_key
<1>4. taker \in kbd.bindings \cup {Null}
  BY DEF Takers, GrabMatching, Matching
<1>5. recorded = Recorded(kbd, k, P)
  BY <1>1 DEF Recorded, Pressed, KeyboardStates
<1> HIDE DEF recorded
<1>6. c \in P <=> press
  BY <1>1, <1>2, EdgeOf
<1> DEFINE g == KeyGoes(recorded, k, c, press, taker, switch, closes)
<1>7. Went(kbd, g, k, c, P)
  BY <1>1, <1>2, <1>3, <1>4, <1>5, KeyWent
<1> HIDE DEF P
<1>8. kbd' = IF ~keyboard_has_pressed(kbd, k, c) THEN logical_key_transition(g, c, press) ELSE g
  BY <1>3
<1> HIDE DEF g
<1> QED BY <1>2, <1>6, <1>7, <1>8, KeyMerged

\* What a keyboard says of its modifiers is no key.
LEMMA SteadyKeys ==
  ASSUME NEW s, NEW t, NEW X, Steady(s, X), t \in KeyboardStates, Seated(t), ModifiersKnown(t),
         \A x \in Keyboards : t.device[x] = Null <=> s.device[x] = Null,
         \A x \in Present(s) : /\ t.device[x].pressed = s.device[x].pressed
                               /\ t.device[x].consumed = s.device[x].consumed
                               /\ t.device[x].latch = s.device[x].latch,
         t.focus = s.focus, t.held = s.held, t.missed = s.missed, t.locked = s.locked, t.drag = s.drag,
         t.bindings = s.bindings, t.events = s.events, t.heard = s.heard, t.silenced = s.silenced
  PROVE  Steady(t, X)
<1>1. Present(t) = Present(s)
  BY DEF Present
<1>2. \A x \in Keyboards, d \in Codes : LatchOf(t, x, d) = LatchOf(s, x, d)
  BY DEF LatchOf, Present
<1>3. \A d : Unconsumed(t, d) <=> Unconsumed(s, d)
  BY <1>1 DEF Unconsumed
<1>4. PolicyOK(t)
  BY <1>2, PolicyStays DEF SamePolicy, Steady
<1>5. Latched(t)
  BY <1>2 DEF Steady, Latched, LatchOf, Present
<1> QED BY <1>1, <1>3, <1>4, <1>5 DEF Steady, HeldKnown, TakenDown, Covered

LEMMA InputModifiersStep ==
  ASSUME KeysOK(kbd), NEW k \in Keyboards, NEW super \in BOOLEAN, input_modifiers(k, super)
  PROVE  KeysOK(kbd')
<1> DEFINE s == kbd
           d == [s.device[k] EXCEPT !.explicit = super]
           u == [s EXCEPT !.device[k].explicit = super]
<1>1. s \in KeyboardStates /\ s.device[k] # Null /\ s.device[k] \in KeyboardState
      /\ s.device \in [Keyboards -> KeyboardState \cup {Null}]
  BY LatchTypes DEF KeysOK, Steady, KeyboardStates, input_modifiers
<1>2. /\ d \in KeyboardState /\ d # Null /\ d.pressed = s.device[k].pressed
      /\ d.consumed = s.device[k].consumed /\ d.latch = s.device[k].latch
  BY <1>1, KeyboardAssumption DEF KeyboardState
<1>3. u = [s EXCEPT !.device = [s.device EXCEPT ![k] = d]]
  BY <1>1 DEF KeyboardStates
<1> HIDE DEF d
<1>4. [s.device EXCEPT ![k] = d] \in [Keyboards -> KeyboardState \cup {Null}]
  BY <1>1, <1>2
<1> HIDE DEF u
<1>5. /\ u \in KeyboardStates /\ u.device = [s.device EXCEPT ![k] = d] /\ u.down = s.down
      /\ u.seat = s.seat /\ u.map = s.map /\ u.keymap = s.keymap /\ u.unaware = s.unaware
      /\ u.told = s.told /\ u.super = s.super
      /\ u.focus = s.focus /\ u.held = s.held /\ u.missed = s.missed /\ u.locked = s.locked
      /\ u.drag = s.drag /\ u.bindings = s.bindings /\ u.events = s.events /\ u.heard = s.heard
      /\ u.silenced = s.silenced
  BY <1>1, <1>3, <1>4 DEF KeyboardStates
<1>6. /\ \A x \in Keyboards : u.device[x] = Null <=> s.device[x] = Null
      /\ \A x \in Present(s) : /\ u.device[x].pressed = s.device[x].pressed
                               /\ u.device[x].consumed = s.device[x].consumed
                               /\ u.device[x].latch = s.device[x].latch
      /\ Present(u) = Present(s)
  BY <1>1, <1>2, <1>5 DEF Present
<1>7. Seated(u) /\ ModifiersKnown(u)
  BY <1>5, <1>6 DEF KeysOK, Steady, Seated, ModifiersKnown
<1>8. Steady(u, {})
  BY <1>5, <1>6, <1>7, SteadyKeys DEF KeysOK
<1>9. kbd' = logical_refresh(u, TRUE)
  BY DEF input_modifiers, u
<1>10. OnlyModifiers(u, kbd') /\ ModifiersKnown(kbd') /\ kbd'.super = Modifiers(kbd')
  BY <1>5, <1>7, <1>9, Refreshes
<1>11. Steady(kbd', {})
  BY <1>8, <1>10, SteadyModifiers
<1>12. Merged(kbd')
  BY <1>5, <1>6, <1>10 DEF KeysOK, Merged, OnlyModifiers, Present
<1> QED BY <1>10, <1>11, <1>12 DEF KeysOK

-----------------------------------------------------------------------------
(* The focus. *)

\* All but which surfaces a lock leaves.
KeysOKBut(s) ==
  /\ s \in KeyboardStates
  /\ Seated(s) /\ HeldKnown(s, {}) /\ ModifiersKnown(s) /\ TakenDown(s, {})
  /\ Latched(s) /\ PolicyOK(s) /\ Merged(s) /\ s.super = Modifiers(s)

LEMMA KeysButCovered ==
  ASSUME NEW s
  PROVE  KeysOK(s) <=> KeysOKBut(s) /\ Covered(s)
BY DEF KeysOK, Steady, KeysOKBut

\* What says nothing of the keys or of the policy.
SameKeyboards(s, t) ==
  /\ t.device = s.device /\ t.down = s.down /\ t.super = s.super /\ t.keymap = s.keymap
  /\ t.seat = s.seat /\ t.map = s.map
  /\ t.bindings = s.bindings /\ t.events = s.events /\ t.heard = s.heard /\ t.silenced = s.silenced

LEMMA KeysStay ==
  ASSUME NEW s, NEW t \in KeyboardStates, KeysOKBut(s), SameKeyboards(s, t),
         HeldKnown(t, {}), ModifiersKnown(t)
  PROVE  KeysOKBut(t)
<1>1. Present(t) = Present(s) /\ \A k \in Keyboards, c \in Codes : LatchOf(t, k, c) = LatchOf(s, k, c)
  BY DEF SameKeyboards, Present, LatchOf
<1>2. PolicyOK(t)
  BY <1>1, PolicyStays DEF SamePolicy, SameKeyboards, KeysOKBut
<1>3. Modifiers(t) = Modifiers(s)
  BY ModifiersAre DEF SameKeyboards
<1> QED BY <1>1, <1>2, <1>3 DEF KeysOKBut, SameKeyboards, Seated, TakenDown, Latched, Merged

LEMMA PressedAre ==
  ASSUME NEW s, NEW c \in Codes
  PROVE  c \in keyboard_pressed(s) <=> Unconsumed(s, c)
<1>1. Present(s) \ {Null} = Present(s)
  BY KeyboardAssumption DEF Present
<1> QED BY <1>1 DEF keyboard_pressed, keyboard_has_unconsumed, Unconsumed

LEMMA FocusUpdates ==
  ASSUME NEW s, KeysOKBut(s), NEW x \in Focusable \cup {Null}, x \in Wanted(s)
  PROVE  KeysOK(update_keyboard_focus(s, x))
<1> DEFINE H == IF x = Null THEN {} ELSE keyboard_pressed(s)
           u == [s EXCEPT !.focus = x, !.missed = {}, !.unaware = FALSE, !.held = H]
           v == [u EXCEPT !.told = s.super, !.unaware = FALSE]
           t == update_keyboard_focus(s, x)
<1>1. CASE s.drag \/ s.focus = x
  <2>1. t = s
    BY <1>1 DEF update_keyboard_focus, seat_keyboard_notify_enter, seat_keyboard_enter
  <2>2. Covered(s)
    BY <1>1 DEF Covered, Wanted
  <2> QED BY <2>1, <2>2, KeysButCovered
<1>2. CASE ~(s.drag \/ s.focus = x)
  <2>1. H \in SUBSET Codes /\ \A c \in Codes : x # Null => (c \in H <=> Unconsumed(s, c))
    BY PressedAre DEF keyboard_pressed
  <2> HIDE DEF H
  <2>2. s \in KeyboardStates
    BY DEF KeysOKBut
  <2>3. /\ u \in KeyboardStates /\ SameKeyboards(s, u) /\ u.focus = x /\ u.held = H /\ u.super = s.super
        /\ u.drag = s.drag /\ u.locked = s.locked
    BY <2>1, <2>2 DEF KeyboardStates, SameKeyboards
  <2>4. t = IF x = Null THEN u ELSE v
    BY <1>2, <2>3 DEF update_keyboard_focus, seat_keyboard_notify_enter, seat_keyboard_enter, send_modifiers, H
  <2> HIDE DEF u
  <2>5. /\ v \in KeyboardStates /\ SameKeyboards(s, v) /\ v.focus = x /\ v.held = H
        /\ v.told = s.super /\ v.super = s.super /\ v.drag = s.drag /\ v.locked = s.locked
    BY <2>2, <2>3 DEF KeyboardStates, SameKeyboards
  <2> HIDE DEF v, t
  <2>6. /\ t \in KeyboardStates /\ SameKeyboards(s, t) /\ t.focus = x /\ t.drag = s.drag /\ t.locked = s.locked
        /\ x # Null => t.held = H /\ t.told = t.super
    BY <2>3, <2>4, <2>5
  <2>7. HeldKnown(t, {}) /\ ModifiersKnown(t)
    BY <2>1, <2>6 DEF HeldKnown, ModifiersKnown, Unconsumed, Present, SameKeyboards
  <2>8. KeysOKBut(t)
    BY <2>6, <2>7, KeysStay
  <2>9. Covered(t)
    BY <2>6 DEF Covered, Wanted
  <2> QED BY <2>8, <2>9, KeysButCovered DEF t
<1> QED BY <1>1, <1>2

\* Flags that only say who takes a key, and the focus that goes.
LEMMA SimpleKeySteps ==
  ASSUME KeysOK(kbd),
         \/ keyboard_surface_destroyed \/ tomoe_screenshot \/ screenshot_close \/ start_drag
         \/ \E x \in Focusable \cup {Null} : FocusMoves(x) \/ Unlock(x) \/ drag_end(x)
  PROVE  KeysOK(kbd')
<1>1. kbd \in KeyboardStates /\ KeysOKBut(kbd) /\ Covered(kbd)
  BY KeysButCovered DEF KeysOKBut
<1>2. CASE keyboard_surface_destroyed
  <2>1. /\ kbd' \in KeyboardStates /\ SameKeyboards(kbd, kbd') /\ kbd'.focus = Null
    BY <1>1, <1>2 DEF keyboard_surface_destroyed, KeyboardStates, SameKeyboards
  <2>2. KeysOKBut(kbd')
    BY <1>1, <2>1, KeysStay DEF HeldKnown, ModifiersKnown
  <2> QED BY <2>1, <2>2, KeysButCovered DEF Covered
<1>3. CASE tomoe_screenshot \/ screenshot_close \/ start_drag
  <2>1. /\ kbd' \in KeyboardStates /\ SameKeyboards(kbd, kbd') /\ kbd'.focus = kbd.focus
        /\ kbd'.held = kbd.held /\ kbd'.missed = kbd.missed /\ kbd'.told = kbd.told
        /\ kbd'.unaware = kbd.unaware /\ kbd'.locked = kbd.locked /\ (kbd.drag => kbd'.drag)
    BY <1>1, <1>3 DEF tomoe_screenshot, screenshot_close, start_drag, KeyboardStates, SameKeyboards
  <2>2. HeldKnown(kbd', {}) /\ ModifiersKnown(kbd') /\ Covered(kbd')
    BY <1>1, <2>1 DEF KeysOKBut, HeldKnown, ModifiersKnown, Covered, Unconsumed, Present, SameKeyboards
  <2>3. KeysOKBut(kbd')
    BY <1>1, <2>1, <2>2, KeysStay
  <2> QED BY <2>2, <2>3, KeysButCovered
<1>4. ASSUME NEW x \in Focusable \cup {Null}, FocusMoves(x) \/ Unlock(x) \/ drag_end(x)
      PROVE  KeysOK(kbd')
  <2>1. CASE FocusMoves(x)
    BY <1>1, <2>1, FocusUpdates DEF FocusMoves
  <2>2. CASE Unlock(x) \/ drag_end(x)
    <3> DEFINE u == IF Unlock(x) THEN [kbd EXCEPT !.locked = FALSE] ELSE [kbd EXCEPT !.drag = FALSE]
    <3>1. kbd' = update_keyboard_focus(u, x) /\ x \in Wanted(u)
      BY <2>2 DEF Unlock, drag_end
    <3>2. /\ u \in KeyboardStates /\ SameKeyboards(kbd, u) /\ u.focus = kbd.focus
          /\ u.held = kbd.held /\ u.missed = kbd.missed /\ u.told = kbd.told /\ u.unaware = kbd.unaware
      BY <1>1 DEF KeyboardStates, SameKeyboards
    <3> HIDE DEF u
    <3>3. HeldKnown(u, {}) /\ ModifiersKnown(u)
      BY <1>1, <3>2 DEF KeysOKBut, HeldKnown, ModifiersKnown, Unconsumed, Present, SameKeyboards
    <3>4. KeysOKBut(u)
      BY <1>1, <3>2, <3>3, KeysStay
    <3> QED BY <3>1, <3>4, FocusUpdates
  <2> QED BY <1>4, <2>1, <2>2
<1> QED BY <1>2, <1>3, <1>4

\* With the same bindings, events and presses taken, the policy hears the same.
LEMMA SameBeliefs ==
  ASSUME NEW s, NEW t, t.bindings = s.bindings, t.events = s.events, t.heard = s.heard
  PROVE  /\ \A k, c, i : Mine(t, k, c, i) <=> Mine(s, k, c, i)
         /\ \A id : Expected(t, id) <=> Expected(s, id)
         /\ \A k, c, id : LastPressed(t, k, c, id) <=> LastPressed(s, k, c, id)
         /\ \A k, c, n, id : Believes(t, k, c, n, id) <=> Believes(s, k, c, n, id)
         /\ Named(s) => Named(t)
         /\ Ordered(s) => Ordered(t)
<1>1. /\ \A k, c, i : Mine(t, k, c, i) <=> Mine(s, k, c, i)
      /\ \A id : Expected(t, id) <=> Expected(s, id)
      /\ \A k, c, id : LastPressed(t, k, c, id) <=> LastPressed(s, k, c, id)
  BY DEF Mine, Current, Expected, LastPressed
<1>2. \A k, c, n, id : Believes(t, k, c, n, id) <=> Believes(s, k, c, n, id)
  BY <1>1 DEF Believes
<1> QED BY <1>1, <1>2 DEF Named, Ordered

\* A lock drops every shortcut that holds a key, and remembers which.
LEMMA Cancels ==
  ASSUME NEW s, KeysOKBut(s)
  PROVE  LET t == keyboard_latches_cancel(s)
         IN  KeysOKBut(t) /\ t.focus = s.focus /\ t.locked = s.locked /\ t.drag = s.drag
<1> DEFINE none == [c \in Codes |-> Null]
           dev(k) == [s.device[k] EXCEPT !.latch = none]
           D == [k \in Keyboards |-> IF s.device[k] = Null THEN Null ELSE dev(k)]
           Q == {q \in Present(s) \X Codes : s.device[q[1]].latch[q[2]] # Null}
           Z == {Press(p[1], p[2], s.device[p[1]].latch[p[2]]) : p \in Q}
           t == keyboard_latches_cancel(s)
<1>1. s \in KeyboardStates /\ s.silenced \subseteq KeyPresses
  BY DEF KeysOKBut, KeyboardStates
<1>2. \A k \in Present(s) : /\ k \in Keyboards /\ s.device[k] \in KeyboardState
                            /\ \A c \in Codes : s.device[k].latch[c] \in Binding \cup {Null}
  BY <1>1, LatchTypes DEF Present
<1>3. \A k \in Present(s) : /\ dev(k) \in KeyboardState /\ dev(k).pressed = s.device[k].pressed
                            /\ dev(k).consumed = s.device[k].consumed /\ dev(k).latch = none
                            /\ dev(k).explicit = s.device[k].explicit /\ dev(k) # Null
  BY <1>2, KeyboardAssumption DEF KeyboardState
<1>4. t = [s EXCEPT !.device = D, !.silenced = @ \cup Z]
  BY DEF keyboard_latches_cancel
<1>5. Z \subseteq KeyPresses
  BY <1>2 DEF KeyPresses, Press, Binding
<1>6. \A k \in Present(s), c \in Codes :
        LatchOf(s, k, c) # Null => [k |-> k, c |-> c, id |-> LatchOf(s, k, c).id] \in Z
  <2> SUFFICES ASSUME NEW k \in Present(s), NEW c \in Codes, LatchOf(s, k, c) # Null
               PROVE  [k |-> k, c |-> c, id |-> LatchOf(s, k, c).id] \in Z
    OBVIOUS
  <2>1. <<k, c>> \in Q
    BY <1>2 DEF LatchOf, Present
  <2>2. Press(<<k, c>>[1], <<k, c>>[2], s.device[<<k, c>>[1]].latch[<<k, c>>[2]]) \in Z
    BY <2>1
  <2> QED BY <2>2 DEF Press, LatchOf, Present
<1> HIDE DEF Z, dev, none
<1>7. D \in [Keyboards -> KeyboardState \cup {Null}] /\ \A k \in Keyboards : D[k] = Null <=> s.device[k] = Null
  BY <1>1, <1>3 DEF Present
<1>8. \A k \in Present(s) : /\ D[k].pressed = s.device[k].pressed /\ D[k].consumed = s.device[k].consumed
                            /\ D[k].explicit = s.device[k].explicit
                            /\ \A c \in Codes : D[k].latch[c] = Null
  BY <1>2, <1>3 DEF Present, none
<1> HIDE DEF D, t
<1>9. /\ t \in KeyboardStates /\ t.device = D /\ t.silenced = s.silenced \cup Z
      /\ t.bindings = s.bindings /\ t.events = s.events /\ t.heard = s.heard
      /\ t.focus = s.focus /\ t.locked = s.locked /\ t.drag = s.drag /\ t.held = s.held
      /\ t.missed = s.missed /\ t.unaware = s.unaware /\ t.told = s.told /\ t.super = s.super
      /\ t.seat = s.seat /\ t.map = s.map /\ t.keymap = s.keymap /\ t.down = s.down
  BY <1>1, <1>4, <1>5, <1>7 DEF KeyboardStates
<1>10. Present(t) = Present(s) /\ \A x, c : LatchOf(t, x, c) # Null => x \notin Keyboards \/ c \notin Codes
  BY <1>7, <1>8, <1>9 DEF Present, LatchOf
<1>11. \A d \in Codes : Unconsumed(t, d) <=> Unconsumed(s, d)
  BY <1>8, <1>9, <1>10 DEF Unconsumed
<1>12. Modifiers(t) = Modifiers(s)
  BY <1>8, <1>9, <1>10 DEF Modifiers
<1>13. Seated(t) /\ HeldKnown(t, {}) /\ ModifiersKnown(t) /\ TakenDown(t, {}) /\ Latched(t) /\ Merged(t)
  BY <1>8, <1>9, <1>10, <1>11 DEF KeysOKBut, Seated, HeldKnown, ModifiersKnown, TakenDown, Latched, Merged
<1>14. Named(t) /\ Ordered(t) /\ Holding(t)
  BY <1>9, <1>10, SameBeliefs DEF KeysOKBut, PolicyOK, Holding
<1>15. Owed(t)
  <2> SUFFICES ASSUME NEW x \in Keyboards, NEW c \in Codes, NEW id \in Ids, Expected(t, id),
                      LastPressed(t, x, c, id), [k |-> x, c |-> c, id |-> id] \notin t.silenced
               PROVE  FALSE
    BY DEF Owed
  <2>1. Expected(s, id) /\ LastPressed(s, x, c, id) /\ [k |-> x, c |-> c, id |-> id] \notin s.silenced
    BY <1>9, SameBeliefs
  <2>2. LatchOf(s, x, c) # Null /\ LatchOf(s, x, c).id = id
    BY <2>1 DEF KeysOKBut, PolicyOK, Owed
  <2>3. x \in Present(s)
    BY <2>2 DEF LatchOf, Present
  <2> QED BY <1>6, <1>9, <2>2, <2>3
<1> QED BY <1>9, <1>12, <1>13, <1>14, <1>15 DEF KeysOKBut, PolicyOK, t

LEMMA LockBegins ==
  ASSUME KeysOK(kbd), NEW x \in Focusable \cup {Null}, input_lock_begin(x)
  PROVE  KeysOK(kbd')
<1> DEFINE t == keyboard_latches_cancel(kbd)
           u == [t EXCEPT !.locked = TRUE]
<1>1. KeysOKBut(t)
  BY KeysButCovered, Cancels
<1>2. kbd' = update_keyboard_focus(u, x) /\ x \in Wanted(u)
  BY DEF input_lock_begin
<1> HIDE DEF t
<1>3. /\ u \in KeyboardStates /\ SameKeyboards(t, u) /\ u.focus = t.focus
      /\ u.held = t.held /\ u.missed = t.missed /\ u.told = t.told /\ u.unaware = t.unaware
  BY <1>1 DEF KeysOKBut, KeyboardStates, SameKeyboards
<1> HIDE DEF u
<1>4. HeldKnown(u, {}) /\ ModifiersKnown(u)
  BY <1>1, <1>3 DEF KeysOKBut, HeldKnown, ModifiersKnown, Unconsumed, Present, SameKeyboards
<1>5. KeysOKBut(u)
  BY <1>1, <1>3, <1>4, KeysStay
<1> QED BY <1>2, <1>5, FocusUpdates

-----------------------------------------------------------------------------
(* What the policy presents. *)

LEMMA PressedSomewhere ==
  ASSUME NEW s, NEW c
  PROVE  keyboard_has_pressed(s, Null, c) <=> \E k \in Present(s) : c \in s.device[k].pressed
<1>1. Present(s) \ {Null} = Present(s)
  BY KeyboardAssumption DEF Present
<1> QED BY <1>1 DEF keyboard_has_pressed

\* Another keymap: what virtual keyboards said of their modifiers is gone.
LEMMA ProfilePublishes ==
  ASSUME NEW s, KeysOK(s), NEW map \in DOMAIN SymOf
  PROVE  LET t == keyboard_profile_publish(s, map)
         IN  /\ KeysOK(t) /\ t.locked = s.locked
             /\ t.bindings = s.bindings /\ t.events = s.events /\ t.heard = s.heard
<1> DEFINE dev(k) == [s.device[k] EXCEPT !.explicit = FALSE]
           D == [k \in Keyboards |-> IF s.device[k] = Null THEN Null ELSE dev(k)]
           W == {c \in Codes : keyboard_has_pressed(s, Null, c)}
           p == [s EXCEPT !.keymap = map, !.device = D, !.down = W]
           m == Modifiers(p)
           u == [p EXCEPT !.super = m]
           v == [u EXCEPT !.map = map]
           t == keyboard_profile_publish(s, map)
<1>1. s \in KeyboardStates /\ Steady(s, {})
  BY DEF KeysOK, Steady
<1>2. CASE map = s.keymap
  BY <1>2 DEF keyboard_profile_publish
<1>3. CASE map # s.keymap
  <2>1. \A k \in Present(s) : k \in Keyboards /\ s.device[k] \in KeyboardState
    BY <1>1, LatchTypes DEF Present
  <2>2. \A k \in Present(s) : /\ dev(k) \in KeyboardState /\ dev(k).pressed = s.device[k].pressed
                              /\ dev(k).consumed = s.device[k].consumed
                              /\ dev(k).latch = s.device[k].latch /\ dev(k) # Null
    BY <2>1, KeyboardAssumption DEF KeyboardState
  <2>5. p = keyboard_profile_prepare(s, map)
    BY DEF keyboard_profile_prepare
  <2> HIDE DEF dev
  <2>3. D \in [Keyboards -> KeyboardState \cup {Null}] /\ \A k \in Keyboards : D[k] = Null <=> s.device[k] = Null
    BY <2>2 DEF Present
  <2>4. \A k \in Present(s) : /\ D[k].pressed = s.device[k].pressed /\ D[k].consumed = s.device[k].consumed
                              /\ D[k].latch = s.device[k].latch
    BY <2>1, <2>2 DEF Present
  <2>6. W \in SUBSET Codes
    OBVIOUS
  <2> HIDE DEF D, W
  <2>7. /\ p \in KeyboardStates /\ p.device = D /\ p.down = W /\ p.keymap = map
        /\ p.seat = s.seat /\ p.locked = s.locked /\ p.drag = s.drag /\ p.focus = s.focus
        /\ p.held = s.held /\ p.missed = s.missed /\ p.bindings = s.bindings
        /\ p.events = s.events /\ p.heard = s.heard /\ p.silenced = s.silenced
    BY <1>1, <2>3, <2>6 DEF KeyboardStates
  <2>8. m \in BOOLEAN
    BY DEF Modifiers
  <2>9. t = IF u.seat THEN IF v.drag THEN [v EXCEPT !.unaware = TRUE]
                           ELSE IF v.focus = Null THEN v
                           ELSE [v EXCEPT !.told = v.super, !.unaware = FALSE]
            ELSE u
    <3> HIDE DEF p
    <3>1. logical_refresh(p, FALSE) = u
      BY DEF logical_refresh
    <3> HIDE DEF u
    <3>2. t = IF u.seat THEN seat_keyboard_notify_modifiers(v) ELSE u
      BY <1>3, <2>5, <3>1 DEF keyboard_profile_publish
    <3> HIDE DEF v
    <3>3. seat_keyboard_notify_modifiers(v) = IF v.drag THEN [v EXCEPT !.unaware = TRUE]
                           ELSE IF v.focus = Null THEN v
                           ELSE [v EXCEPT !.told = v.super, !.unaware = FALSE]
      BY DEF seat_keyboard_notify_modifiers, send_modifiers
    <3> QED BY <3>2, <3>3
  <2> HIDE DEF p, m, t
  <2>10. /\ u \in KeyboardStates /\ u.device = D /\ u.down = W /\ u.keymap = map /\ u.super = m
         /\ u.seat = s.seat /\ u.locked = s.locked /\ u.drag = s.drag /\ u.focus = s.focus
         /\ u.held = s.held /\ u.missed = s.missed /\ u.bindings = s.bindings
         /\ u.events = s.events /\ u.heard = s.heard /\ u.silenced = s.silenced
    BY <2>7, <2>8 DEF KeyboardStates
  <2> HIDE DEF u
  <2>16. /\ t \in KeyboardStates /\ t.device = D /\ t.down = W /\ t.keymap = map /\ t.super = m
         /\ t.seat = s.seat /\ t.locked = s.locked /\ t.drag = s.drag /\ t.focus = s.focus
         /\ t.held = s.held /\ t.missed = s.missed /\ t.bindings = s.bindings
         /\ t.events = s.events /\ t.heard = s.heard /\ t.silenced = s.silenced
         /\ t.seat => t.map = map
         /\ t.focus # Null /\ t.seat /\ ~t.unaware => t.told = m
    BY <2>9, <2>10 DEF KeyboardStates
  <2>11. Present(t) = Present(s)
    BY <2>3, <2>16 DEF Present
  <2>12. Seated(t) /\ ModifiersKnown(t)
    BY <1>1, <2>16, <2>11 DEF Seated, ModifiersKnown, Steady
  <2>13. Steady(t, {})
    BY <1>1, <2>3, <2>4, <2>16, <2>12, SteadyKeys
  <2>14. Merged(t)
    BY <2>4, <2>16, <2>11, PressedSomewhere DEF Merged, W
  <2>15. Modifiers(t) = m
    BY <2>7, <2>16, ModifiersAre DEF m
  <2> QED BY <2>16, <2>13, <2>14, <2>15 DEF KeysOK, t
<1> QED BY <1>2, <1>3

LEMMA Admissions ==
  ASSUME NEW s \in KeyboardStates, Named(s), NEW plan \in SUBSET Shortcuts, FreshIds(s, plan) # {}
  PROVE  LET B == Admitted(s, plan)
         IN  /\ B \subseteq Binding
             /\ \A b \in B : b \in s.bindings \/ b.id \notin Remembered(s)
             /\ \A a, b \in B : a.id = b.id => a = b
<1> DEFINE f == CHOOSE f \in FreshIds(s, plan) : TRUE
           kept == {b \in s.bindings : b.of \in plan}
           new == {[id |-> f[x], of |-> x] : x \in Added(s, plan)}
<1>1. f \in [Added(s, plan) -> Ids \ Remembered(s)] /\ IsInjective(f)
  BY DEF FreshIds
<1> HIDE DEF f
<1>2. Admitted(s, plan) = kept \cup new
  BY DEF Admitted, f
<1>3. \A b \in new : b \in Binding /\ b.id \notin Remembered(s)
  BY <1>1 DEF Added, Binding
<1>4. \A b \in kept : b \in Binding /\ b \in s.bindings /\ b.id \in Remembered(s)
  BY DEF KeyboardStates, Remembered
<1>5. \A a, b \in new : a.id = b.id => a = b
  BY <1>1 DEF IsInjective
<1>6. \A a, b \in kept : a.id = b.id => a = b
  BY DEF Named
<1> HIDE DEF kept, new
<1> QED BY <1>2, <1>3, <1>4, <1>5, <1>6

\* What the presentation leaves of what the policy hears: bindings B, and nothing of the others.
Published(s, t, B) ==
  /\ t \in KeyboardStates /\ t.bindings = B /\ t.events = s.events
  /\ \A b \in B : b \in s.bindings \/ b.id \notin Remembered(s)
  /\ \A a, b \in B : a.id = b.id => a = b
  /\ \A k \in Keyboards, c \in Codes :
       /\ LatchOf(t, k, c) = IF LatchOf(s, k, c) \in B THEN LatchOf(s, k, c) ELSE Null
       /\ t.heard[k][c] = IF \E b \in B : b.id = s.heard[k][c] THEN s.heard[k][c] ELSE Null
  /\ t.silenced = {p \in s.silenced : \E b \in B : b.id = p.id}

LEMMA PublishedPolicy ==
  ASSUME NEW s \in KeyboardStates, PolicyOK(s), Latched(s), NEW t, NEW B, Published(s, t, B)
  PROVE  PolicyOK(t)
<1> DEFINE n == Len(s.events)
<1>1. /\ \A i \in 1..n : s.events[i].id \in Remembered(s) /\ s.events[i].id \in Ids
      /\ \A k \in Keyboards, c \in Codes : s.heard[k][c] \in Remembered(s)
      /\ n \in Nat /\ DOMAIN s.events = 1..n
  <2>1. s.events \in Seq(KeyEvent)
    BY DEF KeyboardStates
  <2>2. n \in Nat /\ DOMAIN s.events = 1..n /\ \A i \in 1..n : s.events[i] \in KeyEvent
    BY <2>1
  <2> QED BY <2>2 DEF Remembered, KeyEvent
<1> HIDE DEF n
<1>2. \A id \in Remembered(s) : \A b \in B : b.id = id => b \in s.bindings
  BY DEF Published
<1>3. \A k, c : \A i \in 1..n : Mine(t, k, c, i) => Mine(s, k, c, i)
  BY <1>1, <1>2 DEF Published, Mine, Current
<1>4. ASSUME NEW k \in Keyboards, NEW c \in Codes, NEW id \in Ids, Current(t, id),
             NEW m \in Nat, m <= n, Believes(s, k, c, m, id)
      PROVE  Believes(t, k, c, m, id)
  <2>1. \A i \in 1..m : i \in 1..n /\ \A j \in i + 1..m : j \in 1..n
    BY <1>1, <1>4
  <2>2. CASE s.heard[k][c] = id /\ \A i \in 1..m : ~Mine(s, k, c, i)
    <3>1. t.heard[k][c] = id
      BY <1>4, <2>2 DEF Published, Current
    <3> QED BY <1>3, <2>1, <2>2, <3>1 DEF Believes
  <2>3. CASE \E i \in 1..m : /\ Mine(s, k, c, i)
                             /\ s.events[i].state = "pressed" /\ s.events[i].id = id
                             /\ \A j \in i + 1..m : ~Mine(s, k, c, j)
    <3>1. PICK i \in 1..m : /\ Mine(s, k, c, i)
                            /\ s.events[i].state = "pressed" /\ s.events[i].id = id
                            /\ \A j \in i + 1..m : ~Mine(s, k, c, j)
      BY <2>3
    <3>2. Mine(t, k, c, i)
      BY <1>4, <3>1 DEF Mine, Published
    <3>3. \A j \in i + 1..m : ~Mine(t, k, c, j)
      BY <1>3, <2>1, <3>1
    <3> QED BY <3>1, <3>2, <3>3 DEF Believes, Published
  <2> QED BY <1>4, <2>2, <2>3 DEF Believes
<1>5. Named(t)
  BY DEF Published, Named
<1>6. Ordered(t)
  <2> SUFFICES ASSUME NEW k \in Keyboards, NEW c \in Codes, NEW i \in 1..Len(t.events),
                      Mine(t, k, c, i), t.events[i].state = "released"
               PROVE  Believes(t, k, c, i - 1, t.events[i].id)
    BY DEF Ordered
  <2>1. i \in 1..n /\ t.events[i] = s.events[i] /\ i - 1 \in Nat /\ i - 1 <= n
    BY <1>1 DEF Published, n
  <2>2. Believes(s, k, c, i - 1, s.events[i].id)
    BY <1>3, <2>1 DEF PolicyOK, Ordered, n
  <2>3. Current(t, s.events[i].id)
    BY <2>1 DEF Mine
  <2> QED BY <1>1, <1>4, <2>1, <2>2, <2>3
<1>7. Holding(t)
  <2> SUFFICES ASSUME NEW k \in Keyboards, NEW c \in Codes, LatchOf(t, k, c) # Null
               PROVE  Believes(t, k, c, Len(t.events), LatchOf(t, k, c).id)
    BY DEF Holding
  <2>1. LatchOf(t, k, c) = LatchOf(s, k, c) /\ LatchOf(t, k, c) \in B
    BY DEF Published
  <2>2. Believes(s, k, c, n, LatchOf(s, k, c).id)
    BY <2>1 DEF PolicyOK, Holding, n
  <2>3. Current(t, LatchOf(s, k, c).id) /\ LatchOf(s, k, c).id \in Ids
    BY <2>1 DEF Current, Published, KeyboardStates, Binding
  <2> QED BY <1>1, <1>4, <2>1, <2>2, <2>3 DEF Published, n
<1>8. Owed(t)
  <2> SUFFICES ASSUME NEW k \in Keyboards, NEW c \in Codes, NEW id \in Ids, Expected(t, id),
                      LastPressed(t, k, c, id), [k |-> k, c |-> c, id |-> id] \notin t.silenced
               PROVE  LatchOf(t, k, c) # Null /\ LatchOf(t, k, c).id = id
    BY DEF Owed
  <2>1. PICK b \in B : b.id = id /\ b.of.release
    BY DEF Expected, Published
  <2>2. t.heard[k][c] = id => s.heard[k][c] = id
    BY KeyboardAssumption DEF Published
  <2>3. LastPressed(s, k, c, id) /\ id \in Remembered(s)
    <3>1. t.events = s.events
      BY DEF Published
    <3>2. CASE t.heard[k][c] = id /\ \A i \in 1..n : ~(s.events[i].k = k /\ s.events[i].c = c /\ s.events[i].id = id)
      BY <1>1, <2>2, <3>2 DEF LastPressed, n
    <3>3. CASE ~(t.heard[k][c] = id /\ \A i \in 1..n : ~(s.events[i].k = k /\ s.events[i].c = c /\ s.events[i].id = id))
      <4>1. PICK i \in 1..n : /\ s.events[i].k = k /\ s.events[i].c = c /\ s.events[i].id = id
                              /\ s.events[i].state = "pressed"
                              /\ \A j \in i + 1..n : ~(s.events[j].k = k /\ s.events[j].c = c /\ s.events[j].id = id)
        BY <3>1, <3>3 DEF LastPressed, n
      <4> QED BY <1>1, <4>1 DEF LastPressed, n
    <3> QED BY <3>2, <3>3
  <2>4. b \in s.bindings /\ Expected(s, id)
    BY <1>2, <2>1, <2>3 DEF Expected
  <2>5. [k |-> k, c |-> c, id |-> id] \notin s.silenced
    BY <2>1 DEF Published
  <2>6. LatchOf(s, k, c) # Null /\ LatchOf(s, k, c).id = id
    BY <2>3, <2>4, <2>5 DEF PolicyOK, Owed
  <2>7. LatchOf(s, k, c) = b
    BY <2>1, <2>4, <2>6 DEF Latched, PolicyOK, Named
  <2> QED BY <2>6, <2>7 DEF Published
<1> QED BY <1>5, <1>6, <1>7, <1>8 DEF PolicyOK

LEMMA InputPublishes ==
  ASSUME NEW s, KeysOK(s), NEW plan \in SUBSET Shortcuts, FreshIds(s, plan) # {},
         NEW owner \in Owners \cup {Null}
  PROVE  LET t == presentation_input_publish(s, plan, owner)
         IN  KeysOK(t) /\ t.locked = s.locked
<1> DEFINE B == Admitted(s, plan)
           current(id) == \E b \in B : b.id = id
           latch(k) == [c \in Codes |-> IF s.device[k].latch[c] \in B THEN s.device[k].latch[c] ELSE Null]
           dev(k) == [s.device[k] EXCEPT !.latch = latch(k)]
           D == [k \in Keyboards |-> IF s.device[k] = Null THEN Null ELSE dev(k)]
           Z == {p \in s.silenced : current(p.id)}
           H == [k \in Keyboards |-> [c \in Codes |-> IF current(s.heard[k][c]) THEN s.heard[k][c] ELSE Null]]
           t == presentation_input_publish(s, plan, owner)
<1>1. s \in KeyboardStates /\ Steady(s, {}) /\ PolicyOK(s) /\ Latched(s) /\ Named(s)
  BY DEF KeysOK, Steady, PolicyOK
<1>2. /\ B \subseteq Binding
      /\ \A b \in B : b \in s.bindings \/ b.id \notin Remembered(s)
      /\ \A a, b \in B : a.id = b.id => a = b
  BY <1>1, Admissions
<1>3. keyboard_latches_adopt(s, B) = D
  BY DEF keyboard_latches_adopt
<1>4. t = [s EXCEPT !.bindings = B, !.owner = owner, !.device = D, !.silenced = Z, !.heard = H]
  BY <1>3 DEF presentation_input_publish
<1> HIDE DEF B
<1>5. \A k \in Present(s) : /\ k \in Keyboards /\ s.device[k] \in KeyboardState
                            /\ \A c \in Codes : s.device[k].latch[c] \in Binding \cup {Null}
  BY <1>1, LatchTypes DEF Present
<1>6. \A k \in Present(s) : latch(k) \in [Codes -> Binding \cup {Null}]
  BY <1>5
<1> HIDE DEF latch
<1>7. \A k \in Present(s) : /\ dev(k) \in KeyboardState /\ dev(k).pressed = s.device[k].pressed
                            /\ dev(k).consumed = s.device[k].consumed /\ dev(k).latch = latch(k)
                            /\ dev(k).explicit = s.device[k].explicit /\ dev(k) # Null
  BY <1>5, <1>6, KeyboardAssumption DEF KeyboardState
<1> HIDE DEF dev
<1>8. D \in [Keyboards -> KeyboardState \cup {Null}] /\ \A k \in Keyboards : D[k] = Null <=> s.device[k] = Null
  BY <1>7 DEF Present
<1>9. \A k \in Present(s) : /\ D[k].pressed = s.device[k].pressed /\ D[k].consumed = s.device[k].consumed
                            /\ D[k].explicit = s.device[k].explicit /\ D[k].latch = latch(k)
  BY <1>5, <1>7 DEF Present
<1>10. H \in [Keyboards -> [Codes -> Ids \cup {Null}]]
  BY <1>1 DEF KeyboardStates
<1>11. Z \subseteq KeyPresses
  BY <1>1 DEF KeyboardStates
<1>12. /\ \A k \in Keyboards, c \in Codes :
             H[k][c] = IF \E b \in B : b.id = s.heard[k][c] THEN s.heard[k][c] ELSE Null
       /\ Z = {p \in s.silenced : \E b \in B : b.id = p.id}
  OBVIOUS
<1> HIDE DEF D, Z, H, current, t
<1>13. /\ t \in KeyboardStates /\ t.device = D /\ t.bindings = B /\ t.heard = H /\ t.silenced = Z
       /\ t.down = s.down /\ t.super = s.super /\ t.keymap = s.keymap /\ t.seat = s.seat
       /\ t.locked = s.locked /\ t.drag = s.drag /\ t.focus = s.focus /\ t.held = s.held
       /\ t.told = s.told /\ t.map = s.map /\ t.missed = s.missed /\ t.unaware = s.unaware
       /\ t.events = s.events
  BY <1>1, <1>2, <1>4, <1>8, <1>10, <1>11 DEF KeyboardStates
<1>14. Present(t) = Present(s)
  BY <1>8, <1>13 DEF Present
<1>15. \A k \in Keyboards, c \in Codes :
         LatchOf(t, k, c) = IF LatchOf(s, k, c) \in B THEN LatchOf(s, k, c) ELSE Null
  <2> SUFFICES ASSUME NEW k \in Keyboards, NEW c \in Codes
               PROVE  LatchOf(t, k, c) = IF LatchOf(s, k, c) \in B THEN LatchOf(s, k, c) ELSE Null
    OBVIOUS
  <2>1. CASE s.device[k] = Null
    BY <1>8, <1>13, <2>1 DEF LatchOf
  <2>2. CASE s.device[k] # Null
    <3>1. LatchOf(s, k, c) = s.device[k].latch[c] /\ LatchOf(t, k, c) = latch(k)[c]
      BY <1>8, <1>9, <1>13, <2>2 DEF LatchOf, Present
    <3> QED BY <3>1 DEF latch
  <2> QED BY <2>1, <2>2
<1>16. Published(s, t, B)
  BY <1>2, <1>12, <1>13, <1>15 DEF Published
<1>17. PolicyOK(t)
  BY <1>1, <1>16, PublishedPolicy
<1>18. \A d \in Codes : Unconsumed(t, d) <=> Unconsumed(s, d)
  BY <1>9, <1>13, <1>14 DEF Unconsumed
<1>19. Seated(t) /\ HeldKnown(t, {}) /\ ModifiersKnown(t) /\ TakenDown(t, {}) /\ Covered(t)
  BY <1>1, <1>9, <1>13, <1>14, <1>18 DEF Steady, Seated, HeldKnown, ModifiersKnown, TakenDown, Covered
<1>20. Latched(t)
  <2> SUFFICES ASSUME NEW k \in Keyboards, NEW c \in Codes, LatchOf(t, k, c) # Null
               PROVE  LatchOf(t, k, c) \in t.bindings /\ c \in t.device[k].consumed
    BY DEF Latched
  <2>1. LatchOf(t, k, c) = LatchOf(s, k, c) /\ LatchOf(t, k, c) \in B
    BY <1>15
  <2>2. k \in Present(s) /\ c \in s.device[k].consumed
    BY <1>1, <2>1 DEF Latched, LatchOf, Present
  <2> QED BY <1>9, <1>13, <2>1, <2>2
<1>21. Merged(t) /\ Modifiers(t) = Modifiers(s)
  BY <1>9, <1>13, <1>14 DEF KeysOK, Merged, Modifiers
<1> QED BY <1>13, <1>17, <1>19, <1>20, <1>21 DEF KeysOK, Steady, t

LEMMA PresentationStep ==
  ASSUME KeysOK(kbd), NEW map \in DOMAIN SymOf, NEW plan \in SUBSET Shortcuts,
         NEW owner \in Owners \cup {Null}, NEW x \in Focusable \cup {Null},
         presentation_publish(map, plan, owner, x)
  PROVE  KeysOK(kbd')
<1> DEFINE s == keyboard_profile_publish(kbd, map)
           t == presentation_input_publish(s, plan, owner)
<1>1. x \in Wanted(kbd) /\ FreshIds(kbd, plan) # {} /\ kbd' = update_keyboard_focus(t, x)
  BY DEF presentation_publish
<1>2. /\ KeysOK(s) /\ s.locked = kbd.locked
      /\ s.bindings = kbd.bindings /\ s.events = kbd.events /\ s.heard = kbd.heard
  BY ProfilePublishes
<1> HIDE DEF s
<1>3. FreshIds(s, plan) = FreshIds(kbd, plan)
  BY <1>2 DEF FreshIds, Added, Remembered
<1>4. KeysOK(t) /\ t.locked = kbd.locked
  BY <1>1, <1>2, <1>3, InputPublishes
<1> HIDE DEF t
<1> QED BY <1>1, <1>4, KeysButCovered, FocusUpdates DEF Wanted

-----------------------------------------------------------------------------
(* Devices come and go. *)

LEMMA FreshKeys ==
  /\ Fresh \in KeyboardState /\ Fresh # Null /\ Fresh.pressed = {} /\ Fresh.consumed = {}
  /\ Fresh.explicit = FALSE /\ \A c \in Codes : Fresh.latch[c] = Null
<1>1. Fresh \in KeyboardState
  BY DEF Fresh, KeyboardState
<1> QED BY <1>1, KeyboardAssumption DEF Fresh

\* A new device k, of which the policy has heard nothing.
LEMMA ArrivalPolicy ==
  ASSUME NEW s \in KeyboardStates, PolicyOK(s), NEW t, NEW k \in Keyboards,
         s.device[k] = Null, \A i \in 1..Len(s.events) : s.events[i].k # k,
         t.bindings = s.bindings, t.events = s.events,
         \A x \in Keyboards, c \in Codes :
           /\ LatchOf(t, x, c) = LatchOf(s, x, c)
           /\ t.heard[x][c] = IF x = k THEN Null ELSE s.heard[x][c],
         t.silenced = {p \in s.silenced : p.k # k}
  PROVE  PolicyOK(t)
<1> DEFINE n == Len(s.events)
<1>1. \A x, c, i : Mine(t, x, c, i) <=> Mine(s, x, c, i)
  BY DEF Mine, Current
<1>2. \A x \in Keyboards, c \in Codes : x # k =>
        /\ \A m, id : Believes(t, x, c, m, id) <=> Believes(s, x, c, m, id)
        /\ \A id : LastPressed(t, x, c, id) <=> LastPressed(s, x, c, id)
  BY <1>1 DEF Believes, LastPressed
<1>3. \A c \in Codes : /\ LatchOf(s, k, c) = Null
                       /\ \A id \in Ids : ~LastPressed(t, k, c, id)
                       /\ \A i \in 1..Len(s.events) : ~Mine(s, k, c, i)
  BY KeyboardAssumption DEF LatchOf, LastPressed, Mine
<1>4. Named(t)
  BY DEF PolicyOK, Named
<1>5. Ordered(t)
  BY <1>1, <1>2, <1>3 DEF PolicyOK, Ordered
<1>6. Holding(t)
  BY <1>2, <1>3 DEF PolicyOK, Holding
<1>7. Owed(t)
  <2> SUFFICES ASSUME NEW x \in Keyboards, NEW c \in Codes, NEW id \in Ids, Expected(t, id),
                      LastPressed(t, x, c, id), [k |-> x, c |-> c, id |-> id] \notin t.silenced
               PROVE  LatchOf(t, x, c) # Null /\ LatchOf(t, x, c).id = id
    BY DEF Owed
  <2>1. x # k
    BY <1>3
  <2>2. LastPressed(s, x, c, id) /\ Expected(s, id)
    BY <1>2, <2>1 DEF Expected
  <2>3. [k |-> x, c |-> c, id |-> id] \notin s.silenced
    BY <2>1
  <2> QED BY <2>2, <2>3 DEF PolicyOK, Owed
<1> QED BY <1>4, <1>5, <1>6, <1>7 DEF PolicyOK

LEMMA InputAddStep ==
  ASSUME KeysOK(kbd), NEW k \in Keyboards, input_add(k)
  PROVE  KeysOK(kbd')
<1> DEFINE s == kbd
           D == [s.device EXCEPT ![k] = Fresh]
           Z == {p \in s.silenced : p.k # k}
           none == [c \in Codes |-> Null]
           H == [s.heard EXCEPT ![k] = none]
           u == [s EXCEPT !.device = D, !.silenced = Z, !.heard = H]
           v == [u EXCEPT !.seat = TRUE, !.map = u.keymap]
           w == [v EXCEPT !.told = v.super, !.unaware = FALSE]
           t == kbd'
<1>1. s \in KeyboardStates /\ Steady(s, {}) /\ PolicyOK(s) /\ Latched(s)
  BY DEF KeysOK, Steady
<1>2. /\ s.device[k] = Null /\ \A i \in DOMAIN s.events : s.events[i].k # k
      /\ t = seat_set_keyboard([kbd EXCEPT !.device[k] = Fresh,
                                          !.silenced = {p \in @ : p.k # k},
                                          !.heard[k] = [c \in Codes |-> Null]], TRUE)
  BY DEF input_add
<1>3. [kbd EXCEPT !.device[k] = Fresh, !.silenced = {p \in @ : p.k # k},
                  !.heard[k] = [c \in Codes |-> Null]] = u
  BY <1>1 DEF KeyboardStates
<1>4. /\ D \in [Keyboards -> KeyboardState \cup {Null}] /\ D[k] = Fresh
      /\ \A x \in Keyboards : x # k => D[x] = s.device[x]
  BY <1>1, FreshKeys DEF KeyboardStates
<1>5. /\ H \in [Keyboards -> [Codes -> Ids \cup {Null}]]
      /\ \A x \in Keyboards, c \in Codes : H[x][c] = IF x = k THEN Null ELSE s.heard[x][c]
  <2>1. none \in [Codes -> Ids \cup {Null}] /\ \A c \in Codes : none[c] = Null
    OBVIOUS
  <2> HIDE DEF none
  <2> QED BY <1>1, <2>1 DEF KeyboardStates
<1>6. Z \subseteq KeyPresses
  BY <1>1 DEF KeyboardStates
<1> HIDE DEF D, H, Z
<1>7. /\ u \in KeyboardStates /\ u.device = D /\ u.heard = H /\ u.silenced = Z
      /\ u.bindings = s.bindings /\ u.events = s.events
      /\ u.down = s.down /\ u.super = s.super /\ u.keymap = s.keymap /\ u.seat = s.seat
      /\ u.locked = s.locked /\ u.drag = s.drag /\ u.focus = s.focus /\ u.held = s.held
      /\ u.told = s.told /\ u.map = s.map /\ u.missed = s.missed /\ u.unaware = s.unaware
  BY <1>1, <1>4, <1>5, <1>6 DEF KeyboardStates
<1>8. t = IF u.seat THEN u ELSE IF v.focus = Null THEN v ELSE w
  <2> HIDE DEF u
  <2>1. u.seat \in BOOLEAN
    BY <1>7 DEF KeyboardStates
  <2>2. t = seat_set_keyboard(u, TRUE)
    BY <1>2, <1>3
  <2>3. seat_set_keyboard(u, TRUE) = IF u.seat THEN u ELSE send_modifiers(v)
    BY <2>1 DEF seat_set_keyboard
  <2> HIDE DEF v
  <2> QED BY <2>2, <2>3 DEF send_modifiers
<1> HIDE DEF u, t
<1>9. /\ t \in KeyboardStates /\ t.device = D /\ t.heard = H /\ t.silenced = Z
      /\ t.bindings = s.bindings /\ t.events = s.events
      /\ t.down = s.down /\ t.super = s.super /\ t.keymap = s.keymap /\ t.seat
      /\ t.locked = s.locked /\ t.drag = s.drag /\ t.focus = s.focus /\ t.held = s.held
      /\ t.missed = s.missed
      /\ s.seat => t.map = s.map /\ t.told = s.told /\ t.unaware = s.unaware
      /\ ~s.seat => t.map = t.keymap /\ (t.focus # Null => t.told = t.super)
  BY <1>7, <1>8 DEF KeyboardStates
<1>10. Present(t) = Present(s) \cup {k} /\ k \notin Present(s) /\ \A x \in Present(s) : D[x] = s.device[x]
  <2>1. \A x \in Keyboards : t.device[x] # Null <=> x = k \/ s.device[x] # Null
    BY <1>4, <1>9, FreshKeys
  <2> QED BY <1>2, <1>4, <2>1 DEF Present
<1>11. \A x \in Keyboards, c \in Codes : LatchOf(t, x, c) = LatchOf(s, x, c)
  <2>1. t.device[k] = Fresh /\ \A x \in Keyboards : x # k => t.device[x] = s.device[x]
    BY <1>4, <1>9
  <2>2. \A c \in Codes : LatchOf(t, k, c) = Null /\ LatchOf(s, k, c) = Null
    BY <1>2, <2>1, FreshKeys DEF LatchOf
  <2> QED BY <2>1, <2>2 DEF LatchOf
<1>12. DOMAIN s.events = 1..Len(s.events)
  BY <1>1 DEF KeyboardStates
<1>13. PolicyOK(t)
  <2>1. \A x \in Keyboards, c \in Codes :
           /\ LatchOf(t, x, c) = LatchOf(s, x, c)
           /\ t.heard[x][c] = IF x = k THEN Null ELSE s.heard[x][c]
    BY <1>5, <1>9, <1>11
  <2>2. t.silenced = {p \in s.silenced : p.k # k}
    BY <1>9 DEF Z
  <2>3. s.device[k] = Null /\ \A i \in 1..Len(s.events) : s.events[i].k # k
    BY <1>2, <1>12
  <2> QED BY <1>1, <1>9, <2>1, <2>2, <2>3, ArrivalPolicy
<1>14. \A d \in Codes : /\ Unconsumed(t, d) <=> Unconsumed(s, d)
                        /\ (\E x \in Present(t) : d \in t.device[x].pressed)
                             <=> \E x \in Present(s) : d \in s.device[x].pressed
  BY <1>4, <1>9, <1>10, FreshKeys DEF Unconsumed
<1>15. Modifiers(t) = Modifiers(s)
  BY <1>4, <1>9, <1>10, FreshKeys DEF Modifiers
<1>16. Seated(t) /\ ModifiersKnown(t) /\ Covered(t) /\ HeldKnown(t, {})
  BY <1>1, <1>9, <1>10, <1>14 DEF Steady, Seated, ModifiersKnown, Covered, HeldKnown
<1>17. TakenDown(t, {})
  BY <1>1, <1>4, <1>9, <1>10, FreshKeys DEF Steady, TakenDown
<1>18. Latched(t)
  <2> SUFFICES ASSUME NEW x \in Keyboards, NEW c \in Codes, LatchOf(t, x, c) # Null
               PROVE  LatchOf(t, x, c) \in t.bindings /\ c \in t.device[x].consumed
    BY DEF Latched
  <2>1. x # k
    BY <1>2, <1>11 DEF LatchOf
  <2> QED BY <1>1, <1>4, <1>9, <1>11, <2>1 DEF Latched
<1>19. Merged(t)
  BY <1>9, <1>14 DEF KeysOK, Merged
<1> QED BY <1>9, <1>13, <1>15, <1>16, <1>17, <1>18, <1>19 DEF KeysOK, Steady, t

\* A key that is up is no more down on the merged keyboard; the client hears of it.
Up(s, c) == logical_key_transition(s, c, FALSE)

Released(s, c) == seat_keyboard_notify_key(s, c, FALSE)

\* What a key that is up is to the merged keyboard: its modifiers may change, and who
\* knows them.
Freed(s, t, c, m) ==
  /\ t \in KeyboardStates
  /\ t.device = s.device /\ t.down = s.down \ {c} /\ t.super = m /\ t.keymap = s.keymap
  /\ t.seat = s.seat /\ t.bindings = s.bindings /\ t.owner = s.owner /\ t.shot = s.shot
  /\ t.locked = s.locked /\ t.drag = s.drag /\ t.focus = s.focus /\ t.held = s.held
  /\ t.map = s.map /\ t.missed = s.missed /\ t.events = s.events /\ t.heard = s.heard
  /\ t.silenced = s.silenced
  /\ IF m = s.super \/ ~s.seat THEN t.told = s.told /\ t.unaware = s.unaware
     ELSE IF s.drag THEN t.told = s.told /\ t.unaware = TRUE
     ELSE IF s.focus = Null THEN t.told = s.told /\ t.unaware = s.unaware
     ELSE t.told = m /\ t.unaware = FALSE

LEMMA Frees ==
  ASSUME NEW s \in KeyboardStates, NEW c \in Codes
  PROVE  Freed(s, Up(s, c), c, Modifiers([s EXCEPT !.down = @ \ {c}]))
<1> DEFINE D == s.down \ {c}
           d == [s EXCEPT !.down = D]
           m == Modifiers(d)
           u == [d EXCEPT !.super = m]
           v == [u EXCEPT !.unaware = TRUE]
           w == [u EXCEPT !.told = m, !.unaware = FALSE]
           t == Up(s, c)
<1>1. D \in SUBSET Codes /\ m \in BOOLEAN
  BY DEF KeyboardStates, Modifiers
<1>2. t = logical_refresh(d, TRUE) /\ [s EXCEPT !.down = @ \ {c}] = d
  BY DEF Up, logical_key_transition
<1> HIDE DEF m, D
<1>3. /\ u \in KeyboardStates /\ u.super = m /\ u.seat = s.seat /\ u.drag = s.drag
      /\ u.focus = s.focus /\ d.super = s.super /\ d.seat = s.seat
  BY <1>1 DEF KeyboardStates
<1>4. (m = s.super \/ ~s.seat \/ (~s.drag /\ s.focus = Null)) => Freed(s, u, c, m)
  BY <1>1 DEF Freed, KeyboardStates, D
<1>5. m # s.super /\ s.seat /\ s.drag => Freed(s, v, c, m)
  BY <1>1 DEF Freed, KeyboardStates, D
<1>6. m # s.super /\ s.seat /\ ~s.drag /\ s.focus # Null => Freed(s, w, c, m)
  BY <1>1 DEF Freed, KeyboardStates, D
<1>7. logical_refresh(d, TRUE) = IF m # d.super /\ d.seat THEN seat_keyboard_notify_modifiers(u) ELSE u
  <2>1. u.super = m
    BY <1>3
  <2> HIDE DEF d
  <2> QED BY <2>1 DEF logical_refresh, m
<1>8. seat_keyboard_notify_modifiers(u) = IF u.drag THEN v ELSE IF u.focus = Null THEN u ELSE w
  <2>1. u.super = m
    BY <1>3
  <2> HIDE DEF u
  <2> QED BY <2>1 DEF seat_keyboard_notify_modifiers, send_modifiers
<1> HIDE DEF t, u, v, w, d
<1>9. Freed(s, t, c, m)
  <2>1. CASE m = s.super \/ ~s.seat \/ (~s.drag /\ s.focus = Null)
    <3>1. t = u
      BY <1>2, <1>3, <1>7, <1>8, <2>1
    <3> QED BY <1>4, <2>1, <3>1
  <2>2. CASE m # s.super /\ s.seat /\ s.drag
    <3>1. t = v
      BY <1>2, <1>3, <1>7, <1>8, <2>2
    <3> QED BY <1>5, <2>2, <3>1
  <2>3. CASE m # s.super /\ s.seat /\ ~s.drag /\ s.focus # Null
    <3>1. t = w
      BY <1>2, <1>3, <1>7, <1>8, <2>3
    <3> QED BY <1>6, <2>3, <3>1
  <2> QED BY <2>1, <2>2, <2>3
<1> QED BY <1>2, <1>9 DEF m, t

Heard(s, t, c) ==
  /\ t \in KeyboardStates
  /\ t.device = s.device /\ t.down = s.down /\ t.super = s.super /\ t.keymap = s.keymap
  /\ t.seat = s.seat /\ t.bindings = s.bindings /\ t.owner = s.owner /\ t.shot = s.shot
  /\ t.locked = s.locked /\ t.drag = s.drag /\ t.focus = s.focus /\ t.told = s.told
  /\ t.map = s.map /\ t.unaware = s.unaware /\ t.events = s.events /\ t.heard = s.heard
  /\ t.silenced = s.silenced
  /\ IF s.drag THEN t.held = s.held /\ t.missed = s.missed \cup {c}
     ELSE IF s.focus = Null THEN t.held = s.held /\ t.missed = s.missed
     ELSE t.held = s.held \ {c} /\ t.missed = s.missed \ {c}

LEMMA Hears ==
  ASSUME NEW s \in KeyboardStates, NEW c \in Codes
  PROVE  Heard(s, Released(s, c), c)
BY DEF Heard, Released, seat_keyboard_notify_key, seat_keyboard_send_key, KeyboardStates

\* It does not matter whether the client hears first of a key that is up.
LEMMA FreedAndHeard ==
  ASSUME NEW s \in KeyboardStates, NEW c \in Codes
  PROVE  Released(Up(s, c), c)
           = Up(Released(s, c), c)
<1> DEFINE m == Modifiers([s EXCEPT !.down = @ \ {c}])
           f == Up(s, c)
           h == Released(s, c)
           a == Released(f, c)
           b == Up(h, c)
           z == Modifiers([h EXCEPT !.down = @ \ {c}])
<1>1. Freed(s, f, c, m) /\ Heard(s, h, c)
  BY Frees, Hears
<1> HIDE DEF f, h
<1>2. f \in KeyboardStates /\ h \in KeyboardStates /\ h.device = s.device /\ h.down = s.down
  BY <1>1 DEF Freed, Heard
<1>3. Heard(f, a, c) /\ Freed(h, b, c, z)
  BY <1>2, Frees, Hears
<1>4. z = m
  <2> DEFINE x == [s EXCEPT !.down = @ \ {c}]
             y == [h EXCEPT !.down = @ \ {c}]
  <2>1. x.device = s.device /\ x.down = s.down \ {c} /\ y.device = h.device /\ y.down = h.down \ {c}
    BY <1>2 DEF KeyboardStates
  <2> HIDE DEF x, y
  <2>2. Modifiers(y) = Modifiers(x)
    BY <1>2, <2>1, ModifiersAre
  <2> QED BY <2>2 DEF x, y
<1> HIDE DEF a, b, m, z
<1>5. /\ a \in KeyboardStates /\ b \in KeyboardStates
      /\ a.device = b.device /\ a.down = b.down /\ a.super = b.super /\ a.keymap = b.keymap
      /\ a.seat = b.seat /\ a.bindings = b.bindings /\ a.owner = b.owner /\ a.shot = b.shot
      /\ a.locked = b.locked /\ a.drag = b.drag /\ a.focus = b.focus /\ a.map = b.map
      /\ a.events = b.events /\ a.heard = b.heard /\ a.silenced = b.silenced
  BY <1>1, <1>3, <1>4 DEF Freed, Heard
<1>6. a.told = b.told /\ a.unaware = b.unaware
  BY <1>1, <1>3, <1>4 DEF Freed, Heard
<1>7. a.held = b.held /\ a.missed = b.missed
  BY <1>1, <1>3 DEF Freed, Heard
<1>8. a = b
  <2> DEFINE same(x) ==
               [device |-> x.device, down |-> x.down, super |-> x.super, keymap |-> x.keymap,
                seat |-> x.seat, bindings |-> x.bindings, owner |-> x.owner, shot |-> x.shot,
                locked |-> x.locked, drag |-> x.drag, focus |-> x.focus, held |-> x.held,
                told |-> x.told, map |-> x.map, missed |-> x.missed, unaware |-> x.unaware,
                events |-> x.events, heard |-> x.heard, silenced |-> x.silenced]
  <2>1. a = same(a) /\ b = same(b)
    BY <1>5 DEF KeyboardStates
  <2>2. same(a) = same(b)
    BY <1>5, <1>6, <1>7, Zenon
  <2> HIDE DEF same
  <2> QED BY <2>1, <2>2
<1> QED BY <1>8 DEF a, b, f, h

LEMMA KeyIsUp ==
  ASSUME NEW s, KeysOK(s), NEW k \in Keyboards, NEW c \in Codes, s.device[k] # Null,
         NEW g, NEW P, Went(s, g, k, c, P), c \notin P
  PROVE  KeysOK(IF ~keyboard_has_pressed(s, k, c) THEN Up(g, c) ELSE g)
BY KeyMerged DEF Up

\* What one key is to the keyboard that had it.
LEMMA DeviceWent ==
  ASSUME NEW s, NEW k \in Keyboards, NEW c \in Codes, s.device[k] # Null, NEW g, NEW P,
         Went(s, g, k, c, P)
  PROVE  LET t == Up(g, c)
         IN  /\ g \in KeyboardStates /\ t.device = g.device
             /\ g.device[k] # Null /\ g.device[k].pressed = P
             /\ keyboard_has_pressed(g, k, c) <=> keyboard_has_pressed(s, k, c)
<1>1. PICK h : Moved(s, h, k, c, P) /\ OnlyHeld(h, g, c)
  BY DEF Went
<1>2. /\ g \in KeyboardStates /\ g.device[k] # Null /\ g.device[k].pressed = P
      /\ \A x \in Keyboards : x # k => g.device[x] = s.device[x]
  BY <1>1 DEF Moved, OnlyHeld
<1>3. keyboard_has_pressed(g, k, c) <=> keyboard_has_pressed(s, k, c)
  BY <1>2 DEF keyboard_has_pressed, Present
<1>4. Up(g, c).device = g.device
  BY <1>2, Frees DEF Freed
<1> QED BY <1>2, <1>3, <1>4

\* A shortcut that still holds the key lets go of it.
LEMMA TakenKeyGoes ==
  ASSUME NEW s, KeysOK(s), NEW k \in Keyboards, NEW c \in Codes, s.device[k] # Null,
         c \in s.device[k].consumed
  PROVE  LET t == Unlatch(s, k, c)
             u == [t EXCEPT !.device[k].pressed = @ \ {c}]
         IN  Went(s, u, k, c, s.device[k].pressed \ {c})
<1> DEFINE t == Unlatch(s, k, c)
           u == [t EXCEPT !.device[k].pressed = @ \ {c}]
           P == s.device[k].pressed \ {c}
<1>1. /\ s \in KeyboardStates /\ Steady(s, {}) /\ PolicyOK(s) /\ Latched(s)
      /\ c \in s.device[k].pressed /\ s.device[k] \in KeyboardState
  BY LatchTypes DEF KeysOK, Steady, TakenDown, Present
<1>2. Turned(s, t, k, s.device[k].consumed \ {c}, c, Null) /\ PolicyOK(t) /\ Latched(t)
  BY <1>1, Unlatches
<1> HIDE DEF t
<1>3. P \in SUBSET Codes /\ Edge(s, k, c, P) /\ Edge(t, k, c, P) /\ c \notin P
  BY <1>1, <1>2 DEF KeyboardState, Edge, Turned
<1>4. u = Recorded(t, k, P)
  BY <1>2 DEF Recorded, Turned, KeyboardStates
<1> HIDE DEF u, P
<1>5. Moved(t, u, k, c, P) /\ u.device[k].consumed = t.device[k].consumed
  BY <1>2, <1>3, <1>4, RecordsOf DEF Turned
<1>6. Moved(s, u, k, c, P) /\ c \notin u.device[k].consumed
  BY <1>2, <1>3, <1>5 DEF Moved, Turned, SameRest
<1>7. Unconsumed(u, c) <=> Unconsumed(s, c)
  <2>1. /\ Unconsumed(s, c) <=> Elsewhere(s, k, c) \/ c \in s.device[k].pressed \ s.device[k].consumed
        /\ Unconsumed(u, c) <=> Elsewhere(s, k, c) \/ c \in u.device[k].pressed \ u.device[k].consumed
    BY <1>6, MovedUnconsumed
  <2> QED BY <1>3, <1>6, <2>1 DEF Moved
<1>8. u.focus # Null /\ c \notin u.missed => (c \in u.held <=> Unconsumed(u, c))
  BY <1>1, <1>6, <1>7 DEF Steady, HeldKnown, Moved, SameRest
<1>9. OnlyHeld(u, u, c)
  BY <1>6, NothingHeld DEF Moved
<1>10. Steady(u, {})
  BY <1>1, <1>6, <1>8, <1>9, MovedSteady
<1> QED BY <1>6, <1>9, <1>10 DEF Went, u, t, P

\* keyboard_latches_finish, of a key that no shortcut holds any more.
Without(t, k, c) == [t EXCEPT !.device[k].pressed = @ \ {c}]

Finished(t, s, k, c) ==
  LET was      == c \in s.device[k].pressed
      consumed == c \in s.device[k].consumed
      u == Without(t, k, c)
      v == IF was /\ ~keyboard_has_pressed(u, k, c) THEN Up(u, c) ELSE u
  IN  IF was /\ ~consumed /\ ~keyboard_has_unconsumed(v, k, c) /\ v.seat THEN Released(v, c) ELSE v

LEMMA Finishes ==
  ASSUME NEW s, NEW k, NEW c
  PROVE  LatchFinish(s, k, c) =
           IF c \in s.device[k].consumed THEN Finished(Unlatch(s, k, c), s, k, c) ELSE Finished(s, s, k, c)
<1>1. LatchFinish(s, k, c) =
        Finished(IF c \in s.device[k].consumed THEN Unlatch(s, k, c) ELSE s, s, k, c)
  BY Zenon DEF LatchFinish, Finished, Without, Up, Released
<1> QED BY <1>1

\* A key that goes with its keyboard.
LEMMA KeyGoesWithKeyboard ==
  ASSUME NEW s, KeysOK(s), NEW k \in Keyboards, NEW c \in Codes, s.device[k] # Null
  PROVE  LET t == LatchFinish(s, k, c)
         IN  KeysOK(t) /\ t.device[k] # Null /\ t.device[k].pressed = s.device[k].pressed \ {c}
<1> DEFINE P == s.device[k].pressed \ {c}
           r == LatchFinish(s, k, c)
           edge == ~keyboard_has_pressed(s, k, c)
<1>1. /\ s \in KeyboardStates /\ Steady(s, {}) /\ s.device[k] \in KeyboardState
      /\ k \in Present(s) /\ (c \in s.device[k].consumed => c \in s.device[k].pressed)
  BY LatchTypes DEF KeysOK, Steady, TakenDown, Present
<1>2. CASE c \in s.device[k].consumed
  <2> DEFINE t == Unlatch(s, k, c)
             u == [t EXCEPT !.device[k].pressed = @ \ {c}]
             v == IF edge THEN Up(u, c) ELSE u
  <2>1. Went(s, u, k, c, P)
    BY <1>2, TakenKeyGoes
  <2>2. r = IF ~keyboard_has_pressed(u, k, c) THEN Up(u, c) ELSE u
    <3>1. r = Finished(t, s, k, c) /\ u = Without(t, k, c)
      BY <1>2, Finishes DEF Without
    <3> HIDE DEF t, u, v, r, edge
    <3> QED BY <1>1, <1>2, <3>1 DEF Finished
  <2> HIDE DEF u, r, P
  <2>3. /\ Up(u, c).device = u.device
        /\ u.device[k] # Null /\ u.device[k].pressed = P
        /\ keyboard_has_pressed(u, k, c) <=> keyboard_has_pressed(s, k, c)
    BY <2>1, DeviceWent
  <2>4. KeysOK(v)
    BY <2>1, KeyIsUp DEF P
  <2>5. r = v
    BY <2>2, <2>3
  <2> QED BY <2>3, <2>4, <2>5 DEF r, P
<1>3. CASE c \notin s.device[k].pressed
  <2> DEFINE u == [s EXCEPT !.device[k].pressed = @ \ {c}]
  <2>1. u = s
    <3> DEFINE d == [s.device[k] EXCEPT !.pressed = @ \ {c}]
    <3>1. d = s.device[k]
      BY <1>1, <1>3 DEF KeyboardState
    <3>2. u = [s EXCEPT !.device = [s.device EXCEPT ![k] = d]]
      BY <1>1 DEF KeyboardStates
    <3> HIDE DEF d, u
    <3> QED BY <1>1, <3>1, <3>2 DEF KeyboardStates
  <2>2. r = u
    <3>1. r = Finished(s, s, k, c) /\ u = Without(s, k, c)
      BY <1>1, <1>3, Finishes DEF Without
    <3> HIDE DEF u, r
    <3> QED BY <1>3, <3>1 DEF Finished
  <2> QED BY <1>1, <1>3, <2>1, <2>2
<1>4. CASE c \in s.device[k].pressed /\ c \notin s.device[k].consumed
  <2> DEFINE u == [s EXCEPT !.device[k].pressed = @ \ {c}]
             g == ClientKey(u, k, c, FALSE)
             v == IF edge THEN Up(u, c) ELSE u
             w == IF edge THEN Up(g, c) ELSE g
             other == keyboard_has_unconsumed(u, k, c)
  <2>1. u = Recorded(s, k, P)
    BY <1>1 DEF Recorded, KeyboardStates
  <2>2. P \in SUBSET Codes /\ Edge(s, k, c, P) /\ c \notin P
    BY <1>1 DEF KeyboardState, Edge
  <2>3. r = LET v0 == IF ~keyboard_has_pressed(u, k, c) THEN Up(u, c) ELSE u
            IN  IF ~keyboard_has_unconsumed(v0, k, c) /\ v0.seat THEN Released(v0, c) ELSE v0
    <3>1. r = Finished(s, s, k, c) /\ u = Without(s, k, c)
      BY <1>4, Finishes DEF Without
    <3> HIDE DEF u, r
    <3> QED BY <1>4, <3>1 DEF Finished
  <2> HIDE DEF u, r, P
  <2>4. Moved(s, u, k, c, P) /\ u \in KeyboardStates
    BY <1>1, <2>1, <2>2, Records DEF Moved
  <2>5. Went(s, g, k, c, P)
    BY <1>1, <1>4, <2>1, <2>2, KeyTold
  <2>6. KeysOK(w)
    <3> HIDE DEF g
    <3> QED BY <2>2, <2>5, KeyIsUp
  <2>7. /\ Up(g, c).device = g.device /\ g \in KeyboardStates
        /\ g.device[k] # Null /\ g.device[k].pressed = P
    <3> HIDE DEF g, v, w
    <3> QED BY <2>5, DeviceWent
  <2>8. keyboard_has_pressed(u, k, c) <=> keyboard_has_pressed(s, k, c)
    BY <2>4 DEF keyboard_has_pressed, Present, Moved
  <2>9. /\ v.device = u.device /\ v.seat = u.seat /\ u.seat
    <3>1. Up(u, c).device = u.device /\ Up(u, c).seat = u.seat
      BY <2>4, Frees DEF Freed
    <3>2. u.seat
      BY <1>1, <2>4 DEF Moved, SameRest, Steady, Seated
    <3> QED BY <3>1, <3>2
  <2>10. keyboard_has_unconsumed(v, k, c) <=> other
    BY <2>9 DEF keyboard_has_unconsumed, Present
  <2>11. r = IF ~other THEN Released(v, c) ELSE v
    BY <2>3, <2>8, <2>9, <2>10
  <2>12. g = IF other THEN u ELSE Released(u, c)
    BY DEF ClientKey, Released
  <2>13. Up(Released(u, c), c) = Released(Up(u, c), c)
    BY <2>4, FreedAndHeard
  <2> HIDE DEF other, g, edge
  <2>14. r = w
    <3>1. other => v = w
      BY <2>12
    <3> HIDE DEF v
    <3>2. other => r = w
      BY <2>11, <3>1
    <3>3. ~other => r = w
      BY <2>11, <2>12, <2>13 DEF v
    <3> QED BY <3>2, <3>3
  <2>15. w.device = g.device
    BY <2>7
  <2> HIDE DEF w
  <2> QED BY <2>6, <2>7, <2>14, <2>15 DEF r, P
<1> QED BY <1>2, <1>3, <1>4

\* The state after each key, as the loop of the code makes it.
FinishLoop(s, k, codes, After, n) ==
  After = [i \in 0..n |-> IF i = 0 THEN s ELSE LatchFinish(After[i - 1], k, codes[i])]

LEMMA FinishLoopEnds ==
  ASSUME NEW s, NEW k, NEW codes, NEW n \in Nat
  PROVE  \E After : FinishLoop(s, k, codes, After, n)
<1> DEFINE Ends(i) == \E After : FinishLoop(s, k, codes, After, i)
           T == {i \in Nat : ~Ends(i)}
<1>1. Ends(0)
  <2> DEFINE f == [i \in 0..0 |-> s]
  <2>1. f = [i \in 0..0 |-> IF i = 0 THEN s ELSE LatchFinish(f[i - 1], k, codes[i])]
    OBVIOUS
  <2> QED BY <2>1 DEF FinishLoop
<1>2. ASSUME NEW i \in Nat, Ends(i) PROVE Ends(i + 1)
  <2>1. PICK f : FinishLoop(s, k, codes, f, i)
    BY <1>2
  <2> DEFINE h == [x \in 0..(i + 1) |-> IF x = 0 THEN s ELSE LatchFinish(f[x - 1], k, codes[x])]
  <2>2. \A x \in 0..i : h[x] = f[x]
    BY <2>1 DEF FinishLoop
  <2>3. \A x \in 0..(i + 1) : x # 0 => h[x - 1] = f[x - 1]
    <3>1. \A x \in 0..(i + 1) : x # 0 => x - 1 \in 0..i
      OBVIOUS
    <3> HIDE DEF h
    <3> QED BY <2>2, <3>1
  <2>4. h = [x \in 0..(i + 1) |-> IF x = 0 THEN s ELSE LatchFinish(h[x - 1], k, codes[x])]
    BY <2>3
  <2> QED BY <2>4 DEF FinishLoop
<1> HIDE DEF Ends
<1>3. T = {}
  <2> SUFFICES ASSUME T # {} PROVE FALSE
    OBVIOUS
  <2>1. PICK i \in T : \A y \in T : ~(y < i)
    BY Smallest
  <2>2. i # 0 /\ i \in Nat
    BY <1>1
  <2>3. i - 1 \in Nat /\ i - 1 < i /\ (i - 1) + 1 = i
    BY <2>2
  <2>4. Ends(i - 1)
    BY <2>1, <2>3
  <2>5. Ends((i - 1) + 1)
    BY <1>2, <2>3, <2>4
  <2> QED BY <2>3, <2>5
<1> QED BY <1>3 DEF Ends

\* All keys of the keyboard go: of the states on the way, none is the first that is wrong.
LEMMA KeysGoWithKeyboard ==
  ASSUME NEW s, KeysOK(s), NEW k \in Keyboards, s.device[k] # Null
  PROVE  LET t == keyboard_latches_finish(s, k)
         IN  KeysOK(t) /\ t.device[k] # Null /\ t.device[k].pressed = {}
<1> DEFINE codes == SetToSeq(Codes)
           n     == Len(codes)
           After == CHOOSE f : FinishLoop(s, k, codes, f, n)
           Done(i) == {codes[j] : j \in 1..i}
           Good(i) == /\ KeysOK(After[i]) /\ After[i].device[k] # Null
                      /\ After[i].device[k].pressed = s.device[k].pressed \ Done(i)
           T == {i \in 0..n : ~Good(i)}
<1>1. n \in Nat /\ Codes = {codes[i] : i \in 1..n}
  BY OneAfterTheOther, KeyboardAssumption
<1>2. keyboard_latches_finish(s, k) = After[n]
  BY DEF keyboard_latches_finish, FinishLoop
<1> HIDE DEF codes, n
<1>3. FinishLoop(s, k, codes, After, n)
  BY <1>1, FinishLoopEnds
<1> HIDE DEF After
<1>4. /\ After[0] = s
      /\ \A i \in 1..n : After[i] = LatchFinish(After[i - 1], k, codes[i])
  <2>1. \A i \in 0..n : After[i] = IF i = 0 THEN s ELSE LatchFinish(After[i - 1], k, codes[i])
    BY <1>3, Zenon DEF FinishLoop
  <2>2. 0 \in 0..n /\ \A i \in 1..n : i \in 0..n /\ i # 0
    BY <1>1
  <2> QED BY <2>1, <2>2
<1>5. Good(0)
  <2>1. Done(0) = {}
    OBVIOUS
  <2> HIDE DEF Done
  <2> QED BY <1>4, <2>1
<1>6. ASSUME NEW i \in 1..n, Good(i - 1) PROVE Good(i)
  <2>1. codes[i] \in Codes
    BY <1>1
  <2>2. Done(i) = Done(i - 1) \cup {codes[i]}
    <3>1. 1..i = (1..(i - 1)) \cup {i}
      BY <1>1
    <3> QED BY <3>1
  <2> DEFINE m == After[i - 1]
             c == codes[i]
             done == Done(i - 1)
  <2>3. KeysOK(m) /\ m.device[k] # Null /\ m.device[k].pressed = s.device[k].pressed \ done
    BY <1>6
  <2>4. After[i] = LatchFinish(m, k, c) /\ Done(i) = done \cup {c} /\ c \in Codes
    BY <1>4, <2>1, <2>2
  <2> HIDE DEF m, c, done, Done
  <2>5. /\ KeysOK(After[i]) /\ After[i].device[k] # Null
        /\ After[i].device[k].pressed = m.device[k].pressed \ {c}
    BY <2>3, <2>4, KeyGoesWithKeyboard
  <2> QED BY <2>3, <2>4, <2>5
<1> HIDE DEF Good
<1>7. T = {}
  <2> SUFFICES ASSUME T # {} PROVE FALSE
    OBVIOUS
  <2>1. T \in SUBSET Nat
    BY <1>1
  <2>2. PICK i \in T : \A y \in T : ~(y < i)
    <3> HIDE DEF T
    <3> QED BY <2>1, Smallest
  <2>3. i # 0 /\ i \in 0..n /\ ~Good(i)
    BY <1>5
  <2>4. i \in 1..n /\ i - 1 \in 0..n /\ i - 1 < i
    BY <1>1, <2>3
  <2>5. Good(i - 1)
    BY <2>2, <2>4
  <2> QED BY <1>6, <2>3, <2>4, <2>5
<1>8. Good(n)
  BY <1>1, <1>7
<1>9. s.device[k].pressed \ Done(n) = {}
  <2>1. Done(n) = Codes
    BY <1>1
  <2>2. s.device[k].pressed \subseteq Codes
    BY LatchTypes DEF KeysOK, Steady, KeyboardState
  <2> HIDE DEF Done
  <2> QED BY <2>1, <2>2
<1> HIDE DEF Done
<1> QED BY <1>2, <1>8, <1>9 DEF Good

LEMMA KeyboardDestroyStep ==
  ASSUME KeysOK(kbd), NEW k \in Keyboards, keyboard_destroy(k)
  PROVE  KeysOK(kbd')
<1> DEFINE t == keyboard_latches_finish(kbd, k)
           D == [t.device EXCEPT ![k] = Null]
           u == [t EXCEPT !.device = D]
           w == seat_set_keyboard(u, Present(u) # {})
           off == [u EXCEPT !.seat = FALSE]
<1>1. /\ kbd.device[k] # Null
      /\ kbd' = logical_refresh(w, TRUE)
  <2>1. [t EXCEPT !.device[k] = Null] = u
    OBVIOUS
  <2> QED BY <2>1 DEF keyboard_destroy
<1>2. KeysOK(t) /\ t.device[k] # Null /\ t.device[k].pressed = {}
  BY <1>1, KeysGoWithKeyboard
<1> HIDE DEF t
<1>3. t \in KeyboardStates /\ Steady(t, {}) /\ k \in Present(t) /\ t.seat /\ Latched(t) /\ PolicyOK(t)
  BY <1>2 DEF KeysOK, Steady, Present, Seated
<1>4. t.device[k].consumed = {} /\ \A c \in Codes : LatchOf(t, k, c) = Null
  <2>1. t.device[k].consumed \subseteq Codes
    BY <1>2, <1>3, LatchTypes DEF KeyboardState
  <2>2. \A c \in Codes : c \notin t.device[k].consumed
    BY <1>2, <1>3 DEF Steady, TakenDown
  <2> QED BY <2>1, <2>2, <1>3 DEF Latched
<1>5. /\ D \in [Keyboards -> KeyboardState \cup {Null}] /\ D[k] = Null
      /\ \A x \in Keyboards : x # k => D[x] = t.device[x]
  BY <1>3 DEF KeyboardStates
<1> HIDE DEF D
<1>6. /\ u \in KeyboardStates /\ u.device = D /\ SameRest(t, u)
      /\ u.events = t.events /\ u.heard = t.heard /\ u.silenced = t.silenced
  BY <1>3, <1>5 DEF KeyboardStates, SameRest
<1> HIDE DEF u
<1>7. w = IF Present(u) # {} THEN u ELSE off
  <2> HIDE DEF off
  <2>1. u.seat = TRUE
    BY <1>3, <1>6 DEF SameRest, KeyboardStates
  <2>2. CASE Present(u) # {}
    <3>1. (Present(u) # {}) = TRUE
      BY <2>2
    <3> QED BY <2>1, <2>2, <3>1 DEF seat_set_keyboard
  <2>3. CASE Present(u) = {}
    <3>1. (Present(u) # {}) = FALSE
      BY <2>3
    <3> QED BY <2>1, <2>3, <3>1 DEF seat_set_keyboard, off
  <2> QED BY <2>2, <2>3
<1> HIDE DEF w
<1>8. /\ w \in KeyboardStates /\ w.device = D /\ w.events = t.events /\ w.heard = t.heard
      /\ w.silenced = t.silenced /\ w.bindings = t.bindings /\ w.down = t.down /\ w.super = t.super
      /\ w.keymap = t.keymap /\ w.locked = t.locked /\ w.drag = t.drag /\ w.focus = t.focus
      /\ w.held = t.held /\ w.missed = t.missed /\ w.map = t.map /\ w.told = t.told
      /\ w.unaware = t.unaware /\ (w.seat <=> Present(u) # {})
  <2>1. CASE Present(u) # {}
    BY <1>3, <1>6, <1>7, <2>1 DEF SameRest
  <2>2. CASE Present(u) = {}
    BY <1>6, <1>7, <2>2 DEF SameRest, KeyboardStates
  <2> QED BY <2>1, <2>2
<1>9. Present(w) = Present(t) \ {k} /\ Present(u) = Present(w)
  BY <1>3, <1>5, <1>6, <1>8 DEF Present
<1>10. \A x \in Keyboards, c \in Codes : LatchOf(w, x, c) = LatchOf(t, x, c)
  <2>1. w.device[k] = Null /\ \A x \in Keyboards : x # k => w.device[x] = t.device[x]
    BY <1>5, <1>8
  <2>2. \A c \in Codes : LatchOf(w, k, c) = Null
    BY <2>1 DEF LatchOf
  <2> QED BY <1>4, <2>1, <2>2 DEF LatchOf
<1>11. PolicyOK(w)
  BY <1>3, <1>8, <1>10, PolicyStays DEF SamePolicy
<1>12. \A x \in Present(w) : x \in Present(t) /\ x # k /\ w.device[x] = t.device[x]
  BY <1>5, <1>8, <1>9 DEF Present
<1>13. \A x \in Present(t) : x = k \/ x \in Present(w)
  BY <1>9
<1>14. \A d \in Codes : /\ Unconsumed(w, d) <=> Unconsumed(t, d)
                        /\ (\E x \in Present(w) : d \in w.device[x].pressed)
                             <=> \E x \in Present(t) : d \in t.device[x].pressed
  BY <1>2, <1>12, <1>13 DEF Unconsumed
<1>15. Seated(w) /\ HeldKnown(w, {}) /\ ModifiersKnown(w) /\ Covered(w)
  BY <1>3, <1>8, <1>9, <1>14 DEF Steady, Seated, HeldKnown, ModifiersKnown, Covered
<1>16. TakenDown(w, {})
  BY <1>3, <1>12 DEF Steady, TakenDown
<1>17. Latched(w)
  <2> SUFFICES ASSUME NEW x \in Keyboards, NEW c \in Codes, LatchOf(w, x, c) # Null
               PROVE  LatchOf(w, x, c) \in w.bindings /\ c \in w.device[x].consumed
    BY DEF Latched
  <2>1. x \in Present(w)
    BY DEF LatchOf, Present
  <2> QED BY <1>3, <1>8, <1>10, <1>12, <2>1 DEF Latched
<1>18. Steady(w, {}) /\ Merged(w)
  BY <1>2, <1>8, <1>11, <1>14, <1>15, <1>16, <1>17 DEF Steady, KeysOK, Merged
<1>19. OnlyModifiers(w, kbd') /\ ModifiersKnown(kbd') /\ kbd'.super = Modifiers(kbd')
  BY <1>1, <1>8, <1>15, Refreshes
<1>20. Steady(kbd', {})
  BY <1>18, <1>19, SteadyModifiers
<1>21. Merged(kbd')
  BY <1>18, <1>19 DEF Merged, OnlyModifiers, Present
<1> QED BY <1>19, <1>20, <1>21 DEF KeysOK

-----------------------------------------------------------------------------
(* The policy takes an event. *)

\* The policy has taken the first event e of s.
TookFirst(s, t, e) ==
  /\ s.events # <<>> /\ e = s.events[1] /\ e \in KeyEvent
  /\ Len(s.events) \in Nat \ {0} /\ Len(t.events) = Len(s.events) - 1
  /\ \A i \in 1..Len(t.events) : t.events[i] = s.events[i + 1]
  /\ t.bindings = s.bindings /\ t.silenced = s.silenced
  /\ \A k \in Keyboards, c \in Codes :
       /\ LatchOf(t, k, c) = LatchOf(s, k, c)
       /\ t.heard[k][c] = IF e.k = k /\ e.c = c /\ Current(s, e.id)
                          THEN IF e.state = "pressed" THEN e.id ELSE Null
                          ELSE s.heard[k][c]

LEMMA TakenBeliefs ==
  ASSUME NEW s, NEW t, NEW e, TookFirst(s, t, e), NEW k \in Keyboards, NEW c \in Codes,
         NEW m \in Nat, m < Len(s.events), NEW id, Believes(s, k, c, m + 1, id)
  PROVE  Believes(t, k, c, m, id)
<1> DEFINE n == Len(s.events)
<1>1. n \in Nat \ {0} /\ Len(t.events) = n - 1 /\ m < n
  BY DEF TookFirst
<1> HIDE DEF n
<1>2. \A i \in 1..m : Mine(t, k, c, i) <=> Mine(s, k, c, i + 1)
  <2>1. \A i \in 1..m : t.events[i] = s.events[i + 1]
    BY <1>1 DEF TookFirst
  <2> QED BY <2>1 DEF Mine, Current, TookFirst
<1>3. Mine(s, k, c, 1) <=> e.k = k /\ e.c = c /\ Current(s, e.id)
  BY DEF Mine, TookFirst
<1>4. CASE s.heard[k][c] = id /\ \A i \in 1..m + 1 : ~Mine(s, k, c, i)
  <2>1. 1 \in 1..m + 1 /\ \A i \in 1..m : i + 1 \in 1..m + 1
    OBVIOUS
  <2>2. ~Mine(s, k, c, 1) /\ \A i \in 1..m : ~Mine(t, k, c, i)
    BY <1>2, <1>4, <2>1
  <2>3. t.heard[k][c] = id
    BY <1>3, <1>4, <2>2 DEF TookFirst
  <2> QED BY <2>2, <2>3 DEF Believes
<1>5. CASE \E i \in 1..m + 1 : /\ Mine(s, k, c, i)
                               /\ s.events[i].state = "pressed" /\ s.events[i].id = id
                               /\ \A j \in i + 1..m + 1 : ~Mine(s, k, c, j)
  <2>1. PICK i \in 1..m + 1 : /\ Mine(s, k, c, i)
                              /\ s.events[i].state = "pressed" /\ s.events[i].id = id
                              /\ \A j \in i + 1..m + 1 : ~Mine(s, k, c, j)
    BY <1>5
  <2>2. CASE i = 1
    <3>1. t.heard[k][c] = id
      BY <1>3, <2>1, <2>2 DEF TookFirst
    <3>2. \A j \in 1..m : j + 1 \in 2..m + 1
      OBVIOUS
    <3>3. \A j \in 1..m : ~Mine(t, k, c, j)
      BY <1>2, <2>1, <2>2, <3>2
    <3> QED BY <3>1, <3>3 DEF Believes
  <2>3. CASE i # 1
    <3>1. i - 1 \in 1..m /\ (i - 1) + 1 = i
      BY <2>3
    <3>2. /\ t.events[i - 1] = s.events[i] /\ Mine(t, k, c, i - 1)
      <4>1. i - 1 \in 1..Len(t.events)
        BY <1>1, <3>1
      <4>2. t.events[i - 1] = s.events[i]
        BY <3>1, <4>1 DEF TookFirst
      <4> QED BY <1>2, <2>1, <3>1, <4>2
    <3>3. \A j \in (i - 1) + 1..m : j \in 1..m /\ j + 1 \in i + 1..m + 1
      BY <3>1
    <3>4. \A j \in (i - 1) + 1..m : ~Mine(t, k, c, j)
      BY <1>2, <2>1, <3>3
    <3> QED BY <2>1, <3>1, <3>2, <3>4 DEF Believes
  <2> QED BY <2>2, <2>3
<1> QED BY <1>4, <1>5 DEF Believes

LEMMA TakenPolicy ==
  ASSUME NEW s \in KeyboardStates, PolicyOK(s), NEW t, NEW e, TookFirst(s, t, e)
  PROVE  PolicyOK(t)
<1> DEFINE n == Len(s.events)
<1>1. n \in Nat \ {0} /\ Len(t.events) = n - 1 /\ n - 1 \in Nat /\ (n - 1) + 1 = n /\ n - 1 < n
  BY DEF TookFirst
<1> HIDE DEF n
<1>2. Named(t)
  BY DEF PolicyOK, Named, TookFirst
<1>3. Ordered(t)
  <2> SUFFICES ASSUME NEW k \in Keyboards, NEW c \in Codes, NEW i \in 1..Len(t.events),
                      Mine(t, k, c, i), t.events[i].state = "released"
               PROVE  Believes(t, k, c, i - 1, t.events[i].id)
    BY DEF Ordered
  <2>1. t.events[i] = s.events[i + 1] /\ i + 1 \in 1..Len(s.events) /\ (i + 1) - 1 = i
    BY <1>1 DEF TookFirst, n
  <2>2. Mine(s, k, c, i + 1)
    BY <2>1 DEF Mine, Current, TookFirst
  <2>3. Believes(s, k, c, i, t.events[i].id)
    BY <2>1, <2>2 DEF PolicyOK, Ordered
  <2>4. i - 1 \in Nat /\ i - 1 < Len(s.events) /\ (i - 1) + 1 = i
    BY <1>1 DEF n
  <2> QED BY <2>3, <2>4, TakenBeliefs
<1>4. Holding(t)
  <2> SUFFICES ASSUME NEW k \in Keyboards, NEW c \in Codes, LatchOf(t, k, c) # Null
               PROVE  Believes(t, k, c, Len(t.events), LatchOf(t, k, c).id)
    BY DEF Holding
  <2>1. Believes(s, k, c, n, LatchOf(t, k, c).id)
    BY DEF PolicyOK, Holding, TookFirst, n
  <2> QED BY <1>1, <2>1, TakenBeliefs DEF n
<1>5. Owed(t)
  <2> SUFFICES ASSUME NEW k \in Keyboards, NEW c \in Codes, NEW id \in Ids, Expected(t, id),
                      LastPressed(t, k, c, id), [k |-> k, c |-> c, id |-> id] \notin t.silenced
               PROVE  LatchOf(t, k, c) # Null /\ LatchOf(t, k, c).id = id
    BY DEF Owed
  <2> DEFINE A == {i \in 1..n : s.events[i].k = k /\ s.events[i].c = c /\ s.events[i].id = id}
  <2>1. Expected(s, id) /\ Current(s, id)
    BY DEF Expected, Current, TookFirst
  <2>2. \A i \in 1..n - 1 : t.events[i] = s.events[i + 1]
    BY <1>1 DEF TookFirst
  <2>3. LastPressed(s, k, c, id) <=>
          \/ s.heard[k][c] = id /\ \A i \in 1..n : i \notin A
          \/ \E i \in 1..n : /\ i \in A /\ s.events[i].state = "pressed"
                            /\ \A j \in i + 1..n : j \notin A
    <3>1. \A i \in 1..n : \A j \in i + 1..n : j \in 1..n
      BY <1>1
    <3> QED BY <3>1 DEF LastPressed, n
  <2>4. ASSUME t.heard[k][c] = id, \A i \in 1..n - 1 : i + 1 \notin A
        PROVE  LastPressed(s, k, c, id)
    <3>1. \A i \in 2..n : i \notin A
      <4>1. \A i \in 2..n : i - 1 \in 1..n - 1 /\ (i - 1) + 1 = i
        BY <1>1
      <4> HIDE DEF A
      <4> QED BY <2>4, <4>1
    <3>2. CASE 1 \in A
      <4>1. s.events[1].state = "pressed"
        BY <2>1, <2>4, <3>2, KeyboardAssumption DEF TookFirst
      <4>2. 1 \in 1..n /\ 1 + 1 = 2
        BY <1>1
      <4> HIDE DEF A
      <4> QED BY <2>3, <3>1, <3>2, <4>1, <4>2
    <3>3. CASE 1 \notin A
      <4>1. s.heard[k][c] = id
        BY <1>1, <2>1, <2>4, <3>3, KeyboardAssumption DEF TookFirst
      <4>2. \A i \in 1..n : i = 1 \/ i \in 2..n
        BY <1>1
      <4>3. \A i \in 1..n : i \notin A
        <5> HIDE DEF A
        <5> QED BY <3>1, <3>3, <4>2
      <4> QED BY <2>3, <4>1, <4>3
    <3> QED BY <3>2, <3>3
  <2>5. ASSUME \E i \in 1..n - 1 : /\ i + 1 \in A /\ t.events[i].state = "pressed"
                                 /\ \A j \in i + 1..n - 1 : j + 1 \notin A
        PROVE  LastPressed(s, k, c, id)
    <3>1. PICK i \in 1..n - 1 : /\ i + 1 \in A /\ t.events[i].state = "pressed"
                                /\ \A j \in i + 1..n - 1 : j + 1 \notin A
      BY <2>5
    <3>2. i + 1 \in 1..n /\ s.events[i + 1].state = "pressed"
      BY <1>1, <2>2, <3>1
    <3>3. \A j \in (i + 1) + 1..n : j \notin A
      <4>1. \A j \in (i + 1) + 1..n : j - 1 \in i + 1..n - 1 /\ (j - 1) + 1 = j
        BY <1>1
      <4> HIDE DEF A
      <4> QED BY <3>1, <4>1
    <3> HIDE DEF A
    <3> QED BY <2>3, <3>1, <3>2, <3>3
  <2>6. LastPressed(s, k, c, id)
    <3>1. /\ Len(t.events) = n - 1
          /\ \A i \in 1..n - 1 : \A j \in i + 1..n - 1 : j \in 1..n - 1
      BY <1>1
    <3>3. \A i \in 1..n - 1 :
            i + 1 \in A <=> t.events[i].k = k /\ t.events[i].c = c /\ t.events[i].id = id
      <4>1. \A i \in 1..n - 1 : i + 1 \in 1..n
        BY <1>1
      <4> QED BY <2>2, <4>1
    <3> HIDE DEF A
    <3>2. \/ t.heard[k][c] = id /\ \A i \in 1..n - 1 : i + 1 \notin A
          \/ \E i \in 1..n - 1 : /\ i + 1 \in A /\ t.events[i].state = "pressed"
                                 /\ \A j \in i + 1..n - 1 : j + 1 \notin A
      BY <3>1, <3>3 DEF LastPressed
    <3> QED BY <2>4, <2>5, <3>2
  <2> QED BY <2>1, <2>6 DEF PolicyOK, Owed, TookFirst
<1> QED BY <1>2, <1>3, <1>4, <1>5 DEF PolicyOK

LEMMA DispatchStep ==
  ASSUME KeysOK(kbd), DispatchKey
  PROVE  KeysOK(kbd')
<1> DEFINE s == kbd
           e == Head(s.events)
           now == CASE ~Current(s, e.id) -> s.heard[e.k][e.c]
                    [] Current(s, e.id) /\ e.state = "pressed" -> e.id
                    [] OTHER -> Null
           row == [s.heard[e.k] EXCEPT ![e.c] = now]
           H == [s.heard EXCEPT ![e.k] = row]
           Q == Tail(s.events)
           t == [s EXCEPT !.events = Q, !.heard = H]
<1>1. s \in KeyboardStates /\ Steady(s, {}) /\ PolicyOK(s) /\ s.events \in Seq(KeyEvent) /\ s.events # <<>>
  BY DEF KeysOK, Steady, KeyboardStates, DispatchKey
<1>2. /\ Q \in Seq(KeyEvent) /\ Len(s.events) \in Nat \ {0} /\ Len(Q) = Len(s.events) - 1
      /\ \A i \in 1..Len(Q) : Q[i] = s.events[i + 1]
      /\ e = s.events[1] /\ e \in KeyEvent
  BY <1>1, TailFacts
<1> HIDE DEF e, Q
<1>3. s.heard \in [Keyboards -> [Codes -> Ids \cup {Null}]] /\ e.k \in Keyboards /\ e.c \in Codes /\ e.id \in Ids
  BY <1>1, <1>2 DEF KeyboardStates, KeyEvent
<1>4. now \in Ids \cup {Null}
      /\ now = IF Current(s, e.id) THEN IF e.state = "pressed" THEN e.id ELSE Null ELSE s.heard[e.k][e.c]
  BY <1>3
<1> HIDE DEF now
<1>5. row \in [Codes -> Ids \cup {Null}] /\ \A c \in Codes : row[c] = IF c = e.c THEN now ELSE s.heard[e.k][c]
  BY <1>3, <1>4
<1>6. kbd' = t
  <2>1. kbd' = [s EXCEPT !.events = Q, !.heard[e.k][e.c] = now]
    BY DEF DispatchKey, e, Q, now
  <2>2. [s EXCEPT !.events = Q, !.heard[e.k][e.c] = now] = t
    BY <1>1 DEF KeyboardStates
  <2> QED BY <2>1, <2>2
<1> HIDE DEF row
<1>7. /\ H \in [Keyboards -> [Codes -> Ids \cup {Null}]]
      /\ \A k \in Keyboards, c \in Codes :
           H[k][c] = IF k = e.k THEN row[c] ELSE s.heard[k][c]
  BY <1>3, <1>5
<1> HIDE DEF H
<1>8. /\ kbd' \in KeyboardStates /\ kbd'.events = Q /\ kbd'.heard = H
      /\ SameRest(kbd, kbd') /\ kbd'.device = kbd.device /\ kbd'.silenced = kbd.silenced
  BY <1>1, <1>2, <1>6, <1>7 DEF KeyboardStates, SameRest
<1>9. TookFirst(kbd, kbd', e)
  <2>1. \A k \in Keyboards, c \in Codes :
           kbd'.heard[k][c] = IF e.k = k /\ e.c = c /\ Current(s, e.id)
                              THEN IF e.state = "pressed" THEN e.id ELSE Null
                              ELSE s.heard[k][c]
    BY <1>4, <1>5, <1>7, <1>8
  <2> QED BY <1>1, <1>2, <1>8, <2>1 DEF TookFirst, SameRest, LatchOf
<1>10. PolicyOK(kbd')
  BY <1>1, <1>9, TakenPolicy
<1>11. Present(kbd') = Present(kbd) /\ Modifiers(kbd') = Modifiers(kbd)
  BY <1>8, ModifiersAre DEF Present, SameRest
<1>12. /\ Seated(kbd') /\ HeldKnown(kbd', {}) /\ ModifiersKnown(kbd') /\ TakenDown(kbd', {})
       /\ Covered(kbd') /\ Latched(kbd') /\ Merged(kbd')
  BY <1>1, <1>8, <1>11 DEF KeysOK, Steady, SameRest, Seated, HeldKnown, Unconsumed, ModifiersKnown,
     TakenDown, Covered, Latched, LatchOf, Merged
<1> QED BY <1>1, <1>8, <1>10, <1>11, <1>12 DEF KeysOK, Steady, SameRest

-----------------------------------------------------------------------------
(* The keyboards, whatever happens. *)

LEMMA KeysAtFirst ==
  ASSUME NEW map \in DOMAIN SymOf, NEW device \in [Keyboards -> {Fresh, Null}], KeyboardInit(map, device)
  PROVE  KeysOK(kbd)
<1>1. /\ kbd.device = device /\ kbd.down = {} /\ kbd.super = FALSE /\ kbd.keymap = map
      /\ kbd.seat \in BOOLEAN /\ (kbd.seat <=> \E k \in Keyboards : device[k] # Null)
      /\ kbd.bindings = {} /\ kbd.locked = FALSE /\ kbd.focus = Null /\ kbd.map = map
      /\ kbd.events = <<>> /\ kbd.silenced = {}
      /\ \A k \in Keyboards, c \in Codes : kbd.heard[k][c] = Null
  BY DEF KeyboardInit
<1>2. kbd \in KeyboardStates
  <2>1. device \in [Keyboards -> KeyboardState \cup {Null}]
    BY FreshKeys
  <2>2. <<>> \in Seq(KeyEvent)
    OBVIOUS
  <2>3. [k \in Keyboards |-> [c \in Codes |-> Null]] \in [Keyboards -> [Codes -> Ids \cup {Null}]]
    OBVIOUS
  <2> QED BY <2>1, <2>2, <2>3 DEF KeyboardInit, KeyboardStates
<1>3. \A k \in Present(kbd) : kbd.device[k] = Fresh
  BY <1>1 DEF Present
<1>4. \A k \in Keyboards, c \in Codes : LatchOf(kbd, k, c) = Null
  BY <1>1, <1>3, FreshKeys DEF LatchOf, Present
<1>5. /\ Seated(kbd) /\ HeldKnown(kbd, {}) /\ ModifiersKnown(kbd) /\ TakenDown(kbd, {})
      /\ Covered(kbd) /\ Latched(kbd)
  BY <1>1, <1>3, <1>4, FreshKeys DEF Seated, Present, HeldKnown, ModifiersKnown, TakenDown, Covered, Latched
<1>6. PolicyOK(kbd)
  BY <1>1, <1>4 DEF PolicyOK, Named, Ordered, Holding, Owed, Expected
<1>7. Merged(kbd)
  BY <1>1, <1>3, FreshKeys DEF Merged
<1>8. Modifiers(kbd) = FALSE
  BY <1>1, <1>3, FreshKeys DEF Modifiers
<1> QED BY <1>1, <1>2, <1>5, <1>6, <1>7, <1>8 DEF KeysOK, Steady

LEMMA KeyboardStep ==
  ASSUME KeysOK(kbd), KeyboardNext
  PROVE  KeysOK(kbd')
<1>1. CASE DevicesNext
  <2>1. PICK k \in Keyboards :
          \/ input_add(k) \/ keyboard_destroy(k)
          \/ \E c \in Codes, press \in BOOLEAN : input_key(k, c, press)
          \/ \E super \in BOOLEAN : input_modifiers(k, super)
    BY <1>1 DEF DevicesNext
  <2> QED BY <2>1, InputAddStep, KeyboardDestroyStep, InputKeyStep, InputModifiersStep
<1>2. CASE PolicyNext
  <2>1. ASSUME NEW map \in DOMAIN SymOf, NEW plan \in SUBSET Shortcuts, NEW owner \in Owners \cup {Null},
               NEW focus \in Focusable \cup {Null}, presentation_publish(map, plan, owner, focus)
        PROVE  KeysOK(kbd')
    BY <2>1, PresentationStep
  <2> QED BY <1>2, <2>1, SimpleKeySteps, DispatchStep DEF PolicyNext
<1>3. CASE FocusNext
  <2>1. ASSUME NEW focus \in Focusable \cup {Null}, input_lock_begin(focus)
        PROVE  KeysOK(kbd')
    BY <2>1, LockBegins
  <2> QED BY <1>3, <2>1, SimpleKeySteps DEF FocusNext
<1> QED BY <1>1, <1>2, <1>3 DEF KeyboardNext

LEMMA KeysOKTells ==
  ASSUME KeysOK(kbd)
  PROVE  KeysAreTold
<1>1. /\ kbd \in KeyboardStates /\ Steady(kbd, {}) /\ PolicyOK(kbd) /\ Latched(kbd) /\ Covered(kbd)
      /\ Merged(kbd) /\ kbd.super = Modifiers(kbd)
  BY DEF KeysOK, Steady
<1>2. OneKeyboard
  <2>1. \A k \in Present(kbd) : kbd.device[k].pressed \subseteq Codes
    BY <1>1, LatchTypes DEF Present, KeyboardState
  <2>2. kbd.down \subseteq Codes
    BY <1>1 DEF KeyboardStates
  <2> QED BY <1>1, <2>1, <2>2 DEF OneKeyboard, Merged
<1>3. ClientIsTold
  <2> SUFFICES ASSUME kbd.focus # Null
               PROVE  /\ kbd.held \ kbd.missed = keyboard_pressed(kbd) \ kbd.missed
                      /\ kbd.seat => kbd.map = kbd.keymap /\ (~kbd.unaware => kbd.told = kbd.super)
    BY DEF ClientIsTold
  <2>1. kbd.held \subseteq Codes /\ keyboard_pressed(kbd) \subseteq Codes
    BY <1>1 DEF KeyboardStates, keyboard_pressed
  <2>2. \A c \in Codes : c \notin kbd.missed => (c \in kbd.held <=> c \in keyboard_pressed(kbd))
    BY <1>1, PressedAre DEF Steady, HeldKnown
  <2>3. kbd.seat => kbd.map = kbd.keymap /\ (~kbd.unaware => kbd.told = kbd.super)
    BY <1>1 DEF Steady, Seated, ModifiersKnown
  <2> QED BY <2>1, <2>2, <2>3
<1>4. ReleasesFollowPresses
  <2> SUFFICES ASSUME NEW k \in Keyboards, NEW c \in Codes
               PROVE  /\ \A i \in DOMAIN kbd.events :
                           Mine(kbd, k, c, i) /\ kbd.events[i].state = "released" =>
                             Believes(kbd, k, c, i - 1, kbd.events[i].id)
                      /\ \A id \in Ids :
                           Expected(kbd, id) /\ Believes(kbd, k, c, Len(kbd.events), id)
                           /\ [k |-> k, c |-> c, id |-> id] \notin kbd.silenced =>
                             kbd.device[k] # Null /\ c \in kbd.device[k].pressed /\ kbd.device[k].latch[c] # Null
    BY DEF ReleasesFollowPresses
  <2> DEFINE n == Len(kbd.events)
  <2>1. n \in Nat /\ DOMAIN kbd.events = 1..n
    BY <1>1 DEF KeyboardStates
  <2>2. \A i \in DOMAIN kbd.events :
          Mine(kbd, k, c, i) /\ kbd.events[i].state = "released" =>
            Believes(kbd, k, c, i - 1, kbd.events[i].id)
    BY <1>1, <2>1 DEF PolicyOK, Ordered
  <2>3. ASSUME NEW id \in Ids, Expected(kbd, id), Believes(kbd, k, c, n, id),
               [k |-> k, c |-> c, id |-> id] \notin kbd.silenced
        PROVE  kbd.device[k] # Null /\ c \in kbd.device[k].pressed /\ kbd.device[k].latch[c] # Null
    <3>1. \A i : kbd.events[i].k = k /\ kbd.events[i].c = c /\ kbd.events[i].id = id => Mine(kbd, k, c, i)
      BY <2>3 DEF Expected, Mine, Current
    <3>2. \A i : Mine(kbd, k, c, i) => kbd.events[i].k = k /\ kbd.events[i].c = c
      BY DEF Mine
    <3>3. LastPressed(kbd, k, c, id)
      BY <2>3, <3>1, <3>2 DEF LastPressed, Believes
    <3>4. LatchOf(kbd, k, c) # Null
      BY <1>1, <2>3, <3>3 DEF PolicyOK, Owed
    <3>5. k \in Present(kbd) /\ c \in kbd.device[k].consumed
      BY <1>1, <3>4 DEF Latched, LatchOf, Present
    <3> QED BY <1>1, <3>4, <3>5 DEF Steady, TakenDown, LatchOf, Present
  <2> QED BY <2>2, <2>3
<1>5. LockedKeysStay
  BY <1>1 DEF LockedKeysStay, Covered
<1> QED BY <1>2, <1>3, <1>4, <1>5 DEF KeysAreTold

\* Keys are told, for any keyboards and codes, any keymaps and shortcuts and any length
\* of the policy's queue: however keys, devices, presentations, grabs, drags, screenshots
\* and locks follow one another, the merged keyboard is the union of those there are, the
\* focused client knows the keys that are its own, the modifiers and the keymap, except for
\* what it was kept from, the policy hears of a release after its press and of every
\* press it holds, and no window has the keyboard of a locked session (input.c:input_key,
\* seat.c:seat_keyboard_notify_key, presentation.c:presentation_publish).
THEOREM KeysTold == KeyboardSpec => []KeysAreTold
<1>1. (\E map \in DOMAIN SymOf, device \in [Keyboards -> {Fresh, Null}] : KeyboardInit(map, device))
        => KeysOK(kbd)
  BY KeysAtFirst
<1>2. KeysOK(kbd) /\ [KeyboardNext]_kbd => KeysOK(kbd)'
  <2>1. CASE KeyboardNext
    BY <2>1, KeyboardStep
  <2>2. CASE UNCHANGED kbd
    BY <2>2
  <2> QED BY <2>1, <2>2
<1>3. KeysOK(kbd) => KeysAreTold
  BY KeysOKTells
<1> QED BY <1>1, <1>2, <1>3, PTL DEF KeyboardSpec
=============================================================================
