----------------------------- MODULE EventQueue -----------------------------
(***************************************************************************)
(* The native event queue (native/event.c), the surface facts the native   *)
(* side posts to it (native/window.c, native/layer.c) and the main loop    *)
(* that consumes it (src/main.lisp, src/runtime.lisp).                     *)
(*                                                                         *)
(* One thread runs everything.  `phase' is where the main loop stands and  *)
(* `busy' whose policy transaction is in progress: a transaction publishes *)
(* a presentation, which may move layer surfaces and so post further       *)
(* events.  The runtime keeps two lists, windows and layers; identifiers   *)
(* come from one counter, so `registry' holds both.                        *)
(***************************************************************************)
EXTENDS Integers, Sequences

CONSTANTS
  Windows,      \* window identifiers: s->next_id is never reused
  Layers,       \* layer-surface identifiers, drawn from the same counter
  LayerStates,  \* what a :layer event can say of an arranged layer surface
  RequestOf,    \* the client's own request within such a state (:request)
  MaxEvents,    \* 4096 in event.c
  Quota,        \* 64: events of one drain, callbacks of one service pass
  None

Surfaces == Windows \cup Layers

WindowFacts == {"buffered", "empty"}

Facts == WindowFacts \cup LayerStates

ASSUME QueueAssumption ==
  /\ MaxEvents \in Nat \ {0}
  /\ Quota \in Nat \ {0}
  /\ Windows \cap Layers = {}
  /\ None \notin Facts \cup Surfaces

VARIABLES
  native,     \* what the native side last said of each surface, None if gone
  admitted,   \* the windows mapped at least once (window.admitted, or gone)
  queue,      \* s->events; s->event_count is its length
  barrier,    \* s->observation_barrier
  failed,     \* s->failed
  registry,   \* runtime-windows and runtime-layers
  effective,  \* the surfaces runtime-effective was computed from
  pending,    \* runtime-pending-context holds a key
  phase,      \* where run-compositor's loop stands
  delivered,  \* the counter of the drain or of the service pass
  busy,       \* whose transaction is in progress, "idle" if none
  stop        \* *stop-requested*, or runtime-running is nil

surfaceVars == <<native, admitted>>
queueVars   == <<queue, barrier, failed>>
policyVars  == <<registry, effective, pending, busy>>
loopVars    == <<phase, delivered, stop>>
vars        == <<surfaceVars, queueVars, policyVars, loopVars>>

WindowEvent == [type : {"map", "metadata", "buffer", "geometry"},
                id : Windows, fact : WindowFacts]
LayerEvent  == [type : {"layer"}, id : Layers, fact : LayerStates]
GoneEvent   == [type : {"unmap"}, id : Surfaces, fact : {None}]
InputEvent  == [type : {"input"}, id : {None}, fact : {None}]

Event == WindowEvent \cup LayerEvent \cup GoneEvent \cup InputEvent

FactsOf(s) == IF s \in Layers THEN LayerStates ELSE WindowFacts

Knowledge ==
  {known \in [Surfaces -> Facts \cup {None}] :
     \A s \in Surfaces : known[s] \in FactsOf(s) \cup {None}}

Requests == {RequestOf[state] : state \in LayerStates}

\* What a policy transaction depends on: an echo changes nothing of it.
Seen(known) ==
  [s \in Surfaces |-> IF s \in Layers /\ known[s] # None
                     THEN RequestOf[known[s]] ELSE known[s]]

Phases == {"step", "drain", "producers", "system", "private", "exit"}

TypeOK ==
  /\ native \in Knowledge
  /\ admitted \in SUBSET Windows
  /\ queue \in Seq(Event)
  /\ Len(queue) <= MaxEvents
  /\ barrier \in 0..MaxEvents
  /\ failed \in BOOLEAN
  /\ registry \in Knowledge
  /\ effective \in [Surfaces -> Requests \cup WindowFacts \cup {None}]
  /\ pending \in BOOLEAN
  /\ phase \in Phases
  /\ delivered \in 0..Quota
  /\ busy \in {"idle", "event", "private", "system"}
  /\ stop \in BOOLEAN

Init ==
  /\ native = [s \in Surfaces |-> None]
  /\ admitted = {}
  /\ queue = <<>>
  /\ barrier = 0
  /\ failed = FALSE
  /\ registry = [s \in Surfaces |-> None]
  /\ effective = [s \in Surfaces |-> None]
  /\ pending = FALSE
  /\ phase = "step"
  /\ delivered = 0
  /\ busy = "idle"
  /\ stop = FALSE

-----------------------------------------------------------------------------
(* event.c: posting and popping. *)

observation_event(e) ==
  e.type \in {"map", "metadata", "buffer", "geometry", "layer", "unmap"}

\* begin_event and end_event.  A full queue fails the compositor for good.
Post(e) ==
  IF failed THEN UNCHANGED queueVars
  ELSE IF Len(queue) >= MaxEvents
    THEN failed' = TRUE /\ UNCHANGED <<queue, barrier>>
    ELSE /\ queue' = Append(queue, e)
         /\ barrier' = IF observation_event(e) THEN Len(queue) + 1 ELSE barrier
         /\ UNCHANGED failed

\* Slip: the barrier does not move down with the queue.
Pop_KeepsBarrier ==
  /\ queue # <<>>
  /\ queue' = Tail(queue)
  /\ UNCHANGED <<barrier, failed>>

\* tomoe_next_event.
Pop ==
  /\ queue # <<>>
  /\ queue' = Tail(queue)
  /\ barrier' = IF barrier > 0 THEN barrier - 1 ELSE barrier
  /\ UNCHANGED failed

-----------------------------------------------------------------------------
(* Clients, dispatched inside tomoe_step. *)

InStep == phase = "step" /\ busy = "idle"

\* The surface's native state becomes `fact' and the handler posts one event.
Observe(s, type, fact) ==
  /\ native' = [native EXCEPT ![s] = fact]
  /\ Post([type |-> type, id |-> s, fact |-> fact])

\* The first map of a toplevel announces it; a later one only its buffer.
mapped(w) ==
  /\ InStep
  /\ \/ /\ w \notin admitted
        /\ admitted' = admitted \cup {w}
        /\ Observe(w, "map", "buffered")
     \/ /\ native[w] = "empty"
        /\ Observe(w, "buffer", "buffered")
        /\ UNCHANGED admitted
  /\ UNCHANGED <<policyVars, loopVars>>

unmapped(w) ==
  /\ InStep
  /\ native[w] = "buffered"
  /\ Observe(w, "buffer", "empty")
  /\ UNCHANGED <<admitted, policyVars, loopVars>>

\* A title, an application id or a state request: the whole record is resent.
window_metadata(w) ==
  /\ InStep
  /\ native[w] # None
  /\ Observe(w, "metadata", native[w])
  /\ UNCHANGED <<admitted, policyVars, loopVars>>

\* A commit that only resizes the client's geometry.
window_commit(w) ==
  /\ InStep
  /\ native[w] = "buffered"
  /\ Observe(w, "geometry", native[w])
  /\ UNCHANGED <<admitted, policyVars, loopVars>>

window_destroy(w) ==
  /\ InStep
  /\ native[w] # None
  /\ Observe(w, "unmap", None)
  /\ UNCHANGED <<admitted, policyVars, loopVars>>

\* layer_map and layer_commit rearrange; layer_event posts a changed state.
layer_commit(l, state) ==
  /\ InStep
  /\ native[l] # state
  /\ Observe(l, "layer", state)
  /\ UNCHANGED <<admitted, policyVars, loopVars>>

layer_unmap(l) ==
  /\ InStep
  /\ native[l] # None
  /\ Observe(l, "unmap", None)
  /\ UNCHANGED <<admitted, policyVars, loopVars>>

\* Keys, buttons, pointer motion, requests, screenshots, output proposals.
input_event ==
  /\ InStep
  /\ Post([type |-> "input", id |-> None, fact |-> None])
  /\ UNCHANGED <<surfaceVars, policyVars, loopVars>>

\* tomoe_step returns 0 unless the compositor failed.
StepDone ==
  /\ InStep
  /\ phase' = IF failed \/ stop THEN "exit" ELSE "drain"
  /\ UNCHANGED <<surfaceVars, queueVars, policyVars, delivered, stop>>

-----------------------------------------------------------------------------
(* dispatch-event: adopt what an event says, then transact if it matters. *)

\* Slip: a change of a window's buffer is not recorded.
Adopt_NoBuffer(e) ==
  IF e.type \in {"map", "metadata", "layer", "unmap"}
  THEN [registry EXCEPT ![e.id] = e.fact]
  ELSE registry

\* Slip: only surfaces already known are updated.
Adopt_KnownOnly(e) ==
  IF e.type # "input" /\ registry[e.id] # None
  THEN [registry EXCEPT ![e.id] = e.fact]
  ELSE registry

\* The registry after the event.  A buffer event is for known windows only.
Adopt(e) ==
  IF e.type \in {"map", "metadata", "layer", "unmap"}
     \/ (e.type = "buffer" /\ registry[e.id] # None)
  THEN [registry EXCEPT ![e.id] = e.fact]
  ELSE registry

\* Slip: every layer event wakes the policy.
Echo_Never(e) == FALSE

\* Whether the event may, and whether it must, invalidate the policy context.
\* A layer fact whose client request is known is an echo of the policy's own
\* presentation and does not wake it again.
Echo(e) ==
  /\ e.type = "layer"
  /\ registry[e.id] # None
  /\ RequestOf[registry[e.id]] = RequestOf[e.fact]

MayChange(e) ==
  /\ ~Echo(e)
  /\ e.type \in {"buffer", "geometry"} => registry[e.id] # None

MustChange(e) ==
  \/ e.type = "unmap"
  \/ e.type = "layer" /\ ~Echo(e)
  \/ Adopt(e) # registry /\ e.type # "layer"

\* A change that is pending from a failed transaction joins this event's.
dispatch_event(e) ==
  \E changed \in BOOLEAN :
    /\ MustChange(e) => changed
    /\ changed => MayChange(e)
    /\ registry' = Adopt(e)
    /\ pending' = (pending \/ (changed /\ observation_event(e)))
    /\ busy' = IF changed \/ pending THEN "event" ELSE "idle"
    /\ UNCHANGED effective

\* One turn of drain-backend-events: pop an event and dispatch it.
Drain ==
  /\ phase = "drain" /\ busy = "idle" /\ ~stop
  /\ delivered < Quota \/ barrier > 0
  /\ Pop
  /\ dispatch_event(Head(queue))
  /\ delivered' = IF delivered < Quota THEN delivered + 1 ELSE delivered
  /\ UNCHANGED <<surfaceVars, phase, stop>>

\* It yields on an empty queue, or once the quota of events or of time is
\* spent and no observation is outstanding.
DrainYield ==
  /\ phase = "drain" /\ busy = "idle"
  /\ \/ stop
     \/ queue = <<>>
     \/ delivered > 0 /\ barrier = 0
  /\ phase' = IF stop THEN "exit" ELSE "producers"
  /\ delivered' = 0
  /\ UNCHANGED <<surfaceVars, queueVars, policyVars, stop>>

-----------------------------------------------------------------------------
(* The services run between two steps. *)

\* One turn of reconcile-backend-observations.
Reconcile ==
  /\ phase \in {"producers", "private"} /\ busy = "idle" /\ ~stop
  /\ barrier > 0
  /\ Pop
  /\ dispatch_event(Head(queue))
  /\ UNCHANGED <<surfaceVars, loopVars>>

\* Slip: the callback is selected without consuming the fence.
PrivateCallback_Unfenced ==
  /\ phase \in {"producers", "private"} /\ busy = "idle" /\ ~stop
  /\ delivered < Quota
  /\ delivered' = delivered + 1
  /\ busy' = "private"
  /\ UNCHANGED <<surfaceVars, queueVars, registry, effective, pending, phase, stop>>

\* A producer snapshot, a request of a control client, a due timer, a watch,
\* a finished execution, a managed process or a watched source.
PrivateCallback ==
  /\ phase \in {"producers", "private"} /\ busy = "idle" /\ ~stop
  /\ barrier = 0
  /\ delivered < Quota
  /\ delivered' = delivered + 1
  /\ busy' = "private"
  /\ UNCHANGED <<surfaceVars, queueVars, registry, effective, pending, phase, stop>>

\* service-system dispatches its sample without reconciling first.
SystemCallback ==
  /\ phase = "system" /\ busy = "idle" /\ ~stop
  /\ busy' = "system"
  /\ pending' = TRUE
  /\ phase' = "private"
  /\ UNCHANGED <<surfaceVars, queueVars, registry, effective, delivered, stop>>

NextService ==
  /\ busy = "idle"
  /\ \/ phase = "producers" /\ phase' = "system"
     \/ phase = "system" /\ phase' = "private"
     \/ phase = "private" /\ phase' = IF stop THEN "exit" ELSE "step"
  /\ delivered' = 0
  /\ UNCHANGED <<surfaceVars, queueVars, policyVars, stop>>

-----------------------------------------------------------------------------
(* A transaction in progress. *)

\* Publishing the presentation moves a layer surface within its request.
layers_publish_presentation(l, state) ==
  /\ busy # "idle"
  /\ native[l] # None
  /\ state # native[l]
  /\ RequestOf[state] = RequestOf[native[l]]
  /\ Observe(l, "layer", state)
  /\ UNCHANGED <<admitted, policyVars, loopVars>>

\* commit-context publishes the candidate; %transact clears the invalidations.
Accept ==
  /\ busy # "idle"
  /\ effective' = Seen(registry)
  /\ pending' = FALSE
  /\ busy' = "idle"
  /\ UNCHANGED <<surfaceVars, queueVars, registry, loopVars>>

\* Slip: a failure drops the invalidations with the candidate.
Reject_Forgets ==
  /\ busy # "idle"
  /\ pending' = FALSE
  /\ busy' = "idle"
  /\ UNCHANGED <<surfaceVars, queueVars, registry, effective, loopVars>>

\* The candidate fails.  dispatch-event tries to republish the accepted mounts
\* over the new facts; the invalidations stay pending for the next event.
Reject ==
  /\ busy # "idle"
  /\ effective' \in {effective} \cup (IF busy = "private" THEN {} ELSE {Seen(registry)})
  /\ busy' = "idle"
  /\ UNCHANGED <<surfaceVars, queueVars, registry, pending, loopVars>>

\* SIGTERM or SIGINT at any moment; a :quit command is one inside a commit.
StopRequest ==
  /\ ~stop
  /\ stop' = TRUE
  /\ UNCHANGED <<surfaceVars, queueVars, policyVars, phase, delivered>>

-----------------------------------------------------------------------------
Client ==
  \/ \E w \in Windows : \/ mapped(w) \/ unmapped(w) \/ window_metadata(w)
                        \/ window_commit(w) \/ window_destroy(w)
  \/ \E l \in Layers : layer_unmap(l)
  \/ \E l \in Layers, state \in LayerStates : layer_commit(l, state)
  \/ input_event

Loop == StepDone \/ Drain \/ DrainYield \/ Reconcile \/ NextService

Callback == PrivateCallback \/ SystemCallback

Publish == \E l \in Layers, state \in LayerStates :
             layers_publish_presentation(l, state)

Next == Client \/ Loop \/ Callback \/ Publish \/ Accept \/ Reject \/ StopRequest

Spec == Init /\ [][Next]_vars

\* The thread keeps running: tomoe_step returns, transactions end (the policy
\* has a watchdog) and the loop goes on.  Transactions may fail again and again,
\* but not every one for ever: a policy that never commits, and moves a layer
\* surface each time, would hold the loop.  Nothing is assumed of the clients.
FairSpec == Spec /\ WF_vars(Loop) /\ SF_vars(Accept)

-----------------------------------------------------------------------------
(* Properties. *)

\* The barrier counts the queue's prefix up to its last observation, so the
\* error "Backend observation fence outlived its event queue." of
\* reconcile-backend-observations can never be raised.
BarrierMarksLastObservation ==
  /\ barrier <= Len(queue)
  /\ barrier > 0 => observation_event(queue[barrier])
  /\ \A i \in 1..Len(queue) : i > barrier => ~observation_event(queue[i])

\* With no observation outstanding, the runtime knows exactly the surfaces
\* the native side has, each in its last announced state: no ghost window,
\* no forgotten one, no layer of an older arrangement, whatever transactions
\* failed in between.
RegistryIsCurrent ==
  barrier = 0 /\ ~failed => registry = native

\* A private callback starts from such a registry (main.lisp: the fence is
\* consumed before private callbacks can use their scopes).
CallbacksSeeCurrentRegistry ==
  [][busy = "idle" /\ busy' = "private" /\ ~failed => registry = native]_vars

\* The same for the sample service-system delivers.
SystemSampleSeesCurrentRegistry ==
  [][busy = "idle" /\ busy' = "system" /\ ~failed => registry = native]_vars

\* The published policy was computed from the surfaces the runtime knows, or
\* the difference is on record for the next event: a failed transaction never
\* makes the policy miss a window or a layer request.
PolicyNotBehind ==
  ~pending => effective = Seen(registry)

\* Presentations that echo back as layer events do not keep the loop from
\* reading its clients again.
LoopReturnsToClients == []<>(phase \in {"step", "exit"})

\* What a client shows reaches the policy, or the compositor is on its way out.
SurfacesReachPolicy ==
  \A s \in Surfaces :
    native[s] # None ~> (registry[s] # None \/ native[s] = None \/ failed \/ stop)
=============================================================================
