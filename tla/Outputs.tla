------------------------------- MODULE Outputs -------------------------------
(***************************************************************************)
(* What an output is set to: the requests of the outside (output.c, with   *)
(* nested.c, headless.c and settings.c, which make them), the declarations *)
(* of the policy, and the transactions that settle both (src/runtime.lisp, *)
(* src/native.lisp).                                                       *)
(*                                                                         *)
(* A struct output with its struct screen is a record; of its settings,    *)
(* whether it is on and its size.  A request is for a size, since all      *)
(* requests are for a custom mode.  The thread runs a transaction from     *)
(* its first materialize to its commit, or to the end of the recovery,     *)
(* without a break: a transaction is a step, and an operator on a record   *)
(* of the native side n, the runtime r and its runtime-effective a.        *)
(***************************************************************************)
EXTENDS Integers, FiniteSets, SequencesExt

CONSTANTS
  Host,        \* outputs that are a window of a host compositor (nested.c)
  Virtual,     \* headless outputs the policy declares
  Monitors,    \* all others
  Sizes,
  Refused,     \* the sizes of each output the backend does not take
  Candidates,  \* what the policy may come to declare
  Scaled,      \* whether the scale setting is not 1
  MaxRevision, \* bounds s->outputs_revision
  Unset        \* no output, no request, no word of the policy

Mode == [on : BOOLEAN, size : Sizes]

Screen ==
  [id : Nat, admitted : BOOLEAN, configured : BOOLEAN, current : Mode, initial : Sizes,
   deferred : Sizes \cup {Unset}, request : Nat, asked : Sizes]

Fact == [id : Nat, request : Nat, asking : BOOLEAN, arriving : BOOLEAN, is : Sizes \cup {Unset}]

ASSUME OutputsAssumption ==
  /\ IsFiniteSet(Virtual)
  /\ Host \cap Virtual = {} /\ Host \cap Monitors = {} /\ Virtual \cap Monitors = {}
  /\ {Unset, "off", "preferred", "hold"} \cap Sizes = {}
  /\ Unset \notin {"off", "preferred", "hold"} \cup Screen \cup Fact
  /\ Candidates \subseteq [outputs : [Host \cup Virtual \cup Monitors -> Sizes \cup {"off", "preferred", Unset}],
                            virtual : [Virtual -> Sizes \cup {Unset}], nested : Sizes]
  /\ \E decl \in Candidates : decl.virtual = [o \in Virtual |-> Unset]
  /\ Scaled \in BOOLEAN /\ MaxRevision \in Nat

VARIABLES
  native,   \* s->outputs, outputs_revision, next_output_id, settings, events
  runtime,  \* runtime-outputs and -connectors, their revision, the pending context
  accepted, \* runtime-effective and the declarations of runtime-mounts
  excused   \* whether something other than the backend failed a transaction

outputVars == <<native, runtime, accepted, excused>>

Outputs == Host \cup Virtual \cup Monitors

Off(size) == [on |-> FALSE, size |-> size]
On(size)  == [on |-> TRUE, size |-> size]

\* output_added.  asked is the latest size the outside wants.
Added(id, size) ==
  [id |-> id, admitted |-> FALSE, configured |-> FALSE, current |-> Off(size),
   initial |-> size, deferred |-> Unset, request |-> 0, asked |-> size]

Connected(n) == {o \in Outputs : n.screens[o] # Unset}

\* write_connector and write_output_facts.
Facts(n) ==
  [o \in Outputs |->
     LET s == n.screens[o]
     IN IF s = Unset THEN Unset
        ELSE [id |-> s.id, request |-> s.request, asking |-> s.deferred # Unset,
              arriving |-> ~s.admitted, is |-> IF s.current.on THEN s.current.size ELSE Unset]]

outputs_event(n) ==
  [n EXCEPT !.revision = @ + 1,
            !.events = Append(@, [revision |-> n.revision + 1, facts |-> Facts(n)])]

\* tomoe_outputs_pending
outputs_pending(n) == \E o \in Connected(n) : ~n.screens[o].admitted \/ n.screens[o].deferred # Unset

\* store_output_request.  The request joins what is deferred, or the baseline.
store_output_request(n, o, size) ==
  [n EXCEPT !.screens[o].deferred = size, !.screens[o].request = @ + 1,
            !.screens[o].asked = size]

output_request(n, o, size) == outputs_event(store_output_request(n, o, size))

output_added(n, o, size) ==
  outputs_event([n EXCEPT !.screens[o] = Added(n.next, size), !.next = @ + 1])

output_destroy(n, o) == outputs_event([n EXCEPT !.screens[o] = Unset])

\* settings_publish: a new size of the nested window is a request of each.
outputs_request_nested_size(n, size) ==
  IF size = n.nested THEN n
  ELSE outputs_event([n EXCEPT !.nested = size,
                        !.screens = [o \in Outputs |->
                          IF o \in Host \cap Connected(n)
                          THEN store_output_request(n, o, size).screens[o] ELSE @[o]]])

\* tomoe_virtual_output, for each declaration that changed.
tomoe_virtual_output(n, o, size) ==
  CASE size = Unset /\ o \in Connected(n) -> output_destroy(n, o)
    [] size # Unset /\ o \in Connected(n) -> output_request(n, o, size)
    [] size # Unset /\ o \notin Connected(n) -> output_added(n, o, size)
    [] OTHER -> n

\* First those that are declared no longer, then those that are new or changed.
configure_virtual_outputs(n, old, new) ==
  LET gone   == {o \in Virtual : old[o] # Unset /\ new[o] = Unset}
      stated == {o \in Virtual : old[o] # new[o]} \ gone
      calls  == SetToSeq(gone) \o SetToSeq(stated)
      After[i \in 0..Len(calls)] ==
        IF i = 0 THEN n ELSE tomoe_virtual_output(After[i - 1], calls[i], new[calls[i]])
  IN After[Len(calls)]

-----------------------------------------------------------------------------
(* Applying a plan: for each output Unset, "hold" or a configuration. *)

\* tomoe_outputs_begin, then tomoe_output with its options, or tomoe_output_hold.
\* pick_output_mode has no mode to pick on an output without modes.
Staged(s, o, config) ==
  LET begun == IF s.deferred # Unset THEN On(s.deferred)
               ELSE IF s.admitted /\ ~s.configured THEN s.current ELSE On(s.initial)
  IN CASE config = "hold" -> IF s.admitted THEN s.current ELSE Off(s.initial)
       [] config = "off" -> Off(begun.size)
       [] config = "preferred" -> On(IF o \in Monitors THEN s.initial ELSE begun.size)
       [] config \in Sizes -> On(config)
       [] OTHER -> begun

\* tomoe_outputs_preview
Preview(n, plan) ==
  [o \in Outputs |->
     LET s == n.screens[o]
     IN IF s = Unset THEN Unset
        ELSE [id |-> s.id, request |-> s.request, asking |-> FALSE, arriving |-> FALSE,
              is |-> IF Staged(s, o, plan[o]).on THEN Staged(s, o, plan[o]).size ELSE Unset]]

\* commit_outputs: one output that is refused fails all of them.
Refuses(n, plan) ==
  \E o \in Connected(n) : LET to == Staged(n.screens[o], o, plan[o])
                        IN to.on /\ to.size \in Refused[o]

\* What is off keeps its mode (strip_disabled_state).
Committed(n, plan) ==
  [n EXCEPT !.screens = [o \in Outputs |->
     LET s == n.screens[o] to == Staged(s, o, plan[o])
     IN IF s = Unset THEN Unset
        ELSE [s EXCEPT !.admitted = TRUE, !.configured = plan[o] # Unset,
                       !.current = IF to.on THEN to ELSE [@ EXCEPT !.on = FALSE]]]]

\* Slip: the request is cleared whichever it is by now.
Settle_Newer(before, n, plan) ==
  [n EXCEPT !.screens = [o \in Outputs |->
     LET s == n.screens[o] was == before.screens[o]
     IN IF s = Unset \/ was.deferred = Unset THEN s
        ELSE [s EXCEPT !.initial = IF plan[o] = "hold" THEN @ ELSE was.deferred,
                       !.deferred = Unset]]]

\* The requests that were applied become the baseline, those that were held do
\* not; a request that came while the presentation was published stays.
Settle(before, n, plan) ==
  [n EXCEPT !.screens = [o \in Outputs |->
     LET s == n.screens[o] was == before.screens[o] held == plan[o] = "hold"
     IN IF s = Unset \/ was.deferred = Unset THEN s
        ELSE LET promoted == [s EXCEPT !.initial = IF held THEN @ ELSE was.deferred]
             IN IF s.request # was.request THEN promoted
                ELSE [promoted EXCEPT !.deferred = Unset, !.asked = IF held THEN s.initial ELSE @]]]

\* tomoe_outputs_apply, when the backend takes it.  Without outputs it only
\* publishes the presentation.
tomoe_outputs_apply(n, plan, nested) ==
  LET published == outputs_request_nested_size(Committed(n, plan), nested)
  IN IF Connected(n) = {} THEN published ELSE outputs_event(Settle(n, published, plan))

-----------------------------------------------------------------------------
(* The runtime. *)

\* default-output-config: the configuration of each output, Unset where the
\* policy has no word and the scale is 1.
Config(decl, known) ==
  [o \in Outputs |-> IF decl.outputs[o] # Unset THEN decl.outputs[o]
                     ELSE IF Scaled /\ known[o] # Unset THEN "preferred" ELSE Unset]

\* connector-configuration-identity
Identity(fact) == <<fact.id, fact.request>>

output_failure(o, known, config) ==
  [name |-> o, config |-> config[o], connector |-> Identity(known[o])]

matching_output_failures(failures, config, known) ==
  {f \in failures : /\ known[f.name] # Unset
                    /\ f.config = config[f.name]
                    /\ f.connector = Identity(known[f.name])}

\* resolve-output-preview: what failed and has not changed since is held.
Plan(config, failures, known) ==
  [o \in Outputs |-> IF known[o] = Unset THEN Unset
                     ELSE IF \E f \in failures : f.name = o THEN "hold" ELSE config[o]]

\* Whether some fact of the event is news to the policy.
refresh_output_facts(n, r) ==
  IF n.revision <= r.revision THEN r
  ELSE [r EXCEPT !.known = Facts(n), !.revision = n.revision,
                 !.stale = @ \/ Facts(n) # r.known]

\* %materialize and %commit-context.  refuse: the backend fails this once.
commit_context(n, r, a, decl, refuse) ==
  LET config   == Config(decl, r.known)
      failures == matching_output_failures(r.recovery \cup a.failures, config, r.known)
      plan     == Plan(config, failures, r.known)
      changed  == outputs_pending(n) \/ plan # a.plan
      applied  == IF changed THEN tomoe_outputs_apply(n, plan, decl.nested)
                  ELSE outputs_request_nested_size(n, decl.nested)
      known    == IF changed THEN Preview(n, plan) ELSE r.known
  IN IF changed /\ (refuse \/ Refuses(n, plan))
     THEN [ok |-> FALSE, n |-> n, r |-> r, a |-> a]
     ELSE [ok |-> TRUE,
           n |-> configure_virtual_outputs(applied, a.decl.virtual, decl.virtual),
           r |-> [r EXCEPT !.known = known, !.recovery = {},
                           !.revision = IF changed /\ ~outputs_pending(applied)
                                        THEN applied.revision ELSE @],
           a |-> [decl |-> decl, config |-> config, failures |-> failures, plan |-> plan,
                  known |-> known]]

\* pending-output-failures
pending_output_failures(r, a, cause) ==
  LET Blamed(fact) == fact.asking \/ (cause = "backend" /\ fact.arriving)
  IN {output_failure(o, r.known, a.config) :
        o \in {o \in Outputs : r.known[o] # Unset /\ Blamed(r.known[o])}}

\* The accepted declarations are committed again with the failures held.  No request
\* is newer than what the runtime knows: materialize has just read the facts.
RecoverOutputs(n, r, a, cause) ==
  LET failures == pending_output_failures(r, a, cause) \cup r.recovery
  IN commit_context(n, [r EXCEPT !.recovery = matching_output_failures(failures, a.config, r.known)],
                    a, a.decl, FALSE)

\* %transact, within dispatch-event or without its recovery.  cause is what makes
\* it fail: a callback ("policy"), the backend once ("backend"), or Unset.
Transact(n, r, decl, cause, recovers) ==
  LET fresh == refresh_output_facts(n, r)
      tried == IF cause = "policy" THEN [ok |-> FALSE]
               ELSE commit_context(n, fresh, accepted, decl, cause = "backend")
      after == IF tried.ok THEN [tried EXCEPT !.r.stale = FALSE]
               ELSE IF recovers
               THEN RecoverOutputs(n, fresh, accepted, IF cause = "policy" THEN cause ELSE "backend")
               ELSE [n |-> n, r |-> fresh, a |-> accepted]
  IN /\ native' = after.n
     /\ runtime' = after.r
     /\ accepted' = after.a
     /\ excused' = (outputs_pending(after.n) /\ (excused \/ cause = "policy" \/ ~recovers))

-----------------------------------------------------------------------------
(* Steps. *)

OutputsInit ==
  LET none == [o \in Outputs |-> Unset]
      decl == CHOOSE decl \in Candidates : decl.virtual = [o \in Virtual |-> Unset]
  IN /\ native = [screens |-> none, revision |-> 0, events |-> <<>>, next |-> 1,
                  nested |-> decl.nested]
     /\ runtime = [known |-> none, revision |-> 0, stale |-> FALSE, recovery |-> {}]
     /\ accepted = [decl |-> decl, config |-> Config(decl, none), failures |-> {},
                    plan |-> none, known |-> none]
     /\ excused = FALSE

Bounded == native.revision < MaxRevision

Outside(n) == Bounded /\ native' = n /\ UNCHANGED <<runtime, accepted, excused>>

\* toplevel_configure: the host asks for another size than the window has.
toplevel_configure(o, size) ==
  /\ o \in Host \cap Connected(native)
  /\ size # native.screens[o].current.size
  /\ Outside(output_request(native, o, size))

\* A monitor is plugged in, or the window of the host is opened.
Arrives(o, size) ==
  /\ o \in (Host \cup Monitors) \ Connected(native)
  /\ Outside(output_added(native, o, size))

Leaves(o) ==
  /\ o \in (Host \cup Monitors) \cap Connected(native)
  /\ Outside(output_destroy(native, o))

\* dispatch-event of an :outputs event.  One that is older than what the runtime
\* knows is dropped; one with no news for the policy needs no transaction.
DispatchOutputs(decl, cause) ==
  /\ native.events # <<>>
  /\ Bounded \/ (decl = accepted.decl /\ cause = Unset)
  /\ LET e == Head(native.events)
         n == [native EXCEPT !.events = Tail(@)]
         r == [runtime EXCEPT !.known = e.facts, !.revision = e.revision,
                              !.stale = @ \/ e.facts # accepted.known]
     IN IF e.revision < runtime.revision \/ ~r.stale
        THEN /\ decl = accepted.decl /\ cause = Unset
             /\ native' = n
             /\ runtime' = IF e.revision < runtime.revision THEN runtime ELSE r
             /\ UNCHANGED <<accepted, excused>>
        ELSE Transact(n, r, decl, cause, TRUE)

\* Any other event that has the policy run, and a private callback.
DispatchOther(decl, cause) ==
  /\ Bounded \/ (decl = accepted.decl /\ cause = Unset)
  /\ Transact(native, runtime, decl, cause, TRUE)

PrivateCallback(decl, cause) == Bounded /\ Transact(native, runtime, decl, cause, FALSE)

Causes == {"policy", "backend", Unset}

OutputsNext ==
  \/ \E o \in Host \cup Monitors : Leaves(o)
  \/ \E o \in Host \cup Monitors, size \in Sizes : toplevel_configure(o, size) \/ Arrives(o, size)
  \/ \E decl \in Candidates, cause \in Causes :
       DispatchOutputs(decl, cause) \/ DispatchOther(decl, cause) \/ PrivateCallback(decl, cause)

OutputsSpec == OutputsInit /\ [][OutputsNext]_outputVars

-----------------------------------------------------------------------------
(* Properties. *)

\* With no :outputs event queued the runtime knows the outputs as they are, its
\* policy was computed from them or is to be, and what the backend has yet to be
\* asked for is on record there (the revisions of output.c and runtime.lisp).
OutputsAreKnown ==
  native.events = <<>> =>
    /\ runtime.known = Facts(native)
    /\ accepted.known = runtime.known \/ runtime.stale

\* The latest size the outside asked for is deferred or is the baseline, and where
\* the policy has no size of its own it is the size in the end, unless it is held
\* (store_output_request, tomoe_outputs_apply).
SizesAreAsAsked ==
  \A o \in Connected(native) :
    LET s == native.screens[o]
    IN /\ s.asked = IF s.deferred # Unset THEN s.deferred ELSE s.initial
       /\ (native.events = <<>> /\ ~runtime.stale /\ s.current.on
             /\ accepted.plan[o] \in {Unset, "preferred"}) => s.current.size = s.asked

\* resolve-output-preview: "Actual failures hold arriving outputs inactive and active
\* outputs at accepted geometry while other owners can settle".  With no event
\* queued, nothing is left to ask of the backend that a transaction could fail on.
FailuresAreHeld ==
  native.events = <<>> /\ ~excused => ~outputs_pending(native)

\* The three, the last where the scale is 1: the runtime knows the outputs, and what
\* the outside asked of them is done, kept for later or held.
OutputsAreSettled == OutputsAreKnown /\ SizesAreAsAsked /\ (Scaled \/ FailuresAreHeld)
=============================================================================
