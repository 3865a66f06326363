------------------------------- MODULE Network -------------------------------
(***************************************************************************)
(* The network service (support/network.c): what the policy is told of     *)
(* NetworkManager, followed over D-Bus, or of /sys while there is none.    *)
(*                                                                         *)
(* Four properties on three kinds of objects matter: the manager's state   *)
(* and primary connection, that connection's access point, and its SSID.   *)
(* (A connection's type and an access point's strength, which nothing      *)
(* depends on, are kept like the SSID.)  They are asked for with GetAll    *)
(* and changed by signals; the epochs that tell which of a reply's values  *)
(* a signal has overtaken are kept here as the set of those properties.    *)
(***************************************************************************)
EXTENDS Lists, FiniteSets, SequencesExt

CONSTANTS
  Conns, Aps, \* connections and access points
  MaxNews,    \* bound: changes of NetworkManager, of /sys and of the bus
  MaxFailed,  \* bound: requests that time out
  None,       \* no path, no owner, no SSID
  Unknown     \* a property that is not known, or was invalidated

VARIABLES
  nm,  \* NetworkManager, the bus and /sys, with what was sent and is not read
  net  \* the service: struct tomoe_network

netVars == <<nm, net>>

\* A call: its number, kind, path, whether it is to be answered yet, whether the
\* service knew the owner, and the properties whose epoch has passed (stale).
Call(id, kind, path, owned) ==
  [id |-> id, kind |-> kind, path |-> path, waits |-> TRUE, owned |-> owned, stale |-> {}]

\* missed: a request about this owner failed.  specificOf, ssidOf: history, the connection
\* the access point was read of and the access point the SSID was.
Opened ==
  [bus |-> TRUE, owner |-> None, state |-> Unknown, primary |-> Unknown, specific |-> Unknown,
   ssid |-> Unknown, needs |-> {}, calls |-> <<Call(1, "owner", None, FALSE)>>,
   authoritative |-> FALSE, sysfs |-> FALSE, up |-> FALSE, connected |-> FALSE, shown |-> None,
   missed |-> FALSE, specificOf |-> None, ssidOf |-> None]

(***************************************************************************)
(* What the policy is told.  n is the service, the result what it becomes. *)
(***************************************************************************)
public_from_source(n) ==
  LET connected == IF n.authoritative THEN n.state = TRUE ELSE n.sysfs /\ n.up
  IN [n EXCEPT !.connected = connected,
               !.shown = IF n.authoritative /\ connected /\ n.ssid # Unknown THEN n.ssid ELSE None]

read_sysfs(n) ==
  LET u == [n EXCEPT !.up = (nm.link = "up")]
  IN IF u.authoritative THEN u ELSE public_from_source(u)

start_sysfs(n) ==
  LET u == read_sysfs([n EXCEPT !.authoritative = FALSE, !.sysfs = TRUE])
  IN IF nm.link # "gone" THEN u ELSE public_from_source([u EXCEPT !.sysfs = FALSE, !.up = FALSE])

\* Started with a bus, whose daemon is asked for the owner, or without one.  A link
\* of /sys is up, down, or cannot be read (gone).
NetworkInit ==
  \E owner \in {None, 1}, c \in Conns, a \in Aps :
    /\ nm = [owner |-> owner, state |-> TRUE, primary |-> c, specific |-> [p \in Conns |-> a],
             ssid |-> [x \in Aps |-> 1], link |-> "up", mail |-> <<>>, born |-> 1, news |-> 0, failed |-> 0]
    /\ net \in {Opened, start_sysfs([Opened EXCEPT !.bus = FALSE, !.calls = <<>>])}

Late(call, fields) == [call EXCEPT !.stale = @ \cup fields]
Overtaken(n, fields) == [n EXCEPT !.calls = [i \in DOMAIN @ |-> Late(@[i], fields)]]

cancel_stale_calls(n, kinds) == [n EXCEPT !.calls = Only(@, {c \in ToSet(@) : c.kind \notin kinds})]

clear_ap(n) == Overtaken([n EXCEPT !.ssid = Unknown], {"ssid"})

\* Mutant: the SSID outlives the connection.
clear_conn_Alone(n) == Overtaken([n EXCEPT !.specific = Unknown], {"specific"})

clear_conn(n) == clear_ap(Overtaken([n EXCEPT !.specific = Unknown], {"specific"}))
clear_primary(n) == clear_conn(Overtaken([n EXCEPT !.primary = Unknown], {"primary"}))

reset_nm_values(n) == clear_primary(Overtaken([n EXCEPT !.state = Unknown], {"state"}))

\* Another owner, or none: no call of before is current.
Owned(n, owner) == [n EXCEPT !.owner = owner, !.calls = <<>>]

fallback_to_sysfs(n) ==
  start_sysfs(public_from_source([reset_nm_values(Owned(n, None)) EXCEPT !.authoritative = FALSE]))

Need(n, scope, path) == [n EXCEPT !.needs = IF path = None THEN @ \ {scope} ELSE @ \cup {scope}]

accept_primary(n, path) ==
  IF n.primary # path
  THEN cancel_stale_calls(Need([clear_conn(n) EXCEPT !.primary = path], "conn", path), {"conn", "ap"})
  ELSE IF n.specific = Unknown THEN Need(n, "conn", path) ELSE n

accept_specific(n, path) ==
  IF n.specific # path
  THEN cancel_stale_calls(Need([clear_ap(n) EXCEPT !.specific = path], "ap", path), {"ap"})
  ELSE IF n.ssid = Unknown THEN Need(n, "ap", path) ELSE n

Accepted(n, field, path, value) ==
  CASE field = "state"    -> [n EXCEPT !.state = value]
    [] field = "primary"  -> accept_primary(n, value)
    [] field = "specific" -> [accept_specific(n, value) EXCEPT !.specificOf = path]
    [] field = "ssid"     -> [n EXCEPT !.ssid = value, !.ssidOf = path]

Invalidated(n, field) ==
  LET u == [n EXCEPT !.needs = @ \cup {CASE field \in {"state", "primary"} -> "root"
                                         [] field = "specific" -> "conn" [] field = "ssid" -> "ap"}]
  IN CASE field = "state"    -> Overtaken([u EXCEPT !.state = Unknown], {"state"})
       [] field = "primary"  -> cancel_stale_calls(clear_primary(u), {"conn", "ap"})
       [] field = "specific" -> cancel_stale_calls(
                                  [clear_ap(Overtaken([u EXCEPT !.specific = Unknown], {"specific"}))
                                     EXCEPT !.needs = @ \ {"ap"}], {"ap"})
       [] field = "ssid"     -> Overtaken([u EXCEPT !.ssid = Unknown], {"ssid"})

mark_nm_observed(n) == public_from_source([n EXCEPT !.authoritative = TRUE, !.sysfs = FALSE])

\* What a signal says: the values it has, and the properties it has none for.
read_property_dict(m) == [f \in IF m.told THEN {m.field} ELSE {} |-> m.value]
read_invalidated(m)   == IF m.told THEN {} ELSE {m.field}

\* apply_values, of a signal.
Accept(n, path, values, f) ==
  IF f \in DOMAIN values THEN mark_nm_observed(Overtaken(Accepted(n, f, path, values[f]), {f})) ELSE n
Drop(n, invalidated, f) == IF f \in invalidated THEN Invalidated(n, f) ELSE n

Signalled(n, path, values, invalidated) ==
  LET u == Accept(Accept(Accept(Accept(n, path, values, "state"), path, values, "primary"),
                         path, values, "specific"), path, values, "ssid")
  IN public_from_source(Drop(Drop(Drop(Drop(u, invalidated, "state"), invalidated, "primary"),
                                  invalidated, "specific"), invalidated, "ssid"))

\* apply_values, of a reply: what no signal has overtaken.
Take(n, call, values, f) ==
  IF f \in DOMAIN values \ call.stale THEN Accepted(n, f, call.path, values[f]) ELSE n

Answered(n, call, values) ==
  LET u == Take(Take(Take(Take(n, call, values, "state"), call, values, "primary"),
                     call, values, "specific"), call, values, "ssid")
  IN IF DOMAIN values \subseteq call.stale THEN public_from_source(n) ELSE mark_nm_observed(u)

(***************************************************************************)
(* Requests.                                                               *)
(***************************************************************************)
FieldsOf(kind) == CASE kind = "root" -> {"state", "primary"}
                    [] kind = "conn" -> {"specific"} [] kind = "ap" -> {"ssid"}
PathOf(n, kind) == CASE kind = "root" -> None [] kind = "conn" -> n.primary [] kind = "ap" -> n.specific

pending_scope(n, kind, path) ==
  \E c \in ToSet(n.calls) : c.kind = kind /\ c.path = path /\ c.stale \cap FieldsOf(kind) = {}

queue_get_all(n, kind) ==
  LET path == PathOf(n, kind)
  IN IF kind \in n.needs /\ ~pending_scope(n, kind, path) /\ (kind # "root" => path \notin {Unknown, None})
     THEN [n EXCEPT !.needs = @ \ {kind}, !.calls = Append(@, Call(NextId(@), kind, path, n.owner # None))]
     ELSE n

service_needs(n) ==
  IF ~n.bus THEN n
  ELSE IF n.owner = None THEN queue_get_all(n, "root")
  ELSE queue_get_all(queue_get_all(queue_get_all(n, "root"), "conn"), "ap")

handle_owner_reply(n, owner) ==
  IF owner = None THEN [n EXCEPT !.needs = @ \cup {"root"}]
  ELSE LET u == IF n.owner = None THEN reset_nm_values(n) ELSE n
       IN IF n.owner \in {None, owner} THEN [Owned(u, owner) EXCEPT !.needs = @ \cup {"root"}] ELSE n

GetAllFailed(n, call) ==
  IF n.owner = None \/ ~call.owned THEN fallback_to_sysfs(n)
  ELSE IF ~n.authoritative THEN start_sysfs(n) ELSE n

handle_get_all_reply(n, call, sender, values) ==
  LET u == IF n.owner = None THEN Owned(n, sender) ELSE n
  IN IF n.owner \in {None, sender} THEN Answered(u, call, values) ELSE n

owner_changed_signal(n, old, new) ==
  IF n.owner # None /\ old # None /\ n.owner # old THEN n
  ELSE IF new = None THEN fallback_to_sysfs(n)
  ELSE start_sysfs([reset_nm_values(Owned(n, new)) EXCEPT !.needs = @ \cup {"root"}])

\* scope_for and sender_matches: a signal of the owner, about an object of the chain.
properties_signal(n, m) ==
  LET concerns == CASE m.field \in {"state", "primary"} -> TRUE
                    [] m.field = "specific" -> n.primary = m.path
                    [] m.field = "ssid" -> n.specific = m.path
  IN IF n.owner = m.sender /\ concerns THEN Signalled(n, m.path, read_property_dict(m), read_invalidated(m)) ELSE n

Without(n, call) == [n EXCEPT !.calls = Only(@, {c \in ToSet(@) : c.id # call.id})]

(***************************************************************************)
(* NetworkManager and the bus, which keep what they send in order.         *)
(***************************************************************************)
Post(m) == Append(nm.mail, m)
News == nm.news < MaxNews

\* Under a name that was never used.
NmStarts ==
  /\ News /\ nm.owner = None
  /\ nm' = [nm EXCEPT !.owner = nm.born + 1, !.born = @ + 1, !.news = @ + 1,
                      !.mail = Post([kind |-> "owner", old |-> None, new |-> nm.born + 1])]
  /\ UNCHANGED net

NmStops ==
  /\ News /\ nm.owner # None
  /\ nm' = [nm EXCEPT !.owner = None, !.news = @ + 1,
                      !.mail = Post([kind |-> "owner", old |-> nm.owner, new |-> None])]
  /\ UNCHANGED net

\* A property changes; the signal has its value, or says that it is not valid any more.
NmChanges(field, path, value, told) ==
  /\ News /\ nm.owner # None
  /\ LET u == CASE field = "state"    -> [nm EXCEPT !.state = value]
               [] field = "primary"  -> [nm EXCEPT !.primary = value]
               [] field = "specific" -> [nm EXCEPT !.specific[path] = value]
               [] field = "ssid"     -> [nm EXCEPT !.ssid[path] = value]
     IN /\ u # nm
        /\ nm' = [u EXCEPT !.news = @ + 1,
                           !.mail = Post([kind |-> "changed", sender |-> nm.owner, field |-> field, path |-> path,
                                          value |-> value, told |-> told])]
  /\ UNCHANGED net

LinkChanges(link) ==
  /\ News /\ nm.link # link
  /\ nm' = [nm EXCEPT !.link = link, !.news = @ + 1]
  /\ UNCHANGED net

Values(kind, path) ==
  CASE kind = "root" -> [state |-> nm.state, primary |-> nm.primary]
    [] kind = "conn" -> [specific |-> nm.specific[path]]
    [] kind = "ap"   -> [ssid |-> nm.ssid[path]]

\* NetworkManager answers in the order it is asked; the daemon on its own.
Answers(i) ==
  LET c == net.calls[i]
  IN /\ c.waits
     /\ c.kind = "owner" \/ \A j \in 1 .. i - 1 : ~net.calls[j].waits \/ net.calls[j].kind = "owner"
     /\ nm' = [nm EXCEPT !.mail =
                 Post(IF c.kind = "owner" THEN [kind |-> "reply", id |-> c.id, sender |-> nm.owner]
                      ELSE IF nm.owner = None THEN [kind |-> "error", id |-> c.id]
                      ELSE [kind |-> "reply", id |-> c.id, sender |-> nm.owner, values |-> Values(c.kind, c.path)])]
     /\ net' = [net EXCEPT !.calls[i].waits = FALSE]

(***************************************************************************)
(* The service's turns.  A reply to a call that was cancelled is dropped.  *)
(***************************************************************************)
Live(mail, n) ==
  Only(mail, {m \in ToSet(mail) :
                m.kind \in {"reply", "error"} => \E c \in ToSet(n.calls) : c.id = m.id /\ ~c.waits})

Turn(u, mail) ==
  /\ net' = service_needs(u)
  /\ nm' = [nm EXCEPT !.mail = Live(mail, u)]

async_reply(m) ==
  LET call == CHOOSE c \in ToSet(net.calls) : c.id = m.id
      n == Without(net, call)
  IN CASE m.kind = "error" -> [GetAllFailed(n, call) EXCEPT !.missed = TRUE]
       [] m.kind = "reply" /\ call.kind = "owner" -> handle_owner_reply(n, m.sender)
       [] OTHER -> handle_get_all_reply(n, call, m.sender, m.values)

tomoe_network_poll ==
  /\ net.bus /\ nm.mail # <<>>
  /\ LET m == Head(nm.mail)
     IN Turn(CASE m.kind = "owner"   -> [owner_changed_signal(net, m.old, m.new) EXCEPT !.missed = FALSE]
               [] m.kind = "changed" -> properties_signal(net, m)
               [] OTHER              -> async_reply(m), Tail(nm.mail))

\* A request that is not answered in time fails; an owner that is not found is asked for.
TimesOut(i) ==
  LET c == net.calls[i]
      n == Without(net, c)
      u == IF c.kind = "owner" THEN handle_owner_reply(n, None) ELSE [GetAllFailed(n, c) EXCEPT !.missed = TRUE]
  IN /\ nm.failed < MaxFailed
     /\ net' = service_needs(u)
     /\ nm' = [nm EXCEPT !.failed = @ + 1, !.mail = Live(@, u)]

SysfsPolled ==
  /\ net.sysfs
  /\ net' = read_sysfs(net)
  /\ UNCHANGED nm

disconnect_bus ==
  /\ net.bus /\ News
  /\ net' = fallback_to_sysfs([net EXCEPT !.bus = FALSE, !.calls = <<>>])
  /\ nm' = [nm EXCEPT !.mail = <<>>, !.news = @ + 1]

Changes ==
  \E told \in BOOLEAN :
    \/ \E on \in BOOLEAN : NmChanges("state", None, on, told)
    \/ \E p \in Conns \cup {None} : NmChanges("primary", None, p, told)
    \/ \E p \in Conns, a \in Aps \cup {None} : NmChanges("specific", p, a, told)
    \/ \E a \in Aps, s \in {1, 2} : NmChanges("ssid", a, s, told)

NetworkNext ==
  \/ NmStarts \/ NmStops \/ Changes
  \/ \E link \in {"up", "down", "gone"} : LinkChanges(link)
  \/ \E i \in DOMAIN net.calls : Answers(i) \/ TimesOut(i)
  \/ tomoe_network_poll \/ SysfsPolled \/ disconnect_bus

NetworkSpec == NetworkInit /\ [][NetworkNext]_netVars

(***************************************************************************)
(* Properties.                                                             *)
(***************************************************************************)
Ssid == IF nm.primary = None \/ nm.specific[nm.primary] = None THEN None ELSE nm.ssid[nm.specific[nm.primary]]
Settled == nm.mail = <<>> /\ net.calls = <<>>

\* What is known of the chain is of this chain: a late answer about the connection
\* or the access point before is not taken for one about the present one.
ChainIsWhole ==
  /\ net.specific # Unknown => net.specificOf = net.primary
  /\ net.ssid # Unknown => net.ssidOf = net.specific

\* Whatever signals overtook which replies: once everything sent has been read and
\* every request answered, the policy is told what NetworkManager says, or of /sys
\* when it is not there.  A request that failed may leave something unknown, and
\* then less is shown, never what was true before.
SettledIsTold ==
  Settled =>
    IF ~net.bus \/ nm.owner = None THEN ~net.authoritative /\ net.shown = None
    ELSE /\ net.owner = nm.owner \/ net.missed
         /\ ~net.missed => /\ net.connected = nm.state
                           /\ net.shown = IF nm.state THEN Ssid ELSE None
         /\ net.authoritative /\ net.connected => nm.state
         /\ net.shown \in {None, Ssid}

NetworkIsTold == ChainIsWhole /\ SettledIsTold
=============================================================================
