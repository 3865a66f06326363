-------------------------------- MODULE Tray --------------------------------
(***************************************************************************)
(* The status notifier watcher (support/tray.c).  Applications register    *)
(* items under a name of theirs; the service asks who owns the name, tells *)
(* the hosts of the item, reads its properties from the owner, and follows *)
(* names and properties by signals.                                        *)
(*                                                                         *)
(* An item is known by its name (all have the default path), and has one   *)
(* property, the title: id, status and icon are kept the same way.         *)
(* Epochs, incarnations and serial numbers appear as what they decide:     *)
(* which replies are still taken.                                          *)
(***************************************************************************)
EXTENDS Naturals, Sequences, FiniteSets, SequencesExt

CONSTANTS
  Names,      \* the names items are registered under
  Apps,       \* applications, by their unique names
  MaxItems,   \* TRAY_MAX_ITEMS
  MaxActs,    \* bound: what applications do
  MaxExpired, \* bound: requests that time out
  NoApp       \* no owner

VARIABLES
  apps, \* the applications and the bus, with what was sent and is not read
  tray  \* the service: struct tomoe_tray

trayVars == <<apps, tray>>

\* missed: history, a request for the properties failed since the last signal.
NoItem == [used |-> FALSE, owner |-> NoApp, needOwner |-> FALSE, needAll |-> FALSE, title |-> 0, missed |-> FALSE]

\* hosts: the items that hosts of the tray were told of.
TrayInit ==
  /\ apps = [owner |-> [n \in Names |-> CHOOSE o \in Apps : TRUE], title |-> [o \in Apps |-> 1],
             mail |-> <<>>, acts |-> 0, expired |-> 0]
  /\ tray = [items |-> [n \in Names |-> NoItem], calls |-> <<>>, hosts |-> {}, bus |-> TRUE]

(***************************************************************************)
(* The service's tables.  t is the service, the result what it becomes.    *)
(***************************************************************************)
Used(t) == {n \in Names : t.items[n].used}

cancel_item_calls(t, n) == [t EXCEPT !.calls = SelectSeq(@, LAMBDA c : c.item # n)]

\* Only an item that had an owner was announced.
remove_item(t, n) == [cancel_item_calls(t, n) EXCEPT !.items[n] = NoItem, !.hosts = @ \ {n}]

\* Requests of before the new incarnation are not taken any more.
attach_owner(t, n, owner) ==
  LET u == IF t.items[n].owner # NoApp THEN cancel_item_calls(t, n)
           ELSE [t EXCEPT !.calls = [i \in DOMAIN @ |-> IF @[i].item = n THEN [@[i] EXCEPT !.stale = TRUE] ELSE @[i]]]
  IN IF t.items[n].owner = owner THEN t
     ELSE [u EXCEPT !.items[n] = [NoItem EXCEPT !.used = TRUE, !.owner = owner, !.needAll = TRUE],
                    !.hosts = @ \cup {n}]

FreshId(t) == CHOOSE i \in 1 .. Len(t.calls) + 1 : \A c \in ToSet(t.calls) : c.id # i

\* stale: its values are overtaken; last: no signal came since it was sent.
queue_call(t, kind, n) ==
  [t EXCEPT !.calls = Append(@, [id |-> FreshId(t), kind |-> kind, item |-> n, waits |-> TRUE,
                                 stale |-> FALSE, last |-> TRUE])]

queue_owner(t, n) == [queue_call(t, "owner", n) EXCEPT !.items[n].needOwner = FALSE]

pending_duplicate(t, n) == \E c \in ToSet(t.calls) : c.kind = "all" /\ c.item = n /\ c.last
queue_get_all(t, n) ==
  IF pending_duplicate(t, n) THEN t ELSE [queue_call(t, "all", n) EXCEPT !.items[n].needAll = FALSE]

service_needs(t) ==
  FoldLeft(LAMBDA u, n : LET v == IF u.items[n].needOwner THEN queue_owner(u, n) ELSE u
                         IN IF v.items[n].owner # NoApp /\ v.items[n].needAll THEN queue_get_all(v, n) ELSE v,
           t, SetToSeq(Used(t)))

(***************************************************************************)
(* Messages.                                                               *)
(***************************************************************************)
method_register_item(t, n) ==
  IF t.items[n].used \/ Cardinality(Used(t)) >= MaxItems THEN t
  ELSE [t EXCEPT !.items[n] = [NoItem EXCEPT !.used = TRUE, !.needOwner = TRUE]]

name_owner_signal(t, n, old, new) ==
  LET own == t.items[n].owner
  IN IF ~t.items[n].used \/ (old # NoApp /\ own # NoApp /\ own # old) THEN t
     ELSE IF new = NoApp THEN remove_item(t, n) ELSE attach_owner(t, n, new)

\* Something of an application's item is new: what is being read is too old, and all
\* of it is read again.  A signal of the tooltip says nothing of the title.
Refresh(t, n, title) ==
  [t EXCEPT !.items[n].needAll = TRUE, !.items[n].missed = FALSE,
            !.calls = [i \in DOMAIN @ |-> IF @[i].item # n THEN @[i]
                                          ELSE [@[i] EXCEPT !.last = FALSE, !.stale = @ \/ title]]]

Matching(t, owner) == {n \in Used(t) : t.items[n].owner = owner}

item_signal(t, owner, title) == FoldLeft(LAMBDA u, n : Refresh(u, n, title), t, SetToSeq(Matching(t, owner)))

\* The title that a signal has, or none (0) if it says that it is not valid any more.
read_item_dict(m) == IF m.kind = "changed" THEN m.title ELSE 0

properties_signal(t, m) ==
  FoldLeft(LAMBDA u, n : [Refresh(u, n, TRUE) EXCEPT !.items[n].title = read_item_dict(m)],
           t, SetToSeq(Matching(t, m.owner)))

handle_owner_reply(t, call, owner) ==
  IF call.stale THEN t ELSE IF owner = NoApp THEN remove_item(t, call.item) ELSE attach_owner(t, call.item, owner)

\* An application answers in order, so what was asked for earlier (title_read) does
\* not come after it.
handle_get_all_reply(t, call, ok, title) ==
  IF ~ok THEN [t EXCEPT !.items[call.item].missed = TRUE]
  ELSE IF call.stale THEN t
  ELSE [t EXCEPT !.items[call.item].title = title, !.items[call.item].missed = FALSE]

(***************************************************************************)
(* The applications and the bus.                                           *)
(***************************************************************************)
Acts(a) == apps.acts < MaxActs /\ apps' = [a EXCEPT !.acts = @ + 1] /\ UNCHANGED tray
Sent(a, m) == [a EXCEPT !.mail = Append(@, m)]
NameMoves(a, n, new) == Sent([a EXCEPT !.owner[n] = new], [kind |-> "moved", name |-> n, old |-> a.owner[n], new |-> new])

Registers(n) == Acts(Sent(apps, [kind |-> "register", name |-> n]))
NameChanges(n, new) == apps.owner[n] # new /\ Acts(NameMoves(apps, n, new))

\* The title changes, and the signal has none, the title, or says it is invalid.
TitleChanges(o, told) ==
  Acts(Sent([apps EXCEPT !.title[o] = 3 - @], [kind |-> told, owner |-> o, title |-> 3 - apps.title[o]]))
TooltipChanges(o) == Acts(Sent(apps, [kind |-> "tooltip", owner |-> o]))

\* The daemon and each application answer in the order they are asked.
Asked(c) == IF c.kind = "owner" THEN NoApp ELSE tray.items[c.item].owner
AnswersCall(i) ==
  LET c == tray.calls[i]
      o == tray.items[c.item].owner
  IN /\ c.waits /\ \A j \in 1 .. i - 1 : tray.calls[j].waits => Asked(tray.calls[j]) # Asked(c)
     /\ apps' = Sent(apps, [kind |-> "reply", id |-> c.id, owner |-> apps.owner[c.item],
                            title |-> IF c.kind = "all" THEN apps.title[o] ELSE 0])
     /\ tray' = [tray EXCEPT !.calls[i].waits = FALSE]

(***************************************************************************)
(* The service's turns.  A reply to a call that was cancelled is dropped.  *)
(***************************************************************************)
Live(mail, t) == SelectSeq(mail, LAMBDA m : m.kind = "reply" => \E c \in ToSet(t.calls) : c.id = m.id /\ ~c.waits)

async_reply(call, ok, m) ==
  LET t == [tray EXCEPT !.calls = SelectSeq(@, LAMBDA c : c.id # call.id)]
  IN IF call.kind = "owner" THEN handle_owner_reply(t, call, m.owner)
     ELSE handle_get_all_reply(t, call, ok, m.title)

Turn(t, mail) == tray' = service_needs(t) /\ apps' = [apps EXCEPT !.mail = Live(mail, t)]

tomoe_tray_poll ==
  /\ tray.bus /\ apps.mail # <<>>
  /\ LET m == Head(apps.mail)
     IN Turn(CASE m.kind = "register" -> method_register_item(tray, m.name)
               [] m.kind = "moved"    -> name_owner_signal(tray, m.name, m.old, m.new)
               [] m.kind = "title"    -> item_signal(tray, m.owner, TRUE)
               [] m.kind = "tooltip"  -> item_signal(tray, m.owner, FALSE)
               [] m.kind \in {"changed", "invalid"} -> properties_signal(tray, m)
               [] m.kind = "reply"    -> async_reply(CHOOSE c \in ToSet(tray.calls) : c.id = m.id, TRUE, m),
             Tail(apps.mail))

\* expire_calls: an item whose owner is not known in time is forgotten.
Expires(i) ==
  LET c == tray.calls[i]
      t == IF c.kind = "owner" /\ c.stale THEN [tray EXCEPT !.calls = SelectSeq(@, LAMBDA x : x.id # c.id)]
           ELSE async_reply(c, FALSE, [owner |-> NoApp, title |-> 0])
  IN /\ tray.bus /\ apps.expired < MaxExpired
     /\ tray' = service_needs(t)
     /\ apps' = [apps EXCEPT !.expired = @ + 1,
                             !.mail = SelectSeq(Live(@, t), LAMBDA m : m.kind = "reply" => m.id # c.id)]

\* The bus fails: the items are gone, and the service is closed.
mark_failed ==
  /\ tray.bus /\ apps.acts < MaxActs
  /\ tray' = [items |-> [n \in Names |-> NoItem], calls |-> <<>>, hosts |-> {}, bus |-> FALSE]
  /\ apps' = [apps EXCEPT !.mail = <<>>, !.acts = @ + 1]

TrayNext ==
  \/ \E n \in Names : Registers(n) \/ \E new \in Apps \cup {NoApp} : NameChanges(n, new)
  \/ \E o \in Apps : TooltipChanges(o) \/ \E told \in {"title", "changed", "invalid"} : TitleChanges(o, told)
  \/ \E i \in DOMAIN tray.calls : AnswersCall(i) \/ Expires(i)
  \/ tomoe_tray_poll \/ mark_failed

(***************************************************************************)
(* Property.                                                               *)
(***************************************************************************)
\* Hosts are told of every item that has an owner, and of none that is gone; and
\* whatever came in between, once everything that was sent has been read and answered
\* each item has its name's present owner and that one's present title.
TrayIsTold ==
  /\ tray.hosts = {n \in Names : tray.items[n].owner # NoApp}
  /\ apps.mail = <<>> /\ tray.calls = <<>> =>
       \A n \in Used(tray) : /\ tray.items[n].owner = apps.owner[n] /\ apps.owner[n] # NoApp
                             /\ tray.items[n].missed \/ tray.items[n].title = apps.title[apps.owner[n]]
=============================================================================
