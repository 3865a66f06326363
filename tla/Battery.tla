------------------------------- MODULE Battery -------------------------------
(***************************************************************************)
(* The battery service (support/battery.c): what the policy is told of the *)
(* battery, from UPower over D-Bus or, while there is none, from /sys.     *)
(*                                                                         *)
(* A battery is present or not and has a level; that it charges is kept    *)
(* like the level and left out.  The epochs of its two properties are kept *)
(* as the set, with each request, of those that a signal has overtaken.    *)
(***************************************************************************)
EXTENDS Lists, FiniteSets, SequencesExt

CONSTANTS
  Levels,        \* levels of the battery
  MaxEvents,     \* bound: changes of UPower, of /sys and of the bus
  MaxUnanswered, \* bound: requests that time out
  Full,          \* the level when it is not known, and when there is no battery
  None           \* no owner, no battery

ASSUME BatteryAssumption == None \notin Nat

VARIABLES
  upower,  \* UPower, the bus and /sys, with what was sent and is not read
  battery  \* the service: struct tomoe_battery

batteryVars == <<upower, battery>>

NoBattery == [present |-> FALSE, level |-> None]

\* missed: history, a request about this owner failed; lost: a look at /sys found no
\* battery.
tomoe_battery_open ==
  [bus |-> TRUE, owner |-> None, authoritative |-> FALSE, raw |-> NoBattery,
   sysfs |-> FALSE, sysfsRaw |-> NoBattery, needAll |-> FALSE,
   calls |-> <<[id |-> 1, kind |-> "owner", waits |-> TRUE, stale |-> {}]>>,
   shown |-> [available |-> FALSE, level |-> Full], missed |-> FALSE, lost |-> FALSE]

(***************************************************************************)
(* What the policy is told.  b is the service, the result what it becomes. *)
(***************************************************************************)
Public(values) ==
  IF ~values.present THEN [available |-> FALSE, level |-> Full]
  ELSE [available |-> TRUE, level |-> IF values.level = None THEN Full ELSE values.level]

public_from_raw(b) == [b EXCEPT !.shown = Public(IF b.authoritative THEN b.raw ELSE b.sysfsRaw)]

read_sysfs(b) ==
  LET found == upower.supply # None
  IN public_from_raw([b EXCEPT !.sysfs = found, !.lost = @ \/ ~found,
                               !.sysfsRaw = IF found THEN [present |-> TRUE, level |-> upower.supply] ELSE NoBattery])

start_sysfs(b) == read_sysfs([b EXCEPT !.authoritative = FALSE, !.lost = FALSE])

\* Started with a bus, whose daemon is asked for the owner, or without one.
BatteryInit ==
  \E owner \in {None, 1}, level \in Levels :
    /\ upower = [owner |-> owner, values |-> [present |-> TRUE, level |-> level],
                 supply |-> level, mail |-> <<>>, born |-> 1, events |-> 0, failed |-> 0]
    /\ battery \in {tomoe_battery_open, start_sysfs([tomoe_battery_open EXCEPT !.bus = FALSE, !.calls = <<>>])}

\* Another owner, or none: no request of before is current.
NewOwner(b, owner) == [b EXCEPT !.owner = owner, !.calls = <<>>]

clear_upower(b) ==
  public_from_raw([NewOwner(b, None) EXCEPT !.raw = NoBattery, !.sysfsRaw = NoBattery,
                                            !.needAll = FALSE, !.authoritative = FALSE])

fallback_to_sysfs(b) == start_sysfs(clear_upower(b))

reset_upower_values(b) ==
  public_from_raw([b EXCEPT !.raw = NoBattery, !.sysfsRaw = NoBattery, !.authoritative = FALSE, !.sysfs = FALSE])

queue_get_all(b) ==
  IF b.bus /\ b.needAll
  THEN [b EXCEPT !.needAll = FALSE,
                 !.calls = Append(@, [id |-> NextId(@), kind |-> "all", waits |-> TRUE, stale |-> {}])]
  ELSE b

(***************************************************************************)
(* Messages.                                                               *)
(***************************************************************************)
Late(call, fields) == [call EXCEPT !.stale = @ \cup fields]
Overtaken(b, fields) == [b EXCEPT !.calls = [i \in DOMAIN @ |-> Late(@[i], fields)]]

\* What a signal says: the values it has, and the properties it has none for.
read_property_dict(m) == [f \in IF m.told THEN {m.field} ELSE {} |-> m.value]

\* Mutant: a property that has no value any more is left as it was.
read_invalidated_Ignored(m) == {}

read_invalidated(m) == IF m.told THEN {} ELSE {m.field}

apply_signal_values(b, values, invalidated) ==
  LET u == Overtaken(b, DOMAIN values \cup invalidated)
      v == [u EXCEPT !.raw = [f \in DOMAIN @ |-> IF f \in DOMAIN values THEN values[f] ELSE @[f]],
                     !.needAll = @ \/ invalidated # {},
                     !.authoritative = @ \/ DOMAIN values # {}]
  IN public_from_raw([v EXCEPT !.sysfs = @ /\ ~v.authoritative])

properties_signal(b, m) ==
  IF b.owner = m.sender THEN apply_signal_values(b, read_property_dict(m), read_invalidated(m)) ELSE b

owner_changed_signal(b, old, new) ==
  LET u == [b EXCEPT !.missed = FALSE]
  IN IF b.owner # None /\ old # None /\ b.owner # old THEN b
     ELSE IF new = None THEN fallback_to_sysfs(u)
     ELSE queue_get_all([NewOwner(reset_upower_values(u), new) EXCEPT !.needAll = TRUE])

\* An owner that is not found is asked all the same, which starts it.
handle_owner_reply(b, ok, owner) ==
  LET u == IF b.owner = None THEN reset_upower_values(b) ELSE b
  IN IF ~ok THEN queue_get_all([b EXCEPT !.needAll = TRUE])
     ELSE IF b.owner \notin {None, owner} THEN b
     ELSE queue_get_all([NewOwner(u, owner) EXCEPT !.needAll = TRUE])

\* The values that no signal, and no later request, has overtaken.
handle_get_all_reply(b, call, ok, sender, values) ==
  LET u == IF b.owner = None THEN NewOwner(reset_upower_values(b), sender) ELSE b
      v == [u EXCEPT !.raw = [f \in DOMAIN @ |-> IF f \in call.stale THEN @[f] ELSE values[f]],
                     !.authoritative = TRUE, !.sysfs = FALSE]
  IN IF ~ok THEN [IF b.authoritative THEN b ELSE start_sysfs(b) EXCEPT !.missed = TRUE]
     ELSE IF b.owner \notin {None, sender} THEN b
     ELSE queue_get_all(public_from_raw(v))

(***************************************************************************)
(* UPower, the bus, which keeps what is sent in order, and /sys.           *)
(***************************************************************************)
Happens(u) == upower.events < MaxEvents /\ u # upower /\ upower' = [u EXCEPT !.events = @ + 1] /\ UNCHANGED battery
Sent(u, m) == [u EXCEPT !.mail = Append(@, m)]

UPowerStarts ==
  /\ upower.owner = None
  /\ Happens(Sent([upower EXCEPT !.owner = upower.born + 1, !.born = @ + 1],
                  [kind |-> "owner", old |-> None, new |-> upower.born + 1]))

UPowerStops ==
  /\ upower.owner # None
  /\ Happens(Sent([upower EXCEPT !.owner = None], [kind |-> "owner", old |-> upower.owner, new |-> None]))

BatteryChanges(field, value, told) ==
  /\ upower.owner # None /\ upower.values[field] # value
  /\ Happens(Sent([upower EXCEPT !.values[field] = value],
                  [kind |-> "changed", sender |-> upower.owner, field |-> field, value |-> value, told |-> told]))

SupplyChanges(supply) == Happens([upower EXCEPT !.supply = supply])

\* UPower answers in the order it is asked; the daemon on its own.
Answers(i) ==
  LET c == battery.calls[i]
  IN /\ c.waits
     /\ c.kind = "all" => \A j \in 1 .. i - 1 : ~battery.calls[j].waits \/ battery.calls[j].kind = "owner"
     /\ upower' = Sent(upower, [kind |-> "reply", id |-> c.id, ok |-> upower.owner # None,
                                sender |-> upower.owner, values |-> upower.values])
     /\ battery' = [battery EXCEPT !.calls[i].waits = FALSE]

(***************************************************************************)
(* The service's turns.                                                    *)
(***************************************************************************)
Live(mail, b) ==
  Only(mail, {m \in ToSet(mail) : m.kind = "reply" => \E c \in ToSet(b.calls) : c.id = m.id /\ ~c.waits})

Without(b, call) == [b EXCEPT !.calls = Only(@, {c \in ToSet(@) : c.id # call.id})]

async_reply(call, ok, m) ==
  IF call.kind = "owner" THEN handle_owner_reply(Without(battery, call), ok, m.sender)
  ELSE handle_get_all_reply(Without(battery, call), call, ok, m.sender, m.values)

Turn(b, mail) == battery' = queue_get_all(b) /\ upower' = [upower EXCEPT !.mail = Live(mail, queue_get_all(b))]

tomoe_battery_poll ==
  /\ battery.bus /\ upower.mail # <<>>
  /\ LET m == Head(upower.mail)
     IN Turn(CASE m.kind = "owner"   -> owner_changed_signal(battery, m.old, m.new)
               [] m.kind = "changed" -> properties_signal(battery, m)
               [] m.kind = "reply"   -> async_reply(CHOOSE c \in ToSet(battery.calls) : c.id = m.id, m.ok, m),
             Tail(upower.mail))

\* A request is not answered in time: sd-bus gives it an error.
TimesOut(i) ==
  LET c == battery.calls[i]
      b == async_reply(c, FALSE, [sender |-> None, values |-> NoBattery])
  IN /\ upower.failed < MaxUnanswered
     /\ battery' = b
     /\ upower' = [upower EXCEPT !.failed = @ + 1, !.mail = Live(@, b)]

SysfsPolled ==
  /\ battery.sysfs
  /\ battery' = read_sysfs(battery)
  /\ UNCHANGED upower

disconnect_bus ==
  /\ battery.bus /\ upower.events < MaxEvents
  /\ battery' = fallback_to_sysfs([battery EXCEPT !.bus = FALSE])
  /\ upower' = [upower EXCEPT !.mail = <<>>, !.events = @ + 1]

BatteryNext ==
  \/ UPowerStarts \/ UPowerStops \/ tomoe_battery_poll \/ SysfsPolled \/ disconnect_bus
  \/ \E supply \in Levels \cup {None} : SupplyChanges(supply)
  \/ \E told \in BOOLEAN : \/ \E present \in BOOLEAN : BatteryChanges("present", present, told)
                           \/ \E level \in Levels : BatteryChanges("level", level, told)
  \/ \E i \in DOMAIN battery.calls : Answers(i) \/ TimesOut(i)

BatterySpec == BatteryInit /\ [][BatteryNext]_batteryVars

(***************************************************************************)
(* Property.                                                               *)
(***************************************************************************)
\* Whatever signals overtook which replies: once everything sent has been read and
\* every request answered, the policy is told what UPower says of the battery; of
\* /sys when UPower is not there, and that as long as /sys has a battery.
BatteryIsTold ==
  upower.mail = <<>> /\ battery.calls = <<>> =>
    IF ~battery.bus \/ upower.owner = None
    THEN /\ ~battery.authoritative
         /\ upower.supply # None /\ ~battery.lost => battery.sysfs /\ battery.shown.available
    ELSE /\ battery.owner = upower.owner \/ battery.missed
         /\ ~battery.missed => battery.authoritative /\ battery.shown = Public(upower.values)
=============================================================================
