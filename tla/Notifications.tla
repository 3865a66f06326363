---------------------------- MODULE Notifications ----------------------------
(***************************************************************************)
(* The notification service (support/notifications.c).  Applications send  *)
(* Notify and CloseNotification over the session bus; the service keeps    *)
(* what is shown, gives it numbers that come round (2^32 of them, MaxId    *)
(* here), and tells everyone when a notification is gone.                  *)
(*                                                                         *)
(* Texts, hints and actions, which are only checked for length and kept,   *)
(* are left out; a message that fails those checks is refused.             *)
(***************************************************************************)
EXTENDS Naturals, Sequences, FiniteSets, SequencesExt

CONSTANTS
  MaxId,      \* the largest number, UINT32_MAX
  MaxRecords  \* NOTIFICATION_MAX_RECORDS

VARIABLES
  notes, \* struct tomoe_notifications
  open   \* history: the numbers that applications know of and were not told to be gone

notesVars == <<notes, open>>

\* A notification goes by itself in time (timed), and that time has come (due).
Record(id, timed) == [id |-> id, timed |-> timed, due |-> FALSE]

NotificationsInit ==
  /\ notes = [records |-> <<>>, next |-> 0, bus |-> TRUE]
  /\ open = {}

Shown == {r.id : r \in ToSet(notes.records)}

\* The first number after the last one given that is not in use.
allocate_id ==
  LET after(k) == ((notes.next + k - 1) % MaxId) + 1
      k == CHOOSE k \in 1 .. MaxId : after(k) \notin Shown /\ \A j \in 1 .. k - 1 : after(j) \in Shown
  IN after(k)

erase_record(records, id) == SelectSeq(records, LAMBDA r : r.id # id)

\* expire_due, and what is told of it.
Due(n) == {r.id : r \in {x \in ToSet(n.records) : x.due}}
expire_due(n, known) ==
  /\ notes' = [n EXCEPT !.records = SelectSeq(@, LAMBDA r : ~r.due)]
  /\ open' = known \ Due(n)

\* A turn in which no message comes; otherwise a message is dealt with, and then
\* what is due goes.
tomoe_notifications_poll == notes.bus /\ Due(notes) # {} /\ expire_due(notes, open)

\* A notification, in place of another if that is there, and then under its number;
\* under the number it names even if that is not there.
method_notify(replaces, timed) ==
  LET id == IF replaces # 0 THEN replaces ELSE allocate_id
  IN /\ notes.bus
     /\ replaces \in Shown \/ Len(notes.records) < MaxRecords
     /\ expire_due([notes EXCEPT !.records = Append(erase_record(@, replaces), Record(id, timed)),
                                 !.next = IF replaces # 0 THEN @ ELSE id], open \cup {id})

method_close_notification(id) ==
  /\ notes.bus /\ id \in Shown
  /\ expire_due([notes EXCEPT !.records = erase_record(@, id)], open \ {id})

\* The bus fails: nothing is shown any more, and nobody can be told.
mark_bus_failed ==
  /\ notes.bus
  /\ notes' = [notes EXCEPT !.records = <<>>, !.bus = FALSE]
  /\ UNCHANGED open

TimePasses(i) ==
  /\ notes.records[i].timed /\ ~notes.records[i].due
  /\ notes' = [notes EXCEPT !.records[i].due = TRUE]
  /\ UNCHANGED open

NotificationsNext ==
  \/ \E replaces \in 0 .. MaxId, timed \in BOOLEAN : method_notify(replaces, timed)
  \/ \E id \in 1 .. MaxId : method_close_notification(id)
  \/ tomoe_notifications_poll \/ mark_bus_failed
  \/ \E i \in DOMAIN notes.records : TimePasses(i)

(***************************************************************************)
(* Property.                                                               *)
(***************************************************************************)
\* Applications know of the notifications that are shown, and no others: each that
\* goes, by itself, when it is closed or replaced, is told of exactly when it does,
\* and no two have one number, after the numbers have come round and though an
\* application may name one that was never given.
NotificationsAreTold ==
  /\ notes.bus => open = Shown
  /\ Cardinality(Shown) = Len(notes.records) /\ Len(notes.records) <= MaxRecords
=============================================================================
