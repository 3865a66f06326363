-------------------------------- MODULE Mpris --------------------------------
(***************************************************************************)
(* The media player service (support/mpris.c).  A player is a process on   *)
(* the session bus that owns one or more of the well-known names; the      *)
(* service learns the names (aliases), asks who owns each, asks each owner *)
(* for its properties, and follows the signals of names and players.       *)
(*                                                                         *)
(* A player has a status, a track and a position; its volume, which is     *)
(* kept like the status, is left out.  A position is the number of the     *)
(* last jump, by which a track or a seek began.  Epochs, generations and   *)
(* request numbers appear as what they decide: which values of a reply     *)
(* have been overtaken (stale).                                            *)
(***************************************************************************)
EXTENDS Naturals, Sequences, FiniteSets, SequencesExt

CONSTANTS
  Aliases,   \* the well-known names
  Players,   \* the processes, by their unique names
  MaxJumps,  \* bound: changes of the players and their names
  MaxBusy,   \* bound: messages and requests under way when there is a change
  MaxLate,   \* bound: requests that time out
  Nobody     \* no owner

VARIABLES
  players, \* the players and the bus, with the messages that are not read
  mpris    \* the service: struct tomoe_mpris

mprisVars == <<players, mpris>>

Fields == {"status", "track", "position"}

\* A request, to whom (a name, a player, or the bus), unanswered at first.
Request(id, kind, to) == [id |-> id, kind |-> kind, to |-> to, waits |-> TRUE, stale |-> {}]

NoPlayer == [used |-> FALSE, playing |-> FALSE, track |-> 0, position |-> 0,
             needAll |-> FALSE, needPosition |-> FALSE, missed |-> FALSE]
NoAlias  == [used |-> FALSE, owner |-> Nobody, need |-> FALSE, missed |-> FALSE]

\* At first one player runs, under one name.  recent: the players from the one that
\* was touched last (activity).
MprisInit ==
  /\ players = [owner |-> [a \in Aliases |-> IF a = CHOOSE x \in Aliases : TRUE THEN CHOOSE o \in Players : TRUE
                                             ELSE Nobody],
                playing |-> [o \in Players |-> FALSE], track |-> [o \in Players |-> 1],
                position |-> [o \in Players |-> 0], gone |-> {}, mail |-> <<>>, jumps |-> 0, late |-> 0]
  /\ mpris = [alias |-> [a \in Aliases |-> NoAlias], player |-> [o \in Players |-> NoPlayer],
              recent |-> <<>>, calls |-> <<Request(1, "names", Nobody)>>]

(***************************************************************************)
(* The service's tables.  m is the service, the result what it becomes.    *)
(***************************************************************************)
FreshId(m) == CHOOSE i \in 1 .. Len(m.calls) + 1 : \A c \in ToSet(m.calls) : c.id # i
queue_call(m, kind, to) == [m EXCEPT !.calls = Append(@, Request(FreshId(m), kind, to))]

Overtake(m, to, fields) ==
  [m EXCEPT !.calls = [i \in DOMAIN @ |-> IF @[i].to = to THEN [@[i] EXCEPT !.stale = @ \cup fields] ELSE @[i]]]

queue_get_owner(m, a) ==
  IF \E c \in ToSet(m.calls) : c.kind = "owner" /\ c.to = a /\ c.stale = {} THEN m
  ELSE [queue_call(m, "owner", a) EXCEPT !.alias[a].need = FALSE]

queue_get_all(m, o) == [queue_call(m, "all", o) EXCEPT !.player[o].needAll = FALSE]

\* Only the last request for the position counts (position_request).
queue_position(m, o) ==
  LET earlier == [m EXCEPT !.calls = [i \in DOMAIN @ |-> IF @[i].kind = "position" /\ @[i].to = o
                                                         THEN [@[i] EXCEPT !.stale = {"position"}] ELSE @[i]]]
  IN [queue_call(earlier, "position", o) EXCEPT !.player[o].needPosition = FALSE]

Owned(m, o) == {a \in Aliases : m.alias[a].owner = o}
Forgotten(seq, o) == SelectSeq(seq, LAMBDA x : x # o)
touch_player(m, o) == [m EXCEPT !.recent = <<o>> \o Forgotten(@, o)]

remove_player(m, o) ==
  Overtake([m EXCEPT !.player[o] = NoPlayer, !.recent = Forgotten(@, o)], o, Fields)

remove_alias_from_player(m, a) ==
  LET o == m.alias[a].owner
      u == [m EXCEPT !.alias[a].owner = Nobody]
  IN IF o # Nobody /\ Owned(u, o) = {} THEN remove_player(u, o) ELSE u

create_alias(m, a) == IF m.alias[a].used THEN m ELSE [m EXCEPT !.alias[a] = [NoAlias EXCEPT !.used = TRUE, !.need = TRUE]]
retire_alias(m, a) == [remove_alias_from_player(m, a) EXCEPT !.alias[a] = NoAlias]

attach_alias(m, a, o) ==
  LET u == [m EXCEPT !.alias[a].need = FALSE]
      v == [remove_alias_from_player(u, a) EXCEPT !.alias[a].owner = o]
  IN IF m.alias[a].owner = o THEN u
     ELSE IF Owned(v, o) # {a} THEN v
     ELSE touch_player([v EXCEPT !.player[o] = [NoPlayer EXCEPT !.used = TRUE, !.needAll = TRUE]], o)

\* A name's owner is known: its properties are asked for if it is its only name.
Attached(m, a, o) ==
  LET u == attach_alias(m, a, o)
  IN IF ~m.player[o].used \/ Owned(u, o) = {a} THEN queue_get_all(u, o) ELSE u

(***************************************************************************)
(* Messages.                                                               *)
(***************************************************************************)
name_owner_signal(m, a, old, new) ==
  LET u == Overtake(create_alias(m, a), a, {"owner"})
      v == remove_alias_from_player(u, a)
  IN IF u.alias[a].owner # Nobody /\ u.alias[a].owner # old THEN u
     ELSE IF new = Nobody THEN retire_alias(v, a)
     ELSE Attached([v EXCEPT !.alias[a].need = FALSE, !.alias[a].missed = FALSE], a, new)

Positioned(m, o) == IF m.player[o].needPosition THEN queue_position(m, o) ELSE m
Asked(m, o)      == IF m.player[o].needAll THEN queue_get_all(m, o) ELSE m

\* What a signal says: the values it has, and the properties it has none for.
read_property_dict(x) == [f \in IF x.told THEN {x.field} ELSE {} |-> x.value]
read_invalidated(x)   == IF x.told THEN {} ELSE {x.field}

apply_signal_values(m, o, values, invalidated) ==
  LET u == touch_player(Overtake(m, o, DOMAIN values \cup invalidated \cup {"position"}), o)
      v == IF "status" \in DOMAIN values THEN [u EXCEPT !.player[o].playing = values["status"]] ELSE u
      w == IF "track" \in DOMAIN values THEN [v EXCEPT !.player[o].track = values["track"], !.player[o].position = 0] ELSE v
  IN [w EXCEPT !.player[o].needPosition = TRUE, !.player[o].needAll = @ \/ invalidated # {}]

\* Mutant: the position is not asked for when something else changed.
properties_signal_NoPosition(m, o, values, invalidated) ==
  IF ~m.player[o].used THEN m
  ELSE Asked([apply_signal_values(m, o, values, invalidated) EXCEPT !.player[o].needPosition = FALSE], o)

properties_signal(m, o, values, invalidated) ==
  IF ~m.player[o].used THEN m ELSE Positioned(Asked(apply_signal_values(m, o, values, invalidated), o), o)

seeked_signal(m, o, position) ==
  IF ~m.player[o].used THEN m
  ELSE touch_player([Overtake(m, o, {"position"}) EXCEPT !.player[o].position = position,
                                                         !.player[o].needPosition = FALSE], o)

handle_list_names(m, names) ==
  FoldLeft(LAMBDA u, a : queue_get_owner(create_alias(u, a), a), m, SetToSeq(names))

handle_get_owner(m, call, owner) ==
  IF ~m.alias[call.to].used \/ call.stale # {} THEN m
  ELSE IF owner = Nobody THEN retire_alias(m, call.to)
  ELSE Attached(m, call.to, owner)

handle_get_all(m, call, values) ==
  LET o == call.to
      fresh == Fields \ call.stale
      take(u, f) == IF f \notin fresh THEN u
                    ELSE CASE f = "status" -> [u EXCEPT !.player[o].playing = values.playing]
                           [] f = "track" -> [u EXCEPT !.player[o].track = values.track]
                           [] f = "position" -> [u EXCEPT !.player[o].position = values.position]
      u == take(take(take(m, "status"), "track"), "position")
      asks == "position" \in fresh /\ fresh # {"position"}
  IN IF ~m.player[o].used \/ fresh = {} THEN m
     ELSE Asked(Positioned([u EXCEPT !.player[o].needPosition = @ \/ asks], o), o)

handle_get_position(m, call, position) ==
  LET o == call.to
      takes == ~m.player[o].needPosition /\ "position" \notin call.stale
  IN IF ~m.player[o].used THEN m
     ELSE Positioned([m EXCEPT !.player[o].position = IF takes THEN position ELSE @], o)

\* A request that failed: what it was for stays as it is.
Failed(m, call) ==
  CASE call.kind = "names" -> [m EXCEPT !.alias = [a \in Aliases |-> [@[a] EXCEPT !.missed = TRUE]]]
    [] call.kind = "owner" -> [m EXCEPT !.alias[call.to].missed = TRUE]
    [] OTHER -> [m EXCEPT !.player[call.to].missed = @ \/ m.player[call.to].used]

service_pending_needs(m) ==
  LET u == FoldLeft(LAMBDA v, a : IF v.alias[a].used /\ v.alias[a].need THEN queue_get_owner(v, a) ELSE v,
                    m, SetToSeq(Aliases))
  IN FoldLeft(LAMBDA v, o : IF v.player[o].used THEN Positioned(Asked(v, o), o) ELSE v, u, SetToSeq(Players))

(***************************************************************************)
(* The players and the bus.                                                *)
(***************************************************************************)
Jumps == players.jumps < MaxJumps /\ Len(players.mail) + Len(mpris.calls) <= MaxBusy
Sent(p, m) == [p EXCEPT !.mail = Append(@, m)]
NameMoves(p, a, new) ==
  Sent([p EXCEPT !.owner[a] = new], [kind |-> "moved", alias |-> a, old |-> p.owner[a], new |-> new])

Change(p) == players' = [p EXCEPT !.jumps = @ + 1] /\ UNCHANGED mpris

NameChanges(a, new) == Jumps /\ players.owner[a] # new /\ new \notin players.gone /\ Change(NameMoves(players, a, new))

PlayerDies(o) ==
  /\ Jumps /\ o \notin players.gone
  /\ Change(FoldLeft(LAMBDA p, a : IF p.owner[a] = o THEN NameMoves(p, a, Nobody) ELSE p,
                     [players EXCEPT !.gone = @ \cup {o}], SetToSeq(Aliases)))

Tell(o, field, value, told) == [kind |-> "changed", player |-> o, field |-> field, value |-> value, told |-> told]

\* (A status that is only said to be invalid goes the way such a track goes.)
StatusChanges(o) ==
  /\ Jumps /\ o \notin players.gone
  /\ Change(Sent([players EXCEPT !.playing[o] = ~@], Tell(o, "status", ~players.playing[o], TRUE)))

TrackChanges(o, told) ==
  LET jump == players.jumps + 1
  IN /\ Jumps /\ o \notin players.gone
     /\ Change(Sent([players EXCEPT !.track[o] = jump + 1, !.position[o] = jump], Tell(o, "track", jump + 1, told)))

Seeks(o) ==
  /\ Jumps /\ o \notin players.gone
  /\ Change(Sent([players EXCEPT !.position[o] = players.jumps + 1],
                 [kind |-> "seeked", player |-> o, position |-> players.jumps + 1]))

\* The bus, and each player, answers in the order it is asked.
Asks(c) == IF c.kind \in {"names", "owner"} THEN Nobody ELSE c.to

AnswersCall(i) ==
  LET c == mpris.calls[i]
      reply(value) == [kind |-> "reply", id |-> c.id, ok |-> TRUE, value |-> value]
      answer == CASE c.kind = "names" -> reply({a \in Aliases : players.owner[a] # Nobody})
                  [] c.kind = "owner" -> reply(players.owner[c.to])
                  [] c.to \in players.gone -> [kind |-> "reply", id |-> c.id, ok |-> FALSE]
                  [] c.kind = "all" -> reply([playing |-> players.playing[c.to], track |-> players.track[c.to],
                                              position |-> players.position[c.to]])
                  [] c.kind = "position" -> reply(players.position[c.to])
  IN /\ c.waits /\ \A j \in 1 .. i - 1 : mpris.calls[j].waits => Asks(mpris.calls[j]) # Asks(c)
     /\ players' = Sent(players, answer)
     /\ mpris' = [mpris EXCEPT !.calls[i].waits = FALSE]

(***************************************************************************)
(* The service's turns.                                                    *)
(***************************************************************************)
Without(m, call) == [m EXCEPT !.calls = SelectSeq(@, LAMBDA c : c.id # call.id)]

async_reply(m, x) ==
  LET call == CHOOSE c \in ToSet(m.calls) : c.id = x.id
      u == Without(m, call)
  IN IF ~x.ok THEN Failed(u, call)
     ELSE CASE call.kind = "names"    -> handle_list_names(u, x.value)
            [] call.kind = "owner"    -> handle_get_owner(u, call, x.value)
            [] call.kind = "all"      -> handle_get_all(u, call, x.value)
            [] call.kind = "position" -> handle_get_position(u, call, x.value)

tomoe_mpris_poll ==
  /\ players.mail # <<>>
  /\ LET x == Head(players.mail)
     IN mpris' = service_pending_needs(
                   CASE x.kind = "moved"   -> name_owner_signal(mpris, x.alias, x.old, x.new)
                     [] x.kind = "changed" -> properties_signal(mpris, x.player, read_property_dict(x), read_invalidated(x))
                     [] x.kind = "seeked"  -> seeked_signal(mpris, x.player, x.position)
                     [] OTHER              -> async_reply(mpris, x))
  /\ players' = [players EXCEPT !.mail = Tail(@)]

\* Not answered within MPRIS_REQUEST_USEC; an answer of later is dropped.
TooLate(i) ==
  LET c == mpris.calls[i]
  IN /\ players.late < MaxLate /\ c.waits
     /\ mpris' = service_pending_needs(Failed(Without(mpris, c), c))
     /\ players' = [players EXCEPT !.late = @ + 1]

MprisNext ==
  \/ \E a \in Aliases, new \in Players \cup {Nobody} : NameChanges(a, new)
  \/ \E o \in Players : \/ PlayerDies(o) \/ Seeks(o) \/ StatusChanges(o)
                         \/ \E told \in BOOLEAN : TrackChanges(o, told)
  \/ \E i \in DOMAIN mpris.calls : AnswersCall(i) \/ TooLate(i)
  \/ tomoe_mpris_poll

(***************************************************************************)
(* Properties.                                                             *)
(***************************************************************************)
selected_player ==
  LET playing(o) == mpris.player[o].playing
      first(S) == CHOOSE o \in S : \A i, j \in DOMAIN mpris.recent :
                    mpris.recent[i] = o /\ mpris.recent[j] \in S => i <= j
      used == ToSet(mpris.recent)
  IN IF used = {} THEN Nobody
     ELSE IF \E o \in used : playing(o) THEN first({o \in used : playing(o)}) ELSE first(used)

\* Whatever came in between, once everything that was sent has been read and
\* answered: the service knows who owns which name, has a player for each owner and
\* no other, and has what each plays, except for what a failed request left out.  A
\* player that plays is shown if there is one.
PlayersAreKnown ==
  players.mail = <<>> /\ mpris.calls = <<>> =>
    /\ \A a \in Aliases : mpris.alias[a].missed \/ mpris.alias[a].owner = players.owner[a]
    /\ \A o \in Players :
         LET p == mpris.player[o]
         IN /\ p.used <=> Owned(mpris, o) # {}
            /\ p.used /\ ~p.missed => /\ p.playing = players.playing[o] /\ p.track = players.track[o]
                                      /\ p.position = players.position[o]
    /\ (\E o \in Players : mpris.player[o].used /\ ~mpris.player[o].missed /\ players.playing[o])
       => mpris.player[selected_player].playing
=============================================================================
