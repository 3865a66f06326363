---------------------------- MODULE FileWatches ----------------------------
(***************************************************************************)
(* Owned file watches: src/watches.lisp over support/watches.c.            *)
(*                                                                         *)
(* An extension declares files it wants to hear of.  A watch is an inotify *)
(* descriptor on the file's directory, opened when the declaration is      *)
(* prepared and closed when it is withdrawn.  A pass polls the watches,    *)
(* the longest unserved first; what a poll finds makes it read the file    *)
(* and deliver its content as an event.  The file system moves between any *)
(* two of these steps, the poll and the read included.                     *)
(***************************************************************************)
EXTENDS Lists, FiniteSets, SequencesExt

CONSTANTS
  Watches,     \* the names files are watched by, all in one directory
  WatchQuota,  \* 64 watches in a pass
  MaxOpened    \* bounds a run: the watches that are opened

ASSUME WatchesAssumption == IsFiniteSet(Watches) /\ WatchQuota \in Nat /\ MaxOpened \in Nat

VARIABLES
  watch,     \* the owned-watch of each name and its struct file_watch
  order,     \* the declared watches, by turn
  polls,     \* what is left of the current service-watches
  polled,    \* how many watches this pass has serviced
  telling,   \* the watch whose event is about to be made, or none
  dir,       \* whether the directory is there
  opened,    \* how many watches were opened
  fresh      \* the watches whose file was saved since it was read last

watchVars == <<watch, order, polls, polled, telling, dir, opened, fresh>>

\* fd:     an inotify descriptor on the directory, or on one that is gone
\* events: what it will report
\* retry:  owned-watch-retry-deadline, or whether that time has come
WatchState ==
  [declared : BOOLEAN, fd : {"none", "open", "orphan"},
   events : SUBSET {"changed", "overflow", "lost"},
   active : BOOLEAN, retry : {"nil", "future", "past"}]

Declared == {w \in Watches : watch[w].declared}

WatchesTypeOK ==
  /\ watch \in [Watches -> WatchState]
  /\ order \in Seq(Watches) /\ IsInjective(order) /\ ToSet(order) = Declared
  /\ polls \in Seq(Watches) /\ ToSet(polls) \subseteq Declared
  /\ polled \in 0..WatchQuota
  /\ telling \in SUBSET Declared
  /\ dir \in BOOLEAN
  /\ opened \in 0..MaxOpened
  /\ fresh \in SUBSET Declared
  /\ \A w \in Watches \ Declared : watch[w].fd = "none"

Closed == [declared |-> FALSE, fd |-> "none", events |-> {}, active |-> FALSE, retry |-> "nil"]
Opened == [declared |-> TRUE, fd |-> "open", events |-> {}, active |-> TRUE, retry |-> "nil"]

\* prepare-watches opens what is not kept, and fails if a directory is gone;
\* install-watches closes what is withdrawn or replaced.  A transaction that
\* fails closes what it opened: nothing changes.
install_watches(told) ==
  \E keep \in SUBSET Declared, new \in SUBSET Watches :
    /\ keep \cap new = {}
    /\ new # {} => dir
    /\ opened' = opened + Cardinality(new) /\ opened' <= MaxOpened
    /\ watch' = [w \in Watches |-> CASE w \in keep -> watch[w]
                                     [] w \in new -> Opened
                                     [] OTHER -> Closed]
    /\ order' = SetToSeq(new) \o Only(order, keep)
    /\ polls' = Only(polls, keep)
    /\ fresh' = (fresh \ told) \cap keep

\* A transaction of another service; between a poll and its event there is none.
WatchesCommit ==
  /\ telling = {} /\ install_watches({})
  /\ UNCHANGED <<polled, telling, dir>>

WatchesStart ==
  /\ polls = <<>> /\ telling = {}
  /\ polls' = order
  /\ polled' = 0
  /\ UNCHANGED <<watch, order, telling, dir, opened, fresh>>

MayPoll(w) == watch[w].retry \in {"nil", "past"}

\* Slip: an overflow of the queue does not make the file be read again.
Reads_OnlyChanges(bits) == "lost" \notin bits /\ {"changed", "restored"} \cap bits # {}

Reads(bits) == "lost" \notin bits /\ {"changed", "overflow", "restored"} \cap bits # {}

\* tomoe_watch_poll: the events since the last poll, and the descriptor.  An
\* inotify descriptor may be refused.
activate(w, refused) == IF dir /\ ~refused THEN "open" ELSE "none"

watch_poll(w, refused) ==
  LET was == watch[w]
      fd == CASE was.fd = "none" -> activate(w, refused)
              [] was.fd # "none" /\ "lost" \in was.events -> "none"
              [] was.fd # "none" /\ was.events \cap {"lost", "overflow"} = {"overflow"} -> activate(w, refused)
              [] OTHER -> was.fd
      bits == CASE was.fd = "none" -> IF fd = "open" THEN {"restored"} ELSE {}
                [] was.fd # "none" /\ fd = "none" -> was.events \cup {"lost"}
                [] OTHER -> was.events
  IN [fd |-> fd, bits |-> bits]

\* %watch-service-one up to the event.  Without a descriptor, and when the poll
\* fails, it retries after 250 ms.
Poll(w, refused) ==
  LET found == watch_poll(w, refused)
      active == CASE "lost" \in found.bits -> FALSE
                  [] Reads(found.bits) -> TRUE
                  [] OTHER -> watch[w].active
      idle == found.bits = {} /\ active
  IN /\ watch' = [watch EXCEPT ![w] =
                    [declared |-> TRUE, fd |-> found.fd, events |-> {}, active |-> active,
                     retry |-> IF Reads(found.bits) \/ idle THEN "nil" ELSE "future"]]
     /\ order' = Append(Only(order, Watches \ {w}), w)
     /\ polled' = polled + 1
     /\ polls' = Tail(polls)
     /\ telling' = IF Reads(found.bits) \/ "lost" \in found.bits THEN {w} ELSE {}
     /\ UNCHANGED <<dir, opened, fresh>>

PollNext(w, refused) ==
  /\ telling = {} /\ polls # <<>> /\ polled < WatchQuota
  /\ Head(polls) = w /\ MayPoll(w)
  /\ Poll(w, refused)

SkipNext ==
  /\ telling = {} /\ polls # <<>> /\ ~MayPoll(Head(polls))
  /\ polls' = Tail(polls)
  /\ UNCHANGED <<watch, order, polled, telling, dir, opened, fresh>>

\* The quota is used up, or 8 ms after the first poll have passed.
WatchesYield ==
  /\ telling = {} /\ polls # <<>> /\ polled > 0
  /\ polls' = <<>>
  /\ UNCHANGED <<watch, order, polled, telling, dir, opened, fresh>>

\* The file is read as it is now, and its content, or that it cannot be read,
\* or that the directory is gone is delivered.  The event's transaction
\* commits some declarations, or fails and leaves them alone.
Deliver ==
  /\ telling # {}
  /\ LET told == {w \in telling : watch[w].active}
     IN \/ install_watches(told)
        \/ fresh' = fresh \ told /\ UNCHANGED <<watch, order, polls, opened>>
  /\ telling' = {}
  /\ UNCHANGED <<polled, dir>>

-----------------------------------------------------------------------------
(* The file system and the clock. *)

\* The file is written and closed, or moved in; the kernel's queue may be full.
Save(w) ==
  /\ dir
  /\ \E event \in {"changed", "overflow"} :
       watch' = [watch EXCEPT ![w].events = IF watch[w].fd = "open" THEN @ \cup {event} ELSE @]
  /\ fresh' = fresh \cup ({w} \cap Declared)
  /\ UNCHANGED <<order, polls, polled, telling, dir, opened>>

RemoveDirectory ==
  /\ dir /\ dir' = FALSE
  /\ \E event \in {"lost", "overflow"} :
       watch' = [w \in Watches |->
                   IF watch[w].fd = "open"
                   THEN [watch[w] EXCEPT !.fd = "orphan", !.events = @ \cup {event}]
                   ELSE watch[w]]
  /\ UNCHANGED <<order, polls, polled, telling, opened, fresh>>

MakeDirectory ==
  /\ ~dir /\ dir' = TRUE
  /\ UNCHANGED <<watch, order, polls, polled, telling, opened, fresh>>

RetryComes(w) ==
  /\ watch[w].retry = "future"
  /\ watch' = [watch EXCEPT ![w].retry = "past"]
  /\ UNCHANGED <<order, polls, polled, telling, dir, opened, fresh>>

WatchesInit ==
  /\ watch = [w \in Watches |-> Closed]
  /\ order = <<>> /\ polls = <<>> /\ polled = 0
  /\ telling = {} /\ fresh = {} /\ opened = 0
  /\ dir = TRUE

\* What the main loop does in every turn.
WatchesService ==
  \/ WatchesStart \/ SkipNext \/ Deliver \/ WatchesYield
  \/ \E w \in Watches, refused \in BOOLEAN : PollNext(w, refused)

WatchesNext ==
  \/ WatchesCommit \/ WatchesService
  \/ RemoveDirectory \/ MakeDirectory
  \/ \E w \in Watches : Save(w) \/ RetryComes(w)

WatchesSpec == WatchesInit /\ [][WatchesNext]_watchVars

-----------------------------------------------------------------------------
(* Properties. *)

\* A file that is saved while it is watched is read after it was saved, also
\* when the save falls between a poll and its read, when the kernel's queue
\* overflowed, and when the directory was away meanwhile.
WatchKeepsUp ==
  \A w \in Watches : (w \in fresh) ~> (w \notin fresh \/ ~dir)
=============================================================================
