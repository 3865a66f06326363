----------------------------- MODULE MCServices -----------------------------
(***************************************************************************)
(* The services of the main loop side by side.  Timers, file watches and   *)
(* managed processes, and those on D-Bus, share no state, so a behaviour   *)
(* is one of one of them.                                                  *)
(***************************************************************************)
EXTENDS Services

CONSTANTS
  Conns, Aps, MaxNews, MaxFailed, Unknown,
  Aliases, Players, MaxJumps, MaxBusy, MaxLate, Nobody,
  Names, Apps, MaxItems, MaxActs, MaxExpired, NoApp,
  MaxId, MaxRecords

VARIABLES
  nm, net, players, mpris, apps, tray, notes, open,
  part  \* the service whose behaviour this is

N == INSTANCE Network
M == INSTANCE Mpris
T == INSTANCE Tray
O == INSTANCE Notifications

busVars == <<nm, net, players, mpris, upower, battery, apps, tray, notes, open>>
vars == <<timerVars, watchVars, procVars, busVars, part>>

Init ==
  /\ TimersInit /\ WatchesInit /\ ProcessesInit
  /\ N!NetworkInit /\ M!MprisInit /\ BatteryInit /\ T!TrayInit /\ O!NotificationsInit
  /\ part \in {"timers", "watches", "processes", "network", "mpris", "battery", "tray", "notifications"}
  /\ part # "network" => net.bus /\ nm.owner = 1 /\ nm.primary = CHOOSE c \in Conns : TRUE
  /\ part # "battery" => battery.bus /\ upower.owner = 1 /\ upower.supply = CHOOSE l \in Levels : TRUE

OfTimers(A)    == part = "timers" /\ A /\ UNCHANGED <<watchVars, procVars, busVars, part>>
OfWatches(A)   == part = "watches" /\ A /\ UNCHANGED <<timerVars, procVars, busVars, part>>
OfProcesses(A) == part = "processes" /\ A /\ UNCHANGED <<timerVars, watchVars, busVars, part>>

OnBus ==
  /\ UNCHANGED <<timerVars, watchVars, procVars, part>>
  /\ \/ /\ part = "network" /\ N!NetworkNext
        /\ UNCHANGED <<players, mpris, upower, battery, apps, tray, notes, open>>
     \/ /\ part = "mpris" /\ M!MprisNext
        /\ UNCHANGED <<nm, net, upower, battery, apps, tray, notes, open>>
     \/ /\ part = "battery" /\ BatteryNext
        /\ UNCHANGED <<nm, net, players, mpris, apps, tray, notes, open>>
     \/ /\ part = "tray" /\ T!TrayNext
        /\ UNCHANGED <<nm, net, players, mpris, upower, battery, notes, open>>
     \/ /\ part = "notifications" /\ O!NotificationsNext
        /\ UNCHANGED <<nm, net, players, mpris, upower, battery, apps, tray>>

Next == OfTimers(TimersNext) \/ OfWatches(WatchesNext) \/ OfProcesses(ProcessesNext) \/ OnBus

\* The main loop calls each service in every turn, and time passes; an inotify
\* descriptor is not refused for ever.
Fairness ==
  /\ WF_vars(OfTimers(TimersService))
  /\ WF_vars(OfWatches(WatchesService))
  /\ \A w \in Watches : /\ WF_vars(OfWatches(RetryComes(w)))
                        /\ SF_vars(OfWatches(PollNext(w, FALSE)))

Spec == Init /\ [][Next]_vars /\ Fairness

\* What the policy is told of the network, of media players and of tray items is what
\* NetworkManager, the players and the applications say, once everything that was sent
\* has been read and answered; and applications are told when a notification of theirs
\* goes (network.c, mpris.c, tray.c, notifications.c).
BusIsTold == N!NetworkIsTold /\ M!PlayersAreKnown /\ T!TrayIsTold /\ O!NotificationsAreTold
=============================================================================
