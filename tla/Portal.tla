-------------------------------- MODULE Portal --------------------------------
(***************************************************************************)
(* The setup portal and the station of main/memo_network.c, with the two   *)
(* locks and the four tasks that meet there: the application's worker (w)  *)
(* and network_worker (n), which change the radio under portal_lock; the   *)
(* HTTP server's task, whose handlers take the application lock; and the   *)
(* event task (network_event), which takes it too.                         *)
(*                                                                         *)
(* pc[t] is the place of w or n; an action runs from one use of a shared   *)
(* variable or lock to the next.  Under the application lock no code waits *)
(* for anything, so a section is one action that needs the lock free,      *)
(* except that the worker's process holds it from the key to its effect    *)
(* (appLock).  Time is what portal_opened is compared with: aged says that *)
(* ten minutes have passed since.                                          *)
(***************************************************************************)
EXTENDS Naturals, Sequences

CONSTANTS
  ConfigBound,   \* bound of the model: configurations ever saved
  EventBound     \* bound of the model: Wi-Fi events waiting for the event task

ASSUME BoundsAssumption == ConfigBound \in Nat /\ EventBound \in Nat

VARIABLES
  pc, portalLock, appLock,
  wanted,                 \* the copy of config that resume_station works with
  expiring,               \* is n in the memo_portal_stop of an expiry?
  server,                 \* "down", "up", or "stopping": in httpd_stop
  portalActive, online, stationDirty,   \* the three atomics
  aged,                   \* esp_timer_get_time() - portal_opened > 600000000,
                          \* while there is a server
  page,                   \* view.phase: "HOME", "SETTINGS" or "SESSION"
  viewPortal, viewOnline, link,         \* view.portal, view.online, view.link
  config,                 \* the saved configuration: 0 none, else its number
  clock,                  \* time(NULL) > 1704067200
  http,                   \* the place of the HTTP server's task
  event,                  \* the event that network_event handles, and where
  events,                 \* Wi-Fi events not yet dispatched
  radio,                  \* "stopped", "ap" or "sta"
  connecting, joined,     \* the driver's station
  station                 \* the configuration the driver was given

locks == <<portalLock, appLock>>
atomics == <<portalActive, online, stationDirty>>
view == <<page, viewPortal, viewOnline, link>>
driver == <<events, radio, connecting, joined, station>>
tasks == <<http, event>>
vars == <<pc, locks, wanted, expiring, server, atomics, aged, view, config, clock,
          tasks, driver>>

Tasks == {"w", "n"}
AppLockFree == appLock = "free"
Ready == online /\ clock      \* memo_network_ready

Go(t, from, to) == pc[t] = from /\ pc' = [pc EXCEPT ![t] = to]

(* esp_wifi_stop ends a connection, of which the event task will hear.     *)
WifiStop ==
  /\ events' = IF joined THEN Append(events, "lost") ELSE events
  /\ joined' = FALSE /\ connecting' = FALSE

(* esp_wifi_stop fails: the driver goes on as it is.                       *)
WifiGoesOn == UNCHANGED <<events, radio, connecting, joined>>

(* memo_network_status, with the application lock for a moment.            *)
Status(on, state) == AppLockFree /\ viewOnline' = on /\ link' = state
-----------------------------------------------------------------------------
(* memo_app_start: the station is started; without a Wi-Fi name the page   *)
(* is SETTINGS and the portal is started at once.                          *)
Init ==
  /\ config \in {0, 1}
  /\ station = config /\ connecting = (config # 0) /\ joined = FALSE
  /\ radio = "sta" /\ events = <<>>
  /\ page = (IF config = 0 THEN "SETTINGS" ELSE "HOME")
  /\ pc = [w |-> IF config = 0 THEN "start_lock" ELSE "idle", n |-> "idle"]
  /\ portalLock = "free" /\ appLock = "free"
  /\ wanted = 0 /\ expiring = FALSE
  /\ server = "down"
  /\ portalActive = FALSE /\ online = FALSE /\ stationDirty = FALSE
  /\ aged = FALSE
  /\ viewPortal = FALSE /\ viewOnline = FALSE
  /\ link = (IF config = 0 THEN "UNCONFIGURED" ELSE "CONNECTING")
  /\ clock = FALSE
  /\ http = "idle" /\ event = "none"

(* The worker takes a key: process holds the application lock ...          *)
TakeKey ==
  /\ Go("w", "idle", "process")
  /\ AppLockFree /\ appLock' = "w"
  /\ UNCHANGED <<portalLock, wanted, expiring, server, atomics, aged, view, config,
                 clock, tasks, driver>>

Process(to) ==
  /\ Go("w", "process", to)
  /\ appLock' = "free"
  /\ UNCHANGED <<portalLock, wanted, expiring, server, atomics, aged, viewPortal,
                 viewOnline, link, config, clock, tasks, driver>>

(* ... and gives it before it opens the settings, or extends their time,   *)
OpenSettings == Process("start_lock") /\ page' = "SETTINGS"
(* leaves them,                                                            *)
LeaveSettings == page = "SETTINGS" /\ Process("stop_lock") /\ page' = "HOME"
(* starts a recording session (or, unconfigured, opens the settings),      *)
StartSession == page = "HOME" /\ config # 0 /\ Ready /\ Process("stop_lock")
                /\ page' = "SESSION"
(* or has nothing to do here.                                              *)
OtherKey == Process("idle") /\ page' = page

EndSession ==
  /\ Go("w", "session", "idle")
  /\ AppLockFree
  /\ page' = "HOME"
  /\ UNCHANGED <<locks, wanted, expiring, server, atomics, aged, viewPortal, viewOnline,
                 link, config, clock, tasks, driver>>
-----------------------------------------------------------------------------
TakePortalLock(t) == portalLock = "free" /\ portalLock' = t
AfterPortal == IF page = "SESSION" THEN "session" ELSE "idle"

(* memo_portal_start with the server running: its ten minutes start again. *)
Extend ==
  /\ Go("w", "start_lock", "idle")
  /\ portalLock = "free" /\ server = "up"
  /\ aged' = FALSE
  /\ UNCHANGED <<locks, wanted, expiring, server, atomics, view, config, clock, tasks,
                 driver>>

StartLock ==
  /\ Go("w", "start_lock", "start_status")
  /\ TakePortalLock("w") /\ server = "down"
  /\ portalActive' = TRUE /\ online' = FALSE
  /\ UNCHANGED <<appLock, wanted, expiring, server, stationDirty, aged, view, config,
                 clock, tasks, driver>>

StartStatus ==
  /\ Go("w", "start_status", "start_radio")
  /\ Status(FALSE, "PROVISIONING")
  /\ UNCHANGED <<locks, wanted, expiring, server, atomics, aged, page, viewPortal, config,
                 clock, tasks, driver>>

(* The radio becomes an access point and the server starts; an error of    *)
(* esp_wifi_stop or of a later call to the radio, of httpd_start or of a   *)
(* handler's registration leads to the steps that memo_portal_stop takes.  *)
StartRadio ==
  /\ \/ /\ Go("w", "start_radio", "start_view")
        /\ WifiStop /\ radio' = "ap" /\ server' = "up"
     \/ /\ Go("w", "start_radio", "stop_wait")
        /\ \/ WifiGoesOn /\ UNCHANGED server
           \/ WifiStop /\ radio' = "stopped" /\ UNCHANGED server
           \/ WifiStop /\ radio' = "ap" /\ server' \in {server, "stopping"}
  /\ UNCHANGED <<locks, wanted, expiring, atomics, aged, view, config, clock, tasks,
                 station>>

StartView ==
  /\ Go("w", "start_view", "idle")
  /\ AppLockFree
  /\ aged' = FALSE /\ viewPortal' = TRUE
  /\ portalLock' = "free"
  /\ UNCHANGED <<appLock, wanted, expiring, server, atomics, page, viewOnline, link,
                 config, clock, tasks, driver>>

Leave(t) == IF t = "w" THEN AfterPortal ELSE "idle"

(* memo_portal_stop finds nothing to stop ...                              *)
StopNothing(t) ==
  /\ Go(t, "stop_lock", Leave(t))
  /\ portalLock = "free" /\ server = "down" /\ ~portalActive
  /\ expiring' = (expiring /\ t # "n")
  /\ UNCHANGED <<locks, wanted, server, atomics, aged, view, config, clock, tasks, driver>>

(* ... or calls httpd_stop, which waits for a handler that is running.     *)
StopLock(t) ==
  /\ Go(t, "stop_lock", "stop_wait")
  /\ TakePortalLock(t)
  /\ server # "down" \/ portalActive
  /\ server' = IF server = "up" THEN "stopping" ELSE server
  /\ UNCHANGED <<appLock, wanted, expiring, atomics, aged, view, config, clock, tasks,
                 driver>>

(* Mutant: the server is closed under a handler that is running.           *)
StopWait_NoWait(t) ==
  /\ Go(t, "stop_wait", "stop_view")
  /\ server' = "down" /\ aged' = FALSE
  /\ UNCHANGED <<locks, wanted, expiring, atomics, view, config, clock, tasks, driver>>

StopWait(t) ==
  /\ Go(t, "stop_wait", "stop_view")
  /\ http = "idle"
  /\ server' = "down" /\ aged' = FALSE
  /\ UNCHANGED <<locks, wanted, expiring, atomics, view, config, clock, tasks, driver>>

StopView(t) ==
  /\ Go(t, "stop_view", "resume")
  /\ AppLockFree
  /\ viewPortal' = FALSE
  /\ UNCHANGED <<locks, wanted, expiring, server, atomics, aged, page, viewOnline, link,
                 config, clock, tasks, driver>>
-----------------------------------------------------------------------------
(* resume_station clears the mark before it reads the configuration, so a  *)
(* save in between is seen again.                                          *)
Resume(t) ==
  /\ Go(t, "resume", "resume_config")
  /\ stationDirty' = FALSE
  /\ UNCHANGED <<locks, wanted, expiring, server, portalActive, online, aged, view,
                 config, clock, tasks, driver>>

(* Mutant: starts the station with the configuration that it had.          *)
ResumeConfig_Stale(t) ==
  /\ Go(t, "resume_config", "station")
  /\ wanted' = station
  /\ online' = FALSE
  /\ UNCHANGED <<locks, expiring, server, portalActive, stationDirty, aged, view, config,
                 clock, tasks, driver>>

(* memo_config_get, and the first line of start_station.                   *)
ResumeConfig(t) ==
  /\ Go(t, "resume_config", "station")
  /\ AppLockFree
  /\ wanted' = config
  /\ online' = FALSE
  /\ UNCHANGED <<locks, expiring, server, portalActive, stationDirty, aged, view, config,
                 clock, tasks, driver>>

(* start_station: the driver gets the configuration, or refuses it, or is  *)
(* not even stopped: an access point then stays on the air without its     *)
(* server.  The copy is cleared when start_station returns.                *)
Station(t) ==
  /\ \/ /\ Go(t, "station", "station_status")
        /\ WifiStop /\ radio' = "stopped"
        /\ station' = wanted
        /\ portalActive' = FALSE
        /\ UNCHANGED wanted
     \/ /\ Go(t, "station", "failed")
        /\ WifiGoesOn \/ (WifiStop /\ radio' = "stopped")
        /\ wanted' = 0
        /\ UNCHANGED <<station, portalActive>>
  /\ UNCHANGED <<locks, expiring, server, online, stationDirty, aged, view, config, clock,
                 tasks>>

StationStatus(t) ==
  /\ Go(t, "station_status", "station_connect")
  /\ Status(FALSE, IF wanted = 0 THEN "UNCONFIGURED" ELSE "CONNECTING")
  /\ UNCHANGED <<locks, wanted, expiring, server, atomics, aged, page, viewPortal, config,
                 clock, tasks, driver>>

(* Mutant: goes on as network_worker does, whoever called.                 *)
Resumed_AsWorker(t) == IF ~expiring THEN "clock" ELSE "unlock"

(* resume_station returns to network_worker, or to memo_portal_start or    *)
(* memo_portal_stop, which gives the lock.                                 *)
Resumed(t) == IF t = "n" /\ ~expiring THEN "clock" ELSE "unlock"

StationConnect(t) ==
  /\ \/ Go(t, "station_connect", Resumed(t)) /\ radio' = "sta" /\ connecting' = (wanted # 0)
     \/ Go(t, "station_connect", "failed") /\ radio' \in {"stopped", "sta"}
        /\ UNCHANGED connecting
  /\ wanted' = 0
  /\ UNCHANGED <<locks, expiring, server, atomics, aged, view, config, clock, tasks,
                 events, joined, station>>

(* Mutant: leaves portal_active set when the station fails.                *)
StationFailed_StaysActive(t) ==
  /\ Go(t, "failed", Resumed(t))
  /\ stationDirty' = TRUE
  /\ Status(FALSE, "FAILED")
  /\ UNCHANGED <<locks, wanted, expiring, server, portalActive, online, aged, page,
                 viewPortal, config, clock, tasks, driver>>

(* Mutant: does not ask for another try.                                   *)
StationFailed_Unmarked(t) ==
  /\ Go(t, "failed", Resumed(t))
  /\ portalActive' = FALSE
  /\ Status(FALSE, "FAILED")
  /\ UNCHANGED <<locks, wanted, expiring, server, online, stationDirty, aged, page,
                 viewPortal, config, clock, tasks, driver>>

(* A station that did not start is marked, for network_worker to retry.    *)
StationFailed(t) ==
  /\ Go(t, "failed", Resumed(t))
  /\ portalActive' = FALSE /\ stationDirty' = TRUE
  /\ Status(FALSE, "FAILED")
  /\ UNCHANGED <<locks, wanted, expiring, server, online, aged, page, viewPortal, config,
                 clock, tasks, driver>>

Unlock(t) ==
  /\ Go(t, "unlock", Leave(t))
  /\ portalLock' = "free"
  /\ expiring' = (expiring /\ t # "n")
  /\ UNCHANGED <<appLock, wanted, server, atomics, aged, view, config, clock, tasks,
                 driver>>
-----------------------------------------------------------------------------
(* network_worker, every five seconds: a marked station is started again,  *)
Tick ==
  /\ TakePortalLock("n")
  /\ \/ /\ portalActive /\ Go("n", "idle", "expiry")
        /\ UNCHANGED <<stationDirty, connecting>>
     \/ /\ ~portalActive /\ stationDirty /\ Go("n", "idle", "resume")
        /\ stationDirty' = FALSE /\ UNCHANGED connecting
     \/ /\ ~portalActive /\ ~stationDirty /\ Go("n", "idle", "clock")
        /\ connecting' = (connecting \/ (~online /\ config # 0 /\ radio = "sta" /\ ~joined))
        /\ UNCHANGED stationDirty
  /\ UNCHANGED <<appLock, wanted, expiring, server, portalActive, online, aged, view,
                 config, clock, tasks, events, radio, joined, station>>

Clock ==
  /\ Go("n", "clock", IF Ready THEN "clock_status" ELSE "expiry")
  /\ UNCHANGED <<locks, wanted, expiring, server, atomics, aged, view, config, clock,
                 tasks, driver>>

(* Mutant: trusts what network_worker saw before it had the lock.          *)
ClockStatus_Unchecked ==
  /\ Go("n", "clock_status", "expiry")
  /\ AppLockFree
  /\ link' = "READY"
  /\ UNCHANGED <<locks, wanted, expiring, server, atomics, aged, page, viewPortal,
                 viewOnline, config, clock, tasks, driver>>

(* memo_network_clock_ready looks at the view again under the lock.        *)
ClockStatus ==
  /\ Go("n", "clock_status", "expiry")
  /\ AppLockFree
  /\ link' = IF viewOnline THEN "READY" ELSE link
  /\ UNCHANGED <<locks, wanted, expiring, server, atomics, aged, page, viewPortal,
                 viewOnline, config, clock, tasks, driver>>

(* Mutant: the check is in the branch that is skipped during setup.        *)
Expiry_OutsideSetup ==
  /\ portalLock' = "free"
  /\ IF server = "up" /\ aged /\ ~portalActive
     THEN Go("n", "expiry", "stop_lock") /\ expiring' = TRUE
     ELSE Go("n", "expiry", "idle") /\ UNCHANGED expiring
  /\ UNCHANGED <<appLock, wanted, server, atomics, aged, view, config, clock, tasks,
                 driver>>

(* Whether the portal has expired is decided under the lock, which is then *)
(* given and, by memo_portal_stop, taken again.                            *)
Expiry ==
  /\ portalLock' = "free"
  /\ IF server = "up" /\ aged
     THEN Go("n", "expiry", "stop_lock") /\ expiring' = TRUE
     ELSE Go("n", "expiry", "idle") /\ UNCHANGED expiring
  /\ UNCHANGED <<appLock, wanted, server, atomics, aged, view, config, clock, tasks,
                 driver>>
-----------------------------------------------------------------------------
(* A request reaches a handler: one that saves the configuration, asks for *)
(* the audio, or reads or edits notes.                                     *)
Request ==
  /\ http = "idle" /\ server = "up"
  /\ http' \in {"save", "audio", "notes"}
  /\ UNCHANGED <<pc, locks, wanted, expiring, server, atomics, aged, view, config, clock,
                 event, driver>>

Handler(from, to) ==
  /\ http = from /\ http' = to
  /\ UNCHANGED <<pc, locks, wanted, expiring, server, portalActive, online, aged, view,
                 clock, event, driver>>

(* memo_config_save ...                                                    *)
SaveConfig ==
  /\ AppLockFree
  /\ \/ /\ page # "SESSION" /\ config < ConfigBound
        /\ config' = config + 1
        /\ Handler("save", "mark")
     \/ Handler("save", "idle") /\ UNCHANGED config
  /\ UNCHANGED stationDirty

(* Mutant: changes the radio itself, with the portal's lock.               *)
MarkDirty_TakesPortalLock ==
  /\ portalLock = "free"
  /\ Handler("mark", "idle")
  /\ stationDirty' = TRUE
  /\ UNCHANGED config

(* ... and memo_network_reconfigure, after the lock has been given.        *)
MarkDirty ==
  /\ Handler("mark", "idle")
  /\ stationDirty' = TRUE
  /\ UNCHANGED config

(* audio_page streams only if it has seen the settings page; the other     *)
(* handlers are done with the lock.                                        *)
Snapshot ==
  /\ AppLockFree
  /\ \/ Handler("audio", IF page = "SETTINGS" THEN "streaming" ELSE "idle")
     \/ Handler("notes", "idle")
  /\ UNCHANGED <<stationDirty, config>>

Streamed == Handler("streaming", "idle") /\ UNCHANGED <<stationDirty, config>>
-----------------------------------------------------------------------------
(* network_event looks at portal_active ...                                *)
Dispatch ==
  /\ event = "none" /\ events # <<>>
  /\ events' = Tail(events)
  /\ event' = IF portalActive THEN "none" ELSE Head(events)
  /\ UNCHANGED <<pc, locks, wanted, expiring, server, atomics, aged, view, config, clock,
                 http, radio, connecting, joined, station>>

(* ... then stores online ...                                              *)
EventOnline ==
  /\ event \in {"got_ip", "lost"}
  /\ online' = (event = "got_ip")
  /\ event' = IF event = "got_ip" THEN "got_ip_status" ELSE "lost_status"
  /\ UNCHANGED <<pc, locks, wanted, expiring, server, portalActive, stationDirty, aged,
                 view, config, clock, http, driver>>

(* ... and reports it.                                                     *)
EventStatus ==
  /\ event \in {"got_ip_status", "lost_status"}
  /\ event' = "none"
  /\ IF event = "got_ip_status"
     THEN Status(TRUE, IF clock THEN "READY" ELSE "SYNCING")
     ELSE \E s \in {"FAILED", "CONNECTING"} : Status(FALSE, s)
  /\ UNCHANGED <<pc, locks, wanted, expiring, server, atomics, aged, page, viewPortal,
                 config, clock, http, driver>>
-----------------------------------------------------------------------------
(* The Wi-Fi driver: a connection comes about or fails, or is lost.        *)
Environment(next) ==
  /\ Len(events) < EventBound
  /\ radio = "sta"
  /\ events' = Append(events, next)
  /\ connecting' = FALSE
  /\ UNCHANGED <<pc, locks, wanted, expiring, server, atomics, aged, view, config, clock,
                 tasks, radio, station>>

Join == connecting /\ Environment("got_ip") /\ joined' = TRUE
Lose == (connecting \/ joined) /\ Environment("lost") /\ joined' = FALSE

(* SNTP has answered; ten minutes have passed.                             *)
ClockSet ==
  /\ joined /\ ~clock /\ clock' = TRUE
  /\ UNCHANGED <<pc, locks, wanted, expiring, server, atomics, aged, view, config, tasks,
                 driver>>

TenMinutes ==
  /\ server = "up" /\ ~aged /\ aged' = TRUE
  /\ UNCHANGED <<pc, locks, wanted, expiring, server, atomics, view, config, clock, tasks,
                 driver>>
-----------------------------------------------------------------------------
Key == OpenSettings \/ LeaveSettings \/ StartSession \/ OtherKey
Keys == TakeKey \/ Key \/ EndSession
Start == Extend \/ StartLock \/ StartStatus \/ StartRadio \/ StartView
Stop(t) == StopNothing(t) \/ StopLock(t) \/ StopWait(t) \/ StopView(t)
Radio(t) == \/ Resume(t) \/ ResumeConfig(t) \/ Station(t) \/ StationStatus(t)
            \/ StationConnect(t) \/ StationFailed(t) \/ Unlock(t)
NetworkWorker == Tick \/ Clock \/ ClockStatus \/ Expiry
HttpTask == SaveConfig \/ MarkDirty \/ Snapshot \/ Streamed
EventTask == Dispatch \/ EventOnline \/ EventStatus
Next ==
  \/ Keys \/ Start \/ NetworkWorker \/ Request \/ HttpTask \/ EventTask
  \/ \E t \in Tasks : Stop(t) \/ Radio(t)
  \/ Join \/ Lose \/ ClockSet \/ TenMinutes

(* Every task runs on while it can, and a task that waits for a lock gets  *)
(* it when it is given, whoever else asks again (SF).  A handler ends: its *)
(* reads time out, a stream is cut off after 15 s.  The driver does not    *)
(* refuse to stop, or a configuration, for ever.  Nothing is assumed of    *)
(* the user, the browser or the access point.                              *)
Accepted(t) == Station(t) /\ pc'[t] = "station_status"
Fairness ==
  /\ SF_vars(Key \/ Start \/ Stop("w") \/ Radio("w"))
  /\ SF_vars(NetworkWorker \/ Stop("n") \/ Radio("n"))
  /\ SF_vars(HttpTask)
  /\ SF_vars(\E t \in Tasks : Accepted(t))
Spec == Init /\ [][Next]_vars /\ Fairness
-----------------------------------------------------------------------------
StopSteps == {"stop_lock", "stop_wait", "stop_view"}
RadioSteps == {"resume", "resume_config", "station", "station_status",
               "station_connect", "failed", "unlock"}
StartSteps == {"start_lock", "start_status", "start_radio", "start_view"}

(* The variables have the shapes the code gives them.                      *)
TypeOK ==
  /\ pc["w"] \in {"idle", "process", "session"} \cup StartSteps \cup StopSteps
                   \cup RadioSteps
  /\ pc["n"] \in {"idle", "clock", "clock_status", "expiry"} \cup StopSteps
                   \cup RadioSteps
  /\ portalLock \in {"free"} \cup Tasks /\ appLock \in {"free", "w"}
  /\ {config, wanted, station} \subseteq 0 .. ConfigBound + 1
  /\ server \in {"down", "up", "stopping"}
  /\ {expiring, portalActive, online, stationDirty, aged, viewPortal, viewOnline, clock,
      connecting, joined} \subseteq BOOLEAN
  /\ page \in {"HOME", "SETTINGS", "SESSION"}
  /\ link \in {"UNCONFIGURED", "PROVISIONING", "CONNECTING", "FAILED", "SYNCING",
               "READY"}
  /\ http \in {"idle", "save", "audio", "notes", "mark", "streaming"}
  /\ event \in {"none", "got_ip", "lost", "got_ip_status", "lost_status"}
  /\ events \in Seq({"got_ip", "lost"}) /\ Len(events) <= EventBound + 1
  /\ radio \in {"stopped", "ap", "sta"}

(* memo_replay.h, 18-20: the portal is open, or opening, only on the       *)
(* settings page, or the worker is on its way to close it.  No other page  *)
(* has to expect an edit by a browser, and no session or playback starts   *)
(* before the last handler has ended.                                      *)
PortalOnlyInSettings ==
  server # "down" \/ http # "idle" =>
    page = "SETTINGS" \/ pc["w"] \in {"stop_lock", "stop_wait"}

(* Outside a change the screen says that the portal is open, and shows its *)
(* password, exactly if its server runs, on an access point.  An access    *)
(* point without a server, which esp_wifi_stop has refused to end, is      *)
(* marked for network_worker to end.                                       *)
ViewShowsPortal ==
  portalLock = "free" =>
    /\ viewPortal = (server = "up")
    /\ portalActive = (server = "up")
    /\ server = "up" => radio = "ap"
    /\ radio = "ap" => server = "up" \/ stationDirty

(* A configuration saved while the portal is open is not forgotten: until  *)
(* the driver has it, it is marked, or about to be marked or read.         *)
ConfigNotForgotten ==
  config # station =>
    \/ stationDirty \/ http = "mark"
    \/ \E t \in Tasks : \/ pc[t] \in {"resume", "resume_config", "failed"}
                        \/ pc[t] = "station" /\ wanted = config

(* Once the Wi-Fi events have been handled, and no attempt to connect is   *)
(* under way or due, the device takes itself for online exactly if it is,  *)
(* and shows it: an event of an earlier connection leaves no trace.  And   *)
(* it never says "ready" of a station that it shows as offline, however    *)
(* the event task and the clock check of network_worker meet.              *)
OnlineIsCurrent ==
  /\ (/\ events = <<>> /\ event = "none" /\ portalLock = "free"
      /\ radio = "sta" /\ ~connecting /\ ~stationDirty)
       => online = joined /\ viewOnline = online
  /\ link = "READY" => viewOnline

(* The worker returns from opening or closing the portal: it never waits   *)
(* in httpd_stop for a handler that waits for a lock of the worker's.      *)
WorkerReturns ==
  pc["w"] \in StartSteps \cup StopSteps \cup RadioSteps
    ~> pc["w"] \in {"idle", "session"}

(* The portal closes after its ten minutes unless they are extended.       *)
ExpiryCloses == server = "up" /\ aged ~> server # "up" \/ ~aged

(* Unless the portal stays open, a saved configuration reaches the driver, *)
(* and no access point stays on the air that the screen does not show.     *)
ConfigReaches == []<>(portalActive \/ (station = config /\ radio # "ap"))

(* docs/usage.md: "Hold OK: Extend setup window".  network_worker stops    *)
(* the portal only when ten minutes have passed since it was opened or     *)
(* extended.                                                               *)
ExtensionHolds == pc["n"] = "stop_wait" /\ page = "SETTINGS" => aged
=============================================================================
