---------------------------- MODULE PortalProofs ----------------------------
(***************************************************************************)
(* Theorems about Portal, for any number of configurations and of Wi-Fi    *)
(* events waiting to be handled.                                           *)
(***************************************************************************)
EXTENDS Portal, SequenceTheorems, TLAPS

WorkerSteps  == {"idle", "process", "session"} \cup StartSteps \cup StopSteps \cup RadioSteps
NetworkSteps == {"idle", "clock", "clock_status", "expiry"} \cup StopSteps \cup RadioSteps
Steps        == WorkerSteps \cup NetworkSteps

(* Where a task holds portal_lock.                                         *)
Held == {"start_status", "start_radio", "start_view", "stop_wait", "stop_view",
         "clock", "clock_status", "expiry"} \cup RadioSteps

Places == pc \in [Tasks -> Steps] /\ pc["w"] \in WorkerSteps /\ pc["n"] \in NetworkSteps

Locks == /\ portalLock \in {"free"} \cup Tasks
         /\ \A t \in Tasks : portalLock = t <=> pc[t] \in Held

-----------------------------------------------------------------------------
(* What holds while nobody changes the portal ...                          *)
Shows ==
    /\ server \in {"down", "up"}
    /\ viewPortal = (server = "up")
    /\ portalActive = (server = "up")
    /\ server = "up" => radio = "ap"
    /\ radio = "ap" => server = "up" \/ stationDirty = TRUE

(* ... and at each place of the task that does.                            *)
Phase(p) ==
    /\ p \in {"start_status", "start_radio"} =>
          server = "down" /\ portalActive = TRUE /\ viewPortal = FALSE
    /\ p = "start_view" => server = "up" /\ radio = "ap" /\ portalActive = TRUE
    /\ p = "stop_view" => server = "down"
    /\ p \in RadioSteps \cup {"clock", "clock_status"} => server = "down" /\ viewPortal = FALSE
    /\ p \in {"station_status", "station_connect"} => radio # "ap" /\ portalActive = FALSE
    /\ p \in {"unlock", "clock", "clock_status"} =>
          portalActive = FALSE /\ (radio = "ap" => stationDirty = TRUE)
    /\ p = "expiry" => Shows
    /\ p \in {"station", "station_status", "station_connect"} => wanted = config

Phases == /\ \A t \in Tasks : Phase(pc[t])
          /\ portalLock = "free" => Shows

Served == http # "idle" => server # "down"

Portal == Places /\ Locks /\ Phases /\ Served

-----------------------------------------------------------------------------
(* A place outside the lock promises nothing.                              *)
LEMMA Outside == ASSUME NEW p, p \notin Held PROVE Phase(p) /\ Phase(p)'
BY ZenonT(30) DEF Phase, Held, RadioSteps

(* A task moves on: the other one has not got the lock.                    *)
LEMMA Moves ==
    ASSUME Portal, NEW t \in Tasks, NEW p \in Steps,
           pc[t] \in Held \/ portalLock = "free",
           pc' = [pc EXCEPT ![t] = p],
           \/ p \in Held /\ portalLock' = t /\ Phase(p)'
           \/ p \notin Held /\ portalLock' = "free" /\ Shows'
    PROVE  Locks' /\ Phases'
<1>1. pc \in [Tasks -> Steps]
  BY DEF Portal, Places
<1>2. pc'[t] = p /\ \A u \in Tasks : u # t => pc'[u] = pc[u]
  BY <1>1
<1>3. \A u \in Tasks : u # t => pc[u] \notin Held
  <2> SUFFICES ASSUME NEW u \in Tasks, u # t PROVE pc[u] \notin Held
    OBVIOUS
  <2>1. portalLock # u
    BY DEF Portal, Locks, Tasks
  <2> QED BY <2>1 DEF Portal, Locks
<1>4. Locks'
  <2>1. portalLock' \in {"free", t} /\ (portalLock' = t <=> p \in Held)
    BY DEF Tasks
  <2>2. portalLock' \in {"free"} \cup Tasks
    BY <2>1
  <2>3. ASSUME NEW u \in Tasks
        PROVE  portalLock' = u <=> pc'[u] \in Held
    <3>1. CASE u = t
      BY <1>2, <2>1, <3>1
    <3>2. CASE u # t
      BY <1>2, <1>3, <2>1, <3>2 DEF Tasks
    <3> QED BY <3>1, <3>2
  <2> QED BY <2>2, <2>3 DEF Locks
<1>5. ASSUME NEW u \in Tasks
      PROVE  Phase(pc[u])'
  <2>1. CASE u = t /\ p \in Held
    BY <1>2, <2>1 DEF Phase
  <2>2. CASE u = t /\ p \notin Held
    <3>1. pc'[u] \notin Held
      BY <1>2, <2>2
    <3> QED BY <3>1, ZenonT(30) DEF Phase, Held, RadioSteps
  <2>3. CASE u # t
    <3>1. pc'[u] \notin Held
      BY <1>2, <1>3, <2>3
    <3> QED BY <3>1, ZenonT(30) DEF Phase, Held, RadioSteps
  <2> QED BY <2>1, <2>2, <2>3
<1>6. portalLock' = "free" => Shows'
  BY DEF Tasks
<1> QED BY <1>4, <1>5, <1>6 DEF Phases

(* Who leaves the portal's variables alone disturbs nothing.               *)
LEMMA Stands ==
    ASSUME Portal, UNCHANGED <<portalLock, server, portalActive, viewPortal, radio, wanted>>,
           config' = config \/ server # "down", stationDirty = TRUE => stationDirty' = TRUE,
           \A t \in Tasks : pc'[t] = pc[t] \/ (pc[t] \notin Held /\ pc'[t] \notin Held)
    PROVE  Locks' /\ Phases'
<1>1. Locks'
  BY DEF Portal, Locks
<1>2. Shows => Shows'
  BY DEF Shows
<1>3. ASSUME NEW t \in Tasks
      PROVE  Phase(pc[t])'
  <2>1. CASE pc'[t] = pc[t]
    <3>1. Phase(pc[t])
      BY DEF Portal, Phases
    <3>2. config' = config \/ pc[t] \notin {"station", "station_status", "station_connect"}
      BY <3>1 DEF Phase, RadioSteps
    <3> QED BY <1>2, <2>1, <3>1, <3>2, ZenonT(30) DEF Phase
  <2>2. CASE pc'[t] \notin Held
    BY <2>2, ZenonT(30) DEF Phase, Held, RadioSteps
  <2> QED BY <2>1, <2>2
<1> QED BY <1>1, <1>2, <1>3 DEF Portal, Phases

-----------------------------------------------------------------------------
USE DEF locks, atomics, view, driver, tasks

(* The tasks keep to their own places.                                     *)
LEMMA PlacesStep ==
    ASSUME Places, Next
    PROVE  Places'
<1>1. ASSUME NEW t \in Tasks, NEW p, pc' = [pc EXCEPT ![t] = p],
             t = "w" => p \in WorkerSteps, t = "n" => p \in NetworkSteps
      PROVE  Places'
  <2>1. p \in Steps
    BY <1>1 DEF Tasks, Steps
  <2>2. "w" \in Tasks /\ "n" \in Tasks
    BY DEF Tasks
  <2>3. pc' \in [Tasks -> Steps]
    BY <1>1, <2>1 DEF Places
  <2>4. pc'["w"] \in WorkerSteps /\ pc'["n"] \in NetworkSteps
    <3>1. pc'["w"] = IF t = "w" THEN p ELSE pc["w"]
      BY <1>1, <2>2 DEF Places
    <3>2. pc'["n"] = IF t = "n" THEN p ELSE pc["n"]
      BY <1>1, <2>2 DEF Places
    <3> QED BY <1>1, <3>1, <3>2 DEF Places
  <2> QED BY <2>3, <2>4 DEF Places
<1>2. CASE Keys \/ Start
  <2>1. \E p \in WorkerSteps : pc' = [pc EXCEPT !["w"] = p]
    BY <1>2, ZenonT(60) DEF Keys, Key, TakeKey, Process, OpenSettings, LeaveSettings, StartSession,
       OtherKey, EndSession, Start, Extend, StartLock, StartStatus, StartRadio, StartView, Go,
       WorkerSteps, StartSteps, StopSteps, RadioSteps
  <2> QED BY <1>1, <2>1 DEF Tasks
<1>3. CASE NetworkWorker
  <2>1. \E p \in NetworkSteps : pc' = [pc EXCEPT !["n"] = p]
    BY <1>3, ZenonT(60) DEF NetworkWorker, Tick, Clock, ClockStatus, Expiry, Go,
       NetworkSteps, StopSteps, RadioSteps
  <2> QED BY <1>1, <2>1 DEF Tasks
<1>4. ASSUME NEW t \in Tasks, Stop(t) \/ Radio(t)
      PROVE  Places'
  <2>1. /\ Leave(t) \in WorkerSteps /\ (t = "n" => Leave(t) \in NetworkSteps)
        /\ Resumed(t) \in WorkerSteps \cup {"clock"} /\ (t = "w" => Resumed(t) \in WorkerSteps)
        /\ Resumed(t) \in NetworkSteps
    BY DEF Leave, AfterPortal, Resumed, WorkerSteps, NetworkSteps, RadioSteps
  <2>2. \E p : /\ pc' = [pc EXCEPT ![t] = p]
               /\ p \in (StopSteps \cup RadioSteps) \cup {Leave(t), Resumed(t)}
    BY <1>4, ZenonT(60) DEF Stop, Radio, StopNothing, StopLock, StopWait, StopView, Resume,
       ResumeConfig, Station, StationStatus, StationConnect, StationFailed, Unlock, Go,
       StopSteps, RadioSteps
  <2>3. PICK p : /\ pc' = [pc EXCEPT ![t] = p]
                 /\ p \in (StopSteps \cup RadioSteps) \cup {Leave(t), Resumed(t)}
    BY <2>2
  <2>4. (t = "w" => p \in WorkerSteps) /\ (t = "n" => p \in NetworkSteps)
    BY <2>1, <2>3 DEF WorkerSteps, NetworkSteps
  <2> QED BY <1>1, <2>3, <2>4
<1>5. CASE Request \/ HttpTask \/ EventTask \/ Join \/ Lose \/ ClockSet \/ TenMinutes
  <2>1. pc' = pc
    BY <1>5, ZenonT(60) DEF Request, HttpTask, SaveConfig, MarkDirty, Snapshot, Streamed, Handler,
       EventTask, Dispatch, EventOnline, EventStatus, Join, Lose, Environment, ClockSet, TenMinutes
  <2> QED BY <2>1 DEF Places
<1> QED BY <1>2, <1>3, <1>4, <1>5 DEF Next

(* The worker on its way to and from the portal, which is shut.            *)
LEMMA KeysPortal ==
    ASSUME Portal, Keys \/ Extend
    PROVE  Locks' /\ Phases' /\ Served'
<1>1. UNCHANGED <<portalLock, server, portalActive, stationDirty, viewPortal, radio, wanted, config, http>>
  BY ZenonT(60) DEF Keys, Key, TakeKey, Process, OpenSettings, LeaveSettings, StartSession, OtherKey,
     EndSession, Extend
<1>2. PICK from, to : /\ pc["w"] = from /\ pc' = [pc EXCEPT !["w"] = to]
                      /\ {from, to} \subseteq {"idle", "process", "session", "start_lock", "stop_lock"}
  BY ZenonT(60) DEF Keys, Key, TakeKey, Process, OpenSettings, LeaveSettings, StartSession, OtherKey,
     EndSession, Extend, Go
<1>3. from \notin Held /\ to \notin Held
  BY <1>2 DEF Held, RadioSteps
<1>4. \A t \in Tasks : pc'[t] = pc[t] \/ (pc[t] \notin Held /\ pc'[t] \notin Held)
  BY <1>2, <1>3 DEF Portal, Places
<1>5. Locks' /\ Phases'
  BY <1>1, <1>4, Stands
<1> QED BY <1>1, <1>5 DEF Portal, Served

(* The worker opens the portal.                                            *)
LEMMA StartPortal ==
    ASSUME Portal, StartLock \/ StartStatus \/ StartRadio \/ StartView
    PROVE  Locks' /\ Phases' /\ Served'
<1>0. "w" \in Tasks
  BY DEF Tasks
<1> USE DEF Go
<1>1. CASE StartLock
  <2>1. /\ portalLock = "free" /\ portalLock' = "w" /\ pc' = [pc EXCEPT !["w"] = "start_status"]
        /\ server = "down" /\ portalActive' = TRUE /\ UNCHANGED <<server, viewPortal, radio, http>>
    BY <1>1 DEF StartLock, TakePortalLock
  <2>2. Phase("start_status")'
    <3>1. Shows
      BY <2>1 DEF Portal, Phases
    <3> QED BY <2>1, <3>1 DEF Shows, Phase, RadioSteps
  <2>3. "start_status" \in Held /\ "start_status" \in Steps
    BY DEF Held, Steps, WorkerSteps, StartSteps
  <2>4. Locks' /\ Phases'
    BY <1>0, <2>1, <2>2, <2>3, Moves
  <2> QED BY <2>1, <2>4 DEF Portal, Served
<1>2. CASE StartStatus
  <2>1. /\ pc["w"] = "start_status" /\ pc' = [pc EXCEPT !["w"] = "start_radio"]
        /\ UNCHANGED <<portalLock, server, portalActive, viewPortal, radio, http>>
    BY <1>2 DEF StartStatus
  <2>2. Phase("start_status") /\ portalLock = "w"
    BY <1>0, <2>1 DEF Portal, Phases, Locks, Held
  <2>3. Phase("start_radio")'
    BY <2>1, <2>2 DEF Phase, RadioSteps
  <2>4. {"start_status", "start_radio"} \subseteq Held /\ "start_radio" \in Steps
    BY DEF Held, Steps, WorkerSteps, StartSteps
  <2>5. Locks' /\ Phases'
    BY <1>0, <2>1, <2>2, <2>3, <2>4, Moves
  <2> QED BY <2>1, <2>5 DEF Portal, Served
<1>3. CASE StartRadio
  <2>1. pc["w"] = "start_radio" /\ UNCHANGED <<portalLock, portalActive, viewPortal, http>>
    BY <1>3 DEF StartRadio
  <2>2. Phase("start_radio") /\ portalLock = "w"
    BY <1>0, <2>1 DEF Portal, Phases, Locks, Held
  <2>3. server = "down" /\ portalActive = TRUE /\ http = "idle"
    BY <2>2 DEF Phase, Portal, Served
  <2>4. PICK p \in {"start_view", "stop_wait"} :
           /\ pc' = [pc EXCEPT !["w"] = p]
           /\ p = "start_view" => server' = "up" /\ radio' = "ap"
    BY <1>3, ZenonT(30) DEF StartRadio
  <2>5. Phase(p)'
    BY <2>1, <2>3, <2>4 DEF Phase, RadioSteps
  <2>6. {"start_radio", p} \subseteq Held /\ p \in Steps
    BY <2>4 DEF Held, Steps, WorkerSteps, StartSteps, StopSteps
  <2>7. Locks' /\ Phases'
    BY <1>0, <2>1, <2>2, <2>4, <2>5, <2>6, Moves
  <2> QED BY <2>1, <2>3, <2>7 DEF Served
<1>4. CASE StartView
  <2>1. /\ pc["w"] = "start_view" /\ pc' = [pc EXCEPT !["w"] = "idle"] /\ portalLock' = "free"
        /\ viewPortal' = TRUE /\ UNCHANGED <<server, portalActive, radio, http>>
    BY <1>4 DEF StartView
  <2>2. Phase("start_view")
    BY <1>0, <2>1 DEF Portal, Phases
  <2>3. Shows'
    BY <2>1, <2>2 DEF Phase, Shows
  <2>4. "start_view" \in Held /\ "idle" \notin Held /\ "idle" \in Steps
    BY DEF Held, RadioSteps, Steps, WorkerSteps
  <2>5. Locks' /\ Phases'
    BY <1>0, <2>1, <2>3, <2>4, Moves
  <2> QED BY <2>1, <2>5 DEF Portal, Served
<1> QED BY <1>1, <1>2, <1>3, <1>4

(* Either task closes the portal.                                          *)
LEMMA StopPortal ==
    ASSUME Portal, NEW t \in Tasks, Stop(t)
    PROVE  Locks' /\ Phases' /\ Served'
<1> USE DEF Go
<1>1. CASE StopNothing(t)
  <2>1. /\ pc[t] = "stop_lock" /\ pc' = [pc EXCEPT ![t] = Leave(t)]
        /\ UNCHANGED <<portalLock, server, portalActive, stationDirty, viewPortal, radio, wanted, config, http>>
    BY <1>1 DEF StopNothing
  <2>2. Leave(t) \notin Held /\ "stop_lock" \notin Held
    BY DEF Leave, AfterPortal, Held, RadioSteps
  <2>3. \A u \in Tasks : pc'[u] = pc[u] \/ (pc[u] \notin Held /\ pc'[u] \notin Held)
    <3> DEFINE q == Leave(t)
    <3> HIDE DEF q
    <3>1. pc' = [pc EXCEPT ![t] = q] /\ q \notin Held /\ pc[t] \notin Held
      BY <2>1, <2>2 DEF q
    <3> QED BY <3>1 DEF Portal, Places
  <2>4. Locks' /\ Phases'
    BY <2>1, <2>3, Stands
  <2> QED BY <2>1, <2>4 DEF Portal, Served
<1>2. CASE StopLock(t)
  <2>1. /\ portalLock = "free" /\ portalLock' = t /\ pc' = [pc EXCEPT ![t] = "stop_wait"]
        /\ server # "down" => server' # "down" /\ UNCHANGED http
    BY <1>2 DEF StopLock, TakePortalLock
  <2>2. Phase("stop_wait")'
    BY DEF Phase, RadioSteps
  <2>3. "stop_wait" \in Held /\ "stop_wait" \in Steps
    BY DEF Held, Steps, WorkerSteps, StopSteps
  <2>4. Locks' /\ Phases'
    BY <2>1, <2>2, <2>3, Moves
  <2>5. UNCHANGED http
    BY <1>2 DEF StopLock
  <2>6. Served'
    BY <2>1, <2>5 DEF Portal, Served
  <2> QED BY <2>4, <2>6
<1>3. CASE StopWait(t)
  <2>1. /\ pc[t] = "stop_wait" /\ pc' = [pc EXCEPT ![t] = "stop_view"]
        /\ http = "idle" /\ server' = "down" /\ UNCHANGED <<portalLock, http>>
    BY <1>3 DEF StopWait
  <2>2. Phase("stop_view")'
    BY <2>1 DEF Phase, RadioSteps
  <2>3. {"stop_wait", "stop_view"} \subseteq Held /\ "stop_view" \in Steps
    BY DEF Held, Steps, WorkerSteps, StopSteps
  <2>4. portalLock = t
    BY <2>1, <2>3 DEF Portal, Locks
  <2>5. Locks' /\ Phases'
    BY <2>1, <2>2, <2>3, <2>4, Moves
  <2> QED BY <2>1, <2>5 DEF Served
<1>4. CASE StopView(t)
  <2>1. /\ pc[t] = "stop_view" /\ pc' = [pc EXCEPT ![t] = "resume"]
        /\ viewPortal' = FALSE /\ UNCHANGED <<portalLock, server, http>>
    BY <1>4 DEF StopView
  <2>2. server = "down"
    BY <2>1 DEF Portal, Phases, Phase
  <2>3. Phase("resume")'
    BY <2>1, <2>2 DEF Phase
  <2>4. {"stop_view", "resume"} \subseteq Held /\ "resume" \in Steps
    BY DEF Held, RadioSteps, Steps, WorkerSteps
  <2>5. portalLock = t
    BY <2>1, <2>4 DEF Portal, Locks
  <2>6. Locks' /\ Phases'
    BY <2>1, <2>3, <2>4, <2>5, Moves
  <2> QED BY <2>1, <2>6 DEF Portal, Served
<1> QED BY <1>1, <1>2, <1>3, <1>4 DEF Stop

(* What every step of resume_station finds.                                *)
LEMMA Resuming ==
    ASSUME Portal, NEW t \in Tasks, pc[t] \in RadioSteps
    PROVE  portalLock = t /\ server = "down" /\ viewPortal = FALSE /\ http = "idle" /\ Phase(pc[t])
<1>1. Phase(pc[t])
  BY DEF Portal, Phases
<1>2. server = "down" /\ viewPortal = FALSE
  BY <1>1 DEF Phase
<1>3. portalLock = t
  BY DEF Portal, Locks, Held
<1> QED BY <1>1, <1>2, <1>3 DEF Portal, Served

(* A step of resume_station to another, or out of it.                      *)
LEMMA ResumeMoves ==
    ASSUME Portal, NEW t \in Tasks, pc[t] \in RadioSteps,
           NEW p \in RadioSteps \cup {"clock"}, pc' = [pc EXCEPT ![t] = p],
           UNCHANGED <<portalLock, server, viewPortal, http>>,
           p = "station" => wanted' = config',
           p \in {"station_status", "station_connect"} => wanted' = config',
           p \in {"station_status", "station_connect"} => radio' # "ap" /\ portalActive' = FALSE,
           p \in {"unlock", "clock"} =>
              portalActive' = FALSE /\ (radio' = "ap" => stationDirty' = TRUE)
    PROVE  Locks' /\ Phases' /\ Served'
<1>1. portalLock = t /\ server = "down" /\ viewPortal = FALSE /\ http = "idle"
  BY Resuming
<1>2. Phase(p)'
  BY <1>1, ZenonT(30) DEF Phase, RadioSteps
<1>3. pc[t] \in Held /\ p \in Held /\ p \in Steps
  BY DEF Held, Steps, WorkerSteps, NetworkSteps
<1>4. Locks' /\ Phases'
  BY <1>1, <1>2, <1>3, Moves
<1> QED BY <1>1, <1>4 DEF Served

(* Either task starts the station again.                                   *)
LEMMA RadioPortal ==
    ASSUME Portal, NEW t \in Tasks, Radio(t)
    PROVE  Locks' /\ Phases' /\ Served'
<1> USE DEF Go
<1>1. CASE Resume(t)
  <2>1. pc[t] = "resume" /\ pc' = [pc EXCEPT ![t] = "resume_config"]
    BY <1>1 DEF Resume
  <2> QED BY <1>1, <2>1, ResumeMoves DEF Resume, RadioSteps
<1>2. CASE ResumeConfig(t)
  <2>1. pc[t] = "resume_config" /\ pc' = [pc EXCEPT ![t] = "station"] /\ wanted' = config'
    BY <1>2 DEF ResumeConfig
  <2> QED BY <1>2, <2>1, ResumeMoves DEF ResumeConfig, RadioSteps
<1>3. CASE Station(t)
  <2>1. pc[t] = "station" /\ UNCHANGED <<portalLock, server, viewPortal, http, config>>
    BY <1>3, ZenonT(30) DEF Station
  <2>2. wanted = config
    BY <2>1 DEF Portal, Phases, Phase
  <2>3. PICK p \in {"station_status", "failed"} :
           /\ pc' = [pc EXCEPT ![t] = p]
           /\ p = "station_status" => /\ portalActive' = FALSE /\ radio' = "stopped"
                                      /\ wanted' = wanted
    BY <1>3, ZenonT(30) DEF Station
  <2> QED BY <2>1, <2>2, <2>3, ResumeMoves DEF RadioSteps
<1>4. CASE StationStatus(t)
  <2>1. /\ pc[t] = "station_status" /\ pc' = [pc EXCEPT ![t] = "station_connect"]
        /\ UNCHANGED <<portalLock, server, viewPortal, http, config, wanted, radio, portalActive>>
    BY <1>4 DEF StationStatus
  <2>2. wanted = config /\ radio # "ap" /\ portalActive = FALSE
    BY <2>1 DEF Portal, Phases, Phase
  <2> QED BY <2>1, <2>2, ResumeMoves DEF RadioSteps
<1>5. CASE StationConnect(t)
  <2>1. /\ pc[t] = "station_connect" /\ radio' \in {"stopped", "sta"}
        /\ UNCHANGED <<portalLock, server, viewPortal, http, portalActive>>
    BY <1>5, ZenonT(30) DEF StationConnect
  <2>2. portalActive = FALSE
    BY <2>1 DEF Portal, Phases, Phase
  <2>3. PICK p \in {"clock", "unlock", "failed"} : pc' = [pc EXCEPT ![t] = p]
    BY <1>5, ZenonT(30) DEF StationConnect, Resumed
  <2> QED BY <2>1, <2>2, <2>3, ResumeMoves DEF RadioSteps
<1>6. CASE StationFailed(t)
  <2>1. /\ pc[t] = "failed" /\ portalActive' = FALSE /\ stationDirty' = TRUE
        /\ UNCHANGED <<portalLock, server, viewPortal, http, radio>>
    BY <1>6 DEF StationFailed
  <2>2. PICK p \in {"clock", "unlock"} : pc' = [pc EXCEPT ![t] = p]
    BY <1>6, ZenonT(30) DEF StationFailed, Resumed
  <2> QED BY <2>1, <2>2, ResumeMoves DEF RadioSteps
<1>7. CASE Unlock(t)
  <2>1. /\ pc[t] = "unlock" /\ portalLock' = "free"
        /\ UNCHANGED <<server, viewPortal, portalActive, stationDirty, http, radio>>
    BY <1>7 DEF Unlock
  <2>2. /\ portalActive = FALSE /\ server = "down" /\ viewPortal = FALSE
        /\ radio = "ap" => stationDirty = TRUE
    BY <2>1 DEF Portal, Phases, Phase, RadioSteps
  <2>3. PICK p \in {"idle", "session"} : pc' = [pc EXCEPT ![t] = p]
    BY <1>7, ZenonT(30) DEF Unlock, Leave, AfterPortal
  <2>4. pc[t] \in Held /\ p \notin Held /\ p \in Steps
    BY <2>1, <2>3 DEF Held, RadioSteps, Steps, WorkerSteps
  <2>5. Shows'
    BY <2>1, <2>2 DEF Shows
  <2>6. Locks' /\ Phases'
    BY <2>1, <2>3, <2>4, <2>5, Moves
  <2> QED BY <2>1, <2>6 DEF Portal, Served
<1> QED BY <1>1, <1>2, <1>3, <1>4, <1>5, <1>6, <1>7 DEF Radio

(* network_worker looks after the station and the portal's time.           *)
LEMMA WorkerPortal ==
    ASSUME Portal, NetworkWorker
    PROVE  Locks' /\ Phases' /\ Served'
<1>0. "n" \in Tasks /\ {"idle", "stop_lock", "expiry", "clock", "clock_status", "resume"} \subseteq Steps
  BY DEF Tasks, Steps, NetworkSteps, StopSteps, RadioSteps
<1>a. {"expiry", "clock", "clock_status", "resume"} \subseteq Held /\ {"idle", "stop_lock"} \cap Held = {}
  BY DEF Held, RadioSteps
<1>b. UNCHANGED <<server, viewPortal, portalActive, http, radio>>
  BY ZenonT(30) DEF NetworkWorker, Tick, Clock, ClockStatus, Expiry
<1>c. Served'
  BY <1>b DEF Portal, Served
<1> USE DEF Go
<1>1. CASE Tick
  <2>1. portalLock = "free" /\ portalLock' = "n"
    BY <1>1 DEF Tick, TakePortalLock
  <2>2. PICK p \in {"expiry", "resume", "clock"} :
           /\ pc' = [pc EXCEPT !["n"] = p]
           /\ p # "expiry" => ~portalActive
           /\ p # "resume" => stationDirty' = stationDirty
    BY <1>1, ZenonT(30) DEF Tick
  <2>3. Shows
    BY <2>1 DEF Portal, Phases
  <2>4. p # "resume" => Shows'
    BY <1>b, <2>2, <2>3 DEF Shows
  <2>5. p # "expiry" => /\ viewPortal = FALSE /\ portalActive = FALSE
                        /\ radio = "ap" => stationDirty = TRUE
    BY <2>2, <2>3, ZenonT(30) DEF Shows
  <2>6. p # "expiry" => server = "down"
    BY <2>2, <2>3, ZenonT(30) DEF Shows
  <2>7. Phase(p)'
    BY <1>b, <2>2, <2>4, <2>5, <2>6, ZenonT(30) DEF Phase, RadioSteps
  <2>8. Locks' /\ Phases'
    BY <1>0, <1>a, <2>1, <2>2, <2>7, Moves
  <2> QED BY <1>c, <2>8
<1>2. CASE Clock \/ ClockStatus
  <2>1. pc["n"] \in {"clock", "clock_status"} /\ UNCHANGED <<portalLock, stationDirty>>
    BY <1>2 DEF Clock, ClockStatus
  <2>2. PICK p \in {"clock_status", "expiry"} : pc' = [pc EXCEPT !["n"] = p]
    BY <1>2 DEF Clock, ClockStatus
  <2>3. /\ server = "down" /\ viewPortal = FALSE /\ portalActive = FALSE
        /\ radio = "ap" => stationDirty = TRUE
    BY <1>0, <2>1 DEF Portal, Phases, Phase
  <2>4. Phase(p)'
    BY <1>b, <2>1, <2>2, <2>3, ZenonT(30) DEF Phase, RadioSteps, Shows
  <2>5. portalLock = "n"
    BY <1>0, <1>a, <2>1 DEF Portal, Locks
  <2>6. Locks' /\ Phases'
    BY <1>0, <1>a, <2>1, <2>2, <2>4, <2>5, Moves
  <2> QED BY <1>c, <2>6
<1>3. CASE Expiry
  <2>1. pc["n"] = "expiry" /\ portalLock' = "free" /\ UNCHANGED stationDirty
    BY <1>3 DEF Expiry
  <2>2. PICK p \in {"idle", "stop_lock"} : pc' = [pc EXCEPT !["n"] = p]
    BY <1>3, ZenonT(30) DEF Expiry
  <2>3. Shows
    BY <1>0, <2>1 DEF Portal, Phases, Phase
  <2>4. Shows'
    BY <1>b, <2>1, <2>3 DEF Shows
  <2>5. Locks' /\ Phases'
    BY <1>0, <1>a, <2>1, <2>2, <2>4, Moves
  <2> QED BY <1>c, <2>5
<1> QED BY <1>1, <1>2, <1>3 DEF NetworkWorker

(* The other tasks and the driver do not touch the portal; a handler runs  *)
(* while there is a server.                                                *)
LEMMA OthersPortal ==
    ASSUME Portal, Request \/ HttpTask \/ EventTask \/ Join \/ Lose \/ ClockSet \/ TenMinutes
    PROVE  Locks' /\ Phases' /\ Served'
<1>1. UNCHANGED <<pc, portalLock, server, portalActive, viewPortal, radio, wanted>>
  BY ZenonT(60) DEF Request, HttpTask, SaveConfig, MarkDirty, Snapshot, Streamed, Handler,
     EventTask, Dispatch, EventOnline, EventStatus, Join, Lose, Environment, ClockSet, TenMinutes
<1>2. http' = http \/ http' = "idle" \/ http # "idle" \/ server # "down"
  BY ZenonT(60) DEF Request, HttpTask, SaveConfig, MarkDirty, Snapshot, Streamed, Handler,
     EventTask, Dispatch, EventOnline, EventStatus, Join, Lose, Environment, ClockSet, TenMinutes
<1>3. config' = config \/ http # "idle"
  BY ZenonT(60) DEF Request, HttpTask, SaveConfig, MarkDirty, Snapshot, Streamed, Handler,
     EventTask, Dispatch, EventOnline, EventStatus, Join, Lose, Environment, ClockSet, TenMinutes
<1>4. config' = config \/ server # "down"
  BY <1>3 DEF Portal, Served
<1>5. stationDirty' \in {stationDirty, TRUE}
  BY ZenonT(60) DEF Request, HttpTask, SaveConfig, MarkDirty, Snapshot, Streamed, Handler,
     EventTask, Dispatch, EventOnline, EventStatus, Join, Lose, Environment, ClockSet, TenMinutes
<1>6. Locks' /\ Phases'
  BY <1>1, <1>4, <1>5, Stands
<1> QED BY <1>1, <1>2, <1>6 DEF Portal, Served

(* So every step keeps the portal, its lock and its view together.         *)
LEMMA PortalStep ==
    ASSUME Portal, Next
    PROVE  Portal'
<1>1. Places'
  BY PlacesStep DEF Portal
<1>2. Locks' /\ Phases' /\ Served'
  BY KeysPortal, StartPortal, StopPortal, RadioPortal, WorkerPortal, OthersPortal DEF Next, Start
<1> QED BY <1>1, <1>2 DEF Portal

-----------------------------------------------------------------------------
(***************************************************************************)
(* The page                                                                *)
(***************************************************************************)
Page == /\ PortalOnlyInSettings
        /\ pc["w"] \in StartSteps => page = "SETTINGS"
        /\ pc["w"] = "session" => page = "SESSION"

(* The server is there only for the settings page, or is about to go.      *)
LEMMA PageStep ==
    ASSUME Portal, Page, Next
    PROVE  Page'
<1>0. pc \in [Tasks -> Steps] /\ "w" \in Tasks /\ "n" \in Tasks
  BY DEF Portal, Places, Tasks
<1>1. CASE Keys \/ Extend
  <2>1. UNCHANGED <<server, http>>
    BY <1>1, ZenonT(30) DEF Keys, Key, TakeKey, Process, OpenSettings, LeaveSettings, StartSession,
       OtherKey, EndSession, Extend
  <2>2. pc["w"] \in {"idle", "process", "session", "start_lock"}
    BY <1>1, ZenonT(30) DEF Keys, Key, TakeKey, Process, OpenSettings, LeaveSettings, StartSession,
       OtherKey, EndSession, Extend, Go
  <2>3. page # "SETTINGS" => server = "down" /\ http = "idle"
    BY <2>2 DEF Page, PortalOnlyInSettings
  <2>4. PICK q \in Steps :
           /\ pc' = [pc EXCEPT !["w"] = q]
           /\ q \in StartSteps => page' = "SETTINGS"
           /\ q # "session"
           /\ page' = "SETTINGS" \/ q = "stop_lock" \/ page # "SETTINGS"
    <3>1. {"idle", "process", "session", "start_lock", "stop_lock"} \subseteq Steps
      BY DEF Steps, WorkerSteps, StartSteps, StopSteps
    <3>2. CASE TakeKey \/ EndSession \/ OtherKey \/ Extend
      <4>1. PICK q \in {"idle", "process"} : pc' = [pc EXCEPT !["w"] = q]
        BY <3>2 DEF TakeKey, EndSession, OtherKey, Process, Extend, Go
      <4>2. page' = page \/ EndSession
        BY <3>2 DEF TakeKey, OtherKey, Extend
      <4>3. EndSession => page # "SETTINGS"
        BY DEF EndSession, Go, Page
      <4> QED BY <3>1, <4>1, <4>2, <4>3 DEF StartSteps
    <3>3. CASE OpenSettings
      BY <3>1, <3>3 DEF OpenSettings, Process, Go
    <3>4. CASE LeaveSettings \/ StartSession
      BY <3>1, <3>4 DEF LeaveSettings, StartSession, Process, Go, StartSteps
    <3> QED BY <1>1, <3>2, <3>3, <3>4 DEF Keys, Key
  <2>5. pc'["w"] = q
    BY <1>0, <2>4
  <2> QED BY <2>1, <2>3, <2>4, <2>5 DEF Page, PortalOnlyInSettings
<1>2. CASE StartLock \/ StartStatus \/ StartRadio \/ StartView
  <2>1. UNCHANGED page /\ pc["w"] \in StartSteps
    BY <1>2, ZenonT(30) DEF StartLock, StartStatus, StartRadio, StartView, Go, StartSteps
  <2>2. \E q : pc' = [pc EXCEPT !["w"] = q] /\ q # "session"
    BY <1>2, ZenonT(30) DEF StartLock, StartStatus, StartRadio, StartView, Go
  <2>3. pc'["w"] # "session"
    BY <1>0, <2>2
  <2> QED BY <2>1, <2>3 DEF Page, PortalOnlyInSettings
<1>3. ASSUME NEW t \in Tasks, Stop(t) \/ Radio(t)
      PROVE  Page'
  <2>1. UNCHANGED <<page, http>> /\ (server = "down" => server' = "down")
    BY <1>3, ZenonT(60) DEF Stop, StopNothing, StopLock, StopWait, StopView, Radio, Resume,
       ResumeConfig, Station, StationStatus, StationConnect, StationFailed, Unlock
  <2>2. CASE t = "n"
    <3>1. pc'["w"] = pc["w"]
      BY <1>0, <1>3, <2>2, ZenonT(60) DEF Stop, StopNothing, StopLock, StopWait, StopView, Radio,
         Resume, ResumeConfig, Station, StationStatus, StationConnect, StationFailed, Unlock, Go,
         Tasks
    <3> QED BY <2>1, <3>1 DEF Page, PortalOnlyInSettings
  <2>3. CASE t = "w"
    <3>1. PICK q : pc'["w"] = q /\ q \notin StartSteps /\ (q = "session" => page = "SESSION")
      BY <1>0, <1>3, <2>3, ZenonT(60) DEF Stop, StopNothing, StopLock, StopWait, StopView, Radio,
         Resume, ResumeConfig, Station, StationStatus, StationConnect, StationFailed, Unlock, Go,
         Leave, AfterPortal, Resumed, StartSteps
    <3>2. CASE StopLock(t)
      <4>1. pc'["w"] = "stop_wait"
        BY <1>0, <2>3, <3>2 DEF StopLock, Go
      <4> QED BY <4>1 DEF Page, PortalOnlyInSettings, StartSteps
    <3>3. CASE ~StopLock(t)
      <4>1. server' = "down" /\ http = "idle"
        <5>1. CASE StopNothing(t)
          BY <5>1 DEF StopNothing, Portal, Served
        <5>2. CASE StopWait(t)
          BY <5>2 DEF StopWait
        <5>3. CASE StopView(t)
          <6>1. pc[t] = "stop_view"
            BY <5>3 DEF StopView, Go
          <6>2. server = "down"
            BY <6>1 DEF Portal, Phases, Phase
          <6> QED BY <2>1, <6>2 DEF Portal, Served
        <5>4. CASE Radio(t)
          <6>1. pc[t] \in RadioSteps
            BY <5>4, ZenonT(30) DEF Radio, Resume, ResumeConfig, Station, StationStatus,
               StationConnect, StationFailed, Unlock, Go, RadioSteps
          <6> QED BY <2>1, <6>1, Resuming
        <5> QED BY <1>3, <3>3, <5>1, <5>2, <5>3, <5>4 DEF Stop
      <4> QED BY <2>1, <3>1, <4>1 DEF Page, PortalOnlyInSettings
    <3> QED BY <3>2, <3>3
  <2> QED BY <2>2, <2>3 DEF Tasks
<1>4. CASE NetworkWorker
  <2>1. UNCHANGED <<page, server, http>> /\ pc'["w"] = pc["w"]
    BY <1>0, <1>4, ZenonT(30) DEF NetworkWorker, Tick, Clock, ClockStatus, Expiry, Go, Tasks
  <2> QED BY <2>1 DEF Page, PortalOnlyInSettings
<1>5. CASE Request \/ HttpTask \/ EventTask \/ Join \/ Lose \/ ClockSet \/ TenMinutes
  <2>1. UNCHANGED <<page, server, pc>> /\ (http' = "idle" \/ http # "idle" \/ server # "down")
    BY <1>5, ZenonT(60) DEF Request, HttpTask, SaveConfig, MarkDirty, Snapshot, Streamed, Handler,
       EventTask, Dispatch, EventOnline, EventStatus, Join, Lose, Environment, ClockSet, TenMinutes
  <2> QED BY <2>1 DEF Page, PortalOnlyInSettings
<1> QED BY <1>1, <1>2, <1>3, <1>4, <1>5 DEF Next, Start

-----------------------------------------------------------------------------
(***************************************************************************)
(* The configuration                                                       *)
(***************************************************************************)
(* A task that will bring the saved configuration to the driver.           *)
Bringing(p) == p \in {"resume", "resume_config", "failed", "station"}

Brought == config # station => stationDirty \/ http = "mark" \/ \E t \in Tasks : Bringing(pc[t])

(* A saved configuration stays marked until a task is on its way with it.  *)
LEMMA ConfigStep ==
    ASSUME Portal, Brought, stationDirty \in BOOLEAN, Next
    PROVE  Brought'
<1>0. pc \in [Tasks -> Steps] /\ "w" \in Tasks /\ "n" \in Tasks
  BY DEF Portal, Places, Tasks
<1>1. ASSUME UNCHANGED <<config, station, http>>, stationDirty => stationDirty',
             \A t \in Tasks : Bringing(pc[t]) => Bringing(pc'[t])
      PROVE  Brought'
  BY <1>1 DEF Brought
<1>2. ASSUME NEW t \in Tasks, NEW q, pc' = [pc EXCEPT ![t] = q], ~Bringing(pc[t]) \/ Bringing(q)
      PROVE  \A u \in Tasks : Bringing(pc[u]) => Bringing(pc'[u])
  BY <1>0, <1>2
<1>3. CASE Keys \/ Start
  <2>1. UNCHANGED <<config, station, http, stationDirty>>
    BY <1>3, ZenonT(30) DEF Keys, Key, TakeKey, Process, OpenSettings, LeaveSettings, StartSession,
       OtherKey, EndSession, Start, Extend, StartLock, StartStatus, StartRadio, StartView
  <2>2. \E q : pc' = [pc EXCEPT !["w"] = q] /\ ~Bringing(pc["w"])
    BY <1>3, ZenonT(60) DEF Keys, Key, TakeKey, Process, OpenSettings, LeaveSettings, StartSession,
       OtherKey, EndSession, Start, Extend, StartLock, StartStatus, StartRadio, StartView, Go, Bringing
  <2> QED BY <1>0, <1>1, <1>2, <2>1, <2>2
<1>4. CASE NetworkWorker
  <2>1. UNCHANGED <<config, station, http>>
    BY <1>4, ZenonT(30) DEF NetworkWorker, Tick, Clock, ClockStatus, Expiry
  <2>2. PICK q : /\ pc' = [pc EXCEPT !["n"] = q] /\ ~Bringing(pc["n"])
                 /\ (stationDirty => stationDirty') \/ q = "resume"
    BY <1>4, ZenonT(60) DEF NetworkWorker, Tick, Clock, ClockStatus, Expiry, Go, Bringing
  <2>3. CASE q = "resume"
    <3>1. Bringing(pc'["n"])
      BY <1>0, <2>2, <2>3 DEF Bringing
    <3> QED BY <1>0, <3>1 DEF Brought
  <2>4. CASE stationDirty => stationDirty'
    BY <1>0, <1>1, <1>2, <2>1, <2>2, <2>4
  <2> QED BY <2>2, <2>3, <2>4
<1>5. ASSUME NEW t \in Tasks, Stop(t)
      PROVE  Brought'
  <2>1. UNCHANGED <<config, station, http, stationDirty>>
    BY <1>5, ZenonT(30) DEF Stop, StopNothing, StopLock, StopWait, StopView
  <2>2. \E q : pc' = [pc EXCEPT ![t] = q] /\ ~Bringing(pc[t])
    BY <1>5, ZenonT(60) DEF Stop, StopNothing, StopLock, StopWait, StopView, Go, Bringing
  <2> QED BY <1>1, <1>2, <2>1, <2>2
<1>6. ASSUME NEW t \in Tasks, Radio(t)
      PROVE  Brought'
  <2>1. CASE Station(t) /\ station' = wanted
    <3>1. pc[t] = "station" /\ config' = config
      BY <2>1, ZenonT(30) DEF Station, Go
    <3>2. wanted = config
      BY <3>1 DEF Portal, Phases, Phase
    <3> QED BY <2>1, <3>1, <3>2 DEF Brought
  <2>2. CASE StationFailed(t)
    BY <2>2 DEF StationFailed, Brought
  <2>3. CASE Resume(t) \/ ResumeConfig(t) \/ (Station(t) /\ station' = station)
             \/ (StationConnect(t) /\ pc'[t] = "failed")
    <3>1. \E q \in {"resume_config", "station", "failed", "station_status"} :
             pc' = [pc EXCEPT ![t] = q] /\ (q = "station_status" => station' = wanted)
      BY <1>0, <2>3, ZenonT(60) DEF Resume, ResumeConfig, Station, StationConnect, Go
    <3>2. Bringing(pc'[t]) \/ (Station(t) /\ station' = wanted)
      BY <1>0, <2>3, <3>1, ZenonT(60) DEF Bringing, Resume, ResumeConfig, Station, StationConnect, Go
    <3> QED BY <2>1, <3>2 DEF Brought
  <2>4. CASE StationStatus(t) \/ (StationConnect(t) /\ pc'[t] # "failed") \/ Unlock(t)
    <3>1. UNCHANGED <<config, station, http, stationDirty>>
      BY <2>4, ZenonT(30) DEF StationStatus, StationConnect, Unlock
    <3>2. \E q : pc' = [pc EXCEPT ![t] = q] /\ ~Bringing(pc[t])
      BY <2>4, ZenonT(60) DEF StationStatus, StationConnect, Unlock, Go, Bringing
    <3> QED BY <1>1, <1>2, <3>1, <3>2
  <2>5. Station(t) => station' = wanted \/ station' = station
    BY ZenonT(30) DEF Station
  <2> QED BY <1>6, <2>1, <2>2, <2>3, <2>4, <2>5 DEF Radio
<1>7. CASE HttpTask
  <2>1. UNCHANGED <<pc, station>>
    BY <1>7, ZenonT(30) DEF HttpTask, SaveConfig, MarkDirty, Snapshot, Streamed, Handler
  <2>2. stationDirty' = TRUE \/ http' = "mark" \/ (stationDirty' = stationDirty /\ config' = config /\ http # "mark")
    BY <1>7, ZenonT(60) DEF HttpTask, SaveConfig, MarkDirty, Snapshot, Streamed, Handler
  <2> QED BY <2>1, <2>2 DEF Brought
<1>8. CASE Request \/ EventTask \/ Join \/ Lose \/ ClockSet \/ TenMinutes
  <2>1. UNCHANGED <<pc, station, config, stationDirty>> /\ (http' = http \/ http # "mark")
    BY <1>8, ZenonT(60) DEF Request, EventTask, Dispatch, EventOnline, EventStatus, Join, Lose,
       Environment, ClockSet, TenMinutes
  <2> QED BY <2>1 DEF Brought
<1> QED BY <1>3, <1>4, <1>5, <1>6, <1>7, <1>8 DEF Next

-----------------------------------------------------------------------------
(***************************************************************************)
(* The other variables                                                     *)
(***************************************************************************)
EventNames == {"got_ip", "lost"}

Ranges ==
    /\ appLock \in {"free", "w"}
    /\ server \in {"down", "up", "stopping"}
    /\ page \in {"HOME", "SETTINGS", "SESSION"}
    /\ http \in {"idle", "save", "audio", "notes", "mark", "streaming"}
    /\ event \in {"none", "got_ip_status", "lost_status"} \cup EventNames
    /\ radio \in {"stopped", "ap", "sta"}
    /\ link \in {"UNCONFIGURED", "PROVISIONING", "CONNECTING", "FAILED", "SYNCING", "READY"}
    /\ link = "READY" => viewOnline = TRUE

Flags == {expiring, portalActive, online, stationDirty, aged, viewPortal, viewOnline, clock,
          connecting, joined} \subseteq BOOLEAN

Configs == {config, wanted, station} \subseteq 0 .. ConfigBound + 1

(* The end of a connection finds room beside the events that wait.         *)
Events == /\ events \in Seq(EventNames) /\ Len(events) <= EventBound + 1
          /\ joined => Len(events) <= EventBound

(* Each keeps to its range, and only an online view is ever ready.         *)
LEMMA RangesStep ==
    ASSUME Ranges, events \in Seq(EventNames), viewOnline \in BOOLEAN, Next
    PROVE  Ranges'
<1>1. appLock' \in {"free", "w"} /\ page' \in {"HOME", "SETTINGS", "SESSION"}
  BY ZenonT(60) DEF Ranges, Next, Keys, Key, TakeKey, Process, OpenSettings, LeaveSettings, StartSession, OtherKey,
     EndSession, Start, Extend, StartLock, StartStatus, StartRadio, StartView, Stop, StopNothing,
     StopLock, StopWait, StopView, Radio, Resume, ResumeConfig, Station, StationStatus,
     StationConnect, StationFailed, Unlock, NetworkWorker, Tick, Clock, ClockStatus, Expiry,
     Request, HttpTask, SaveConfig, MarkDirty, Snapshot, Streamed, Handler, EventTask, Dispatch,
     EventOnline, EventStatus, Join, Lose, Environment, ClockSet, TenMinutes
<1>2. server' \in {"down", "up", "stopping"} /\ radio' \in {"stopped", "ap", "sta"}
  BY ZenonT(60) DEF Ranges, Next, WifiGoesOn, Keys, Key, TakeKey, Process, OpenSettings, LeaveSettings, StartSession, OtherKey,
     EndSession, Start, Extend, StartLock, StartStatus, StartRadio, StartView, Stop, StopNothing,
     StopLock, StopWait, StopView, Radio, Resume, ResumeConfig, Station, StationStatus,
     StationConnect, StationFailed, Unlock, NetworkWorker, Tick, Clock, ClockStatus, Expiry,
     Request, HttpTask, SaveConfig, MarkDirty, Snapshot, Streamed, Handler, EventTask, Dispatch,
     EventOnline, EventStatus, Join, Lose, Environment, ClockSet, TenMinutes
<1>3. http' \in {"idle", "save", "audio", "notes", "mark", "streaming"}
  BY ZenonT(60) DEF Ranges, Next, Keys, Key, TakeKey, Process, OpenSettings, LeaveSettings, StartSession, OtherKey,
     EndSession, Start, Extend, StartLock, StartStatus, StartRadio, StartView, Stop, StopNothing,
     StopLock, StopWait, StopView, Radio, Resume, ResumeConfig, Station, StationStatus,
     StationConnect, StationFailed, Unlock, NetworkWorker, Tick, Clock, ClockStatus, Expiry,
     Request, HttpTask, SaveConfig, MarkDirty, Snapshot, Streamed, Handler, EventTask, Dispatch,
     EventOnline, EventStatus, Join, Lose, Environment, ClockSet, TenMinutes
<1>4. event' \in {"none", "got_ip_status", "lost_status"} \cup EventNames
  <2>1. \/ event' \in {event, "none", "got_ip_status", "lost_status"}
        \/ events # <<>> /\ event' = Head(events)
    BY ZenonT(60) DEF Next, Keys, Key, TakeKey, Process, OpenSettings, LeaveSettings, StartSession, OtherKey,
     EndSession, Start, Extend, StartLock, StartStatus, StartRadio, StartView, Stop, StopNothing,
     StopLock, StopWait, StopView, Radio, Resume, ResumeConfig, Station, StationStatus,
     StationConnect, StationFailed, Unlock, NetworkWorker, Tick, Clock, ClockStatus, Expiry,
     Request, HttpTask, SaveConfig, MarkDirty, Snapshot, Streamed, Handler, EventTask, Dispatch,
     EventOnline, EventStatus, Join, Lose, Environment, ClockSet, TenMinutes
  <2>2. events # <<>> => Head(events) \in EventNames
    BY HeadTailProperties
  <2> QED BY <2>1, <2>2 DEF Ranges
<1>5. /\ link' \in {"UNCONFIGURED", "PROVISIONING", "CONNECTING", "FAILED", "SYNCING", "READY"}
      /\ link' = "READY" => viewOnline' = TRUE
  <2>1. \/ UNCHANGED <<link, viewOnline>>
        \/ link' \in {"UNCONFIGURED", "PROVISIONING", "CONNECTING", "FAILED"}
        \/ link' \in {"SYNCING", "READY"} /\ viewOnline' = TRUE
        \/ link' = "READY" /\ viewOnline /\ viewOnline' = viewOnline
    BY ZenonT(60) DEF Next, Status, Keys, Key, TakeKey, Process, OpenSettings, LeaveSettings, StartSession, OtherKey,
     EndSession, Start, Extend, StartLock, StartStatus, StartRadio, StartView, Stop, StopNothing,
     StopLock, StopWait, StopView, Radio, Resume, ResumeConfig, Station, StationStatus,
     StationConnect, StationFailed, Unlock, NetworkWorker, Tick, Clock, ClockStatus, Expiry,
     Request, HttpTask, SaveConfig, MarkDirty, Snapshot, Streamed, Handler, EventTask, Dispatch,
     EventOnline, EventStatus, Join, Lose, Environment, ClockSet, TenMinutes
  <2> QED BY <2>1 DEF Ranges
<1> QED BY <1>1, <1>2, <1>3, <1>4, <1>5 DEF Ranges

(* The flags are TRUE or FALSE.                                            *)
LEMMA FlagsStep ==
    ASSUME Flags, Next
    PROVE  Flags'
<1>1. expiring' \in BOOLEAN /\ aged' \in BOOLEAN /\ clock' \in BOOLEAN
  BY ZenonT(60) DEF Flags, Next, Keys, Key, TakeKey, Process, OpenSettings, LeaveSettings, StartSession, OtherKey,
     EndSession, Start, Extend, StartLock, StartStatus, StartRadio, StartView, Stop, StopNothing,
     StopLock, StopWait, StopView, Radio, Resume, ResumeConfig, Station, StationStatus,
     StationConnect, StationFailed, Unlock, NetworkWorker, Tick, Clock, ClockStatus, Expiry,
     Request, HttpTask, SaveConfig, MarkDirty, Snapshot, Streamed, Handler, EventTask, Dispatch,
     EventOnline, EventStatus, Join, Lose, Environment, ClockSet, TenMinutes
<1>2. portalActive' \in BOOLEAN /\ online' \in BOOLEAN /\ stationDirty' \in BOOLEAN
  BY ZenonT(60) DEF Flags, Next, Keys, Key, TakeKey, Process, OpenSettings, LeaveSettings, StartSession, OtherKey,
     EndSession, Start, Extend, StartLock, StartStatus, StartRadio, StartView, Stop, StopNothing,
     StopLock, StopWait, StopView, Radio, Resume, ResumeConfig, Station, StationStatus,
     StationConnect, StationFailed, Unlock, NetworkWorker, Tick, Clock, ClockStatus, Expiry,
     Request, HttpTask, SaveConfig, MarkDirty, Snapshot, Streamed, Handler, EventTask, Dispatch,
     EventOnline, EventStatus, Join, Lose, Environment, ClockSet, TenMinutes
<1>3. viewPortal' \in BOOLEAN /\ viewOnline' \in BOOLEAN
  BY ZenonT(60) DEF Flags, Next, Status, Keys, Key, TakeKey, Process, OpenSettings, LeaveSettings, StartSession, OtherKey,
     EndSession, Start, Extend, StartLock, StartStatus, StartRadio, StartView, Stop, StopNothing,
     StopLock, StopWait, StopView, Radio, Resume, ResumeConfig, Station, StationStatus,
     StationConnect, StationFailed, Unlock, NetworkWorker, Tick, Clock, ClockStatus, Expiry,
     Request, HttpTask, SaveConfig, MarkDirty, Snapshot, Streamed, Handler, EventTask, Dispatch,
     EventOnline, EventStatus, Join, Lose, Environment, ClockSet, TenMinutes
<1>4. connecting' \in BOOLEAN /\ joined' \in BOOLEAN
  BY ZenonT(60) DEF Flags, Next, WifiStop, WifiGoesOn, Keys, Key, TakeKey, Process, OpenSettings, LeaveSettings, StartSession, OtherKey,
     EndSession, Start, Extend, StartLock, StartStatus, StartRadio, StartView, Stop, StopNothing,
     StopLock, StopWait, StopView, Radio, Resume, ResumeConfig, Station, StationStatus,
     StationConnect, StationFailed, Unlock, NetworkWorker, Tick, Clock, ClockStatus, Expiry,
     Request, HttpTask, SaveConfig, MarkDirty, Snapshot, Streamed, Handler, EventTask, Dispatch,
     EventOnline, EventStatus, Join, Lose, Environment, ClockSet, TenMinutes
<1> QED BY <1>1, <1>2, <1>3, <1>4 DEF Flags

(* There are no more configurations than the model gives out.              *)
LEMMA ConfigsStep ==
    ASSUME Configs, Next
    PROVE  Configs'
<1>1. config' = config \/ (config < ConfigBound /\ config' = config + 1)
  BY ZenonT(60) DEF Next, Keys, Key, TakeKey, Process, OpenSettings, LeaveSettings, StartSession, OtherKey,
     EndSession, Start, Extend, StartLock, StartStatus, StartRadio, StartView, Stop, StopNothing,
     StopLock, StopWait, StopView, Radio, Resume, ResumeConfig, Station, StationStatus,
     StationConnect, StationFailed, Unlock, NetworkWorker, Tick, Clock, ClockStatus, Expiry,
     Request, HttpTask, SaveConfig, MarkDirty, Snapshot, Streamed, Handler, EventTask, Dispatch,
     EventOnline, EventStatus, Join, Lose, Environment, ClockSet, TenMinutes
<1>2. wanted' \in {wanted, config, 0} /\ station' \in {station, wanted}
  BY ZenonT(60) DEF Next, Keys, Key, TakeKey, Process, OpenSettings, LeaveSettings, StartSession, OtherKey,
     EndSession, Start, Extend, StartLock, StartStatus, StartRadio, StartView, Stop, StopNothing,
     StopLock, StopWait, StopView, Radio, Resume, ResumeConfig, Station, StationStatus,
     StationConnect, StationFailed, Unlock, NetworkWorker, Tick, Clock, ClockStatus, Expiry,
     Request, HttpTask, SaveConfig, MarkDirty, Snapshot, Streamed, Handler, EventTask, Dispatch,
     EventOnline, EventStatus, Join, Lose, Environment, ClockSet, TenMinutes
<1> QED BY <1>1, <1>2, BoundsAssumption, SMT DEF Configs

(* What can happen to the events.                                          *)
EventMoves ==
    \/ UNCHANGED <<events, joined>>
    \/ events' = events /\ joined' = FALSE
    \/ joined /\ events' = Append(events, "lost") /\ joined' = FALSE
    \/ Len(events) < EventBound /\ events' = Append(events, "got_ip") /\ joined' = TRUE
    \/ Len(events) < EventBound /\ events' = Append(events, "lost") /\ joined' = FALSE
    \/ events # <<>> /\ events' = Tail(events) /\ joined' = joined

LEMMA EventsMove ==
    ASSUME Next
    PROVE  EventMoves
BY ZenonT(60) DEF EventMoves, Next, WifiStop, WifiGoesOn, Keys, Key, TakeKey, Process, OpenSettings, LeaveSettings, StartSession, OtherKey,
     EndSession, Start, Extend, StartLock, StartStatus, StartRadio, StartView, Stop, StopNothing,
     StopLock, StopWait, StopView, Radio, Resume, ResumeConfig, Station, StationStatus,
     StationConnect, StationFailed, Unlock, NetworkWorker, Tick, Clock, ClockStatus, Expiry,
     Request, HttpTask, SaveConfig, MarkDirty, Snapshot, Streamed, Handler, EventTask, Dispatch,
     EventOnline, EventStatus, Join, Lose, Environment, ClockSet, TenMinutes

(* The events fit.                                                         *)
LEMMA EventsStep ==
    ASSUME Events, joined \in BOOLEAN, Next
    PROVE  Events'
<1> DEFINE n == Len(events)
<1>1. n \in Nat /\ EventBound \in Nat /\ events \in Seq(EventNames)
  BY BoundsAssumption, LenProperties DEF Events
<1>2. \A e \in EventNames : Append(events, e) \in Seq(EventNames) /\ Len(Append(events, e)) = n + 1
  BY <1>1, AppendProperties
<1>3. events # <<>> => Tail(events) \in Seq(EventNames) /\ Len(Tail(events)) = n - 1
  BY <1>1, HeadTailProperties
<1>4. \/ events' = events /\ (joined' => joined)
      \/ joined /\ events' = Append(events, "lost") /\ joined' = FALSE
      \/ n < EventBound /\ (events' = Append(events, "got_ip") \/ events' = Append(events, "lost"))
      \/ events # <<>> /\ events' = Tail(events) /\ joined' = joined
  BY EventsMove DEF EventMoves
<1>5. CASE events' = events /\ (joined' => joined)
  BY <1>5 DEF Events
<1>6. CASE joined /\ events' = Append(events, "lost") /\ joined' = FALSE
  <2>1. n <= EventBound
    BY <1>6 DEF Events
  <2>2. n + 1 <= EventBound + 1
    BY <1>1, <2>1, SMT
  <2> QED BY <1>2, <1>6, <2>2 DEF Events, EventNames
<1>7. CASE n < EventBound /\ (events' = Append(events, "got_ip") \/ events' = Append(events, "lost"))
  <2>1. n + 1 <= EventBound /\ n + 1 <= EventBound + 1
    BY <1>1, <1>7, SMT
  <2> QED BY <1>2, <1>7, <2>1 DEF Events, EventNames
<1>8. CASE events # <<>> /\ events' = Tail(events) /\ joined' = joined
  <2>1. (n <= EventBound => n - 1 <= EventBound) /\ (n <= EventBound + 1 => n - 1 <= EventBound + 1)
    BY <1>1, SMT
  <2> QED BY <1>3, <1>8, <2>1 DEF Events
<1> QED BY <1>4, <1>5, <1>6, <1>7, <1>8

-----------------------------------------------------------------------------
(***************************************************************************)
(* The connection                                                          *)
(***************************************************************************)
(* Without a configuration nothing has ever been connected.                *)
Unconfigured ==
    config = 0 => /\ wanted = 0 /\ station = 0 /\ events = <<>> /\ event = "none"
                  /\ joined = FALSE /\ connecting = FALSE /\ online = FALSE /\ viewOnline = FALSE

(* The station is up and nobody is about to change it ...                  *)
Settled == /\ radio = "sta" /\ connecting = FALSE /\ portalActive = FALSE /\ stationDirty = FALSE
           /\ \A t \in Tasks : pc[t] \notin RadioSteps \ {"unlock"}

(* ... so that its newest event tells how it stands, and when none is left *)
(* the device knows.                                                       *)
Known ==
    /\ events # <<>> => joined = (events[Len(events)] = "got_ip")
    /\ events = <<>> /\ event \in {"got_ip", "got_ip_status"} => joined = TRUE
    /\ events = <<>> /\ event \in {"lost", "lost_status"} => joined = FALSE
    /\ events = <<>> /\ event \in {"none", "got_ip_status", "lost_status"} => online = joined
    /\ events = <<>> /\ event = "none" => viewOnline = online

Current == Unconfigured /\ (Settled => Known)

(* Without a configuration no step connects anything.                      *)
LEMMA UnconfiguredStep ==
    ASSUME Unconfigured, Configs, Next
    PROVE  Unconfigured'
<1>1. config' = 0 => config = 0
  <2>1. config' = config \/ config' = config + 1
    BY ZenonT(60) DEF Next, Keys, Key, TakeKey, Process, OpenSettings, LeaveSettings, StartSession, OtherKey,
     EndSession, Start, Extend, StartLock, StartStatus, StartRadio, StartView, Stop, StopNothing,
     StopLock, StopWait, StopView, Radio, Resume, ResumeConfig, Station, StationStatus,
     StationConnect, StationFailed, Unlock, NetworkWorker, Tick, Clock, ClockStatus, Expiry,
     Request, HttpTask, SaveConfig, MarkDirty, Snapshot, Streamed, Handler, EventTask, Dispatch,
     EventOnline, EventStatus, Join, Lose, Environment, ClockSet, TenMinutes
  <2> QED BY <2>1, BoundsAssumption, SMT DEF Configs
<1> SUFFICES ASSUME config = 0
             PROVE  /\ wanted' = 0 /\ station' = 0 /\ events' = <<>> /\ event' = "none"
                    /\ joined' = FALSE /\ connecting' = FALSE /\ online' = FALSE /\ viewOnline' = FALSE
  BY <1>1 DEF Unconfigured
<1>2. /\ wanted = 0 /\ station = 0 /\ events = <<>> /\ event = "none"
      /\ joined = FALSE /\ connecting = FALSE /\ online = FALSE /\ viewOnline = FALSE
  BY DEF Unconfigured
<1>3. wanted' = 0 /\ station' = 0
  BY <1>2, ZenonT(60) DEF Next, Keys, Key, TakeKey, Process, OpenSettings, LeaveSettings, StartSession, OtherKey,
     EndSession, Start, Extend, StartLock, StartStatus, StartRadio, StartView, Stop, StopNothing,
     StopLock, StopWait, StopView, Radio, Resume, ResumeConfig, Station, StationStatus,
     StationConnect, StationFailed, Unlock, NetworkWorker, Tick, Clock, ClockStatus, Expiry,
     Request, HttpTask, SaveConfig, MarkDirty, Snapshot, Streamed, Handler, EventTask, Dispatch,
     EventOnline, EventStatus, Join, Lose, Environment, ClockSet, TenMinutes
<1>4. events' = <<>> /\ joined' = FALSE /\ event' = "none"
  BY <1>2, ZenonT(60) DEF Next, WifiStop, WifiGoesOn, Keys, Key, TakeKey, Process, OpenSettings, LeaveSettings, StartSession, OtherKey,
     EndSession, Start, Extend, StartLock, StartStatus, StartRadio, StartView, Stop, StopNothing,
     StopLock, StopWait, StopView, Radio, Resume, ResumeConfig, Station, StationStatus,
     StationConnect, StationFailed, Unlock, NetworkWorker, Tick, Clock, ClockStatus, Expiry,
     Request, HttpTask, SaveConfig, MarkDirty, Snapshot, Streamed, Handler, EventTask, Dispatch,
     EventOnline, EventStatus, Join, Lose, Environment, ClockSet, TenMinutes
<1>5. connecting' = FALSE
  BY <1>2, ZenonT(60) DEF Next, WifiStop, WifiGoesOn, Keys, Key, TakeKey, Process, OpenSettings, LeaveSettings, StartSession, OtherKey,
     EndSession, Start, Extend, StartLock, StartStatus, StartRadio, StartView, Stop, StopNothing,
     StopLock, StopWait, StopView, Radio, Resume, ResumeConfig, Station, StationStatus,
     StationConnect, StationFailed, Unlock, NetworkWorker, Tick, Clock, ClockStatus, Expiry,
     Request, HttpTask, SaveConfig, MarkDirty, Snapshot, Streamed, Handler, EventTask, Dispatch,
     EventOnline, EventStatus, Join, Lose, Environment, ClockSet, TenMinutes
<1>6. online' = FALSE /\ viewOnline' = FALSE
  BY <1>2, ZenonT(60) DEF Next, Status, Keys, Key, TakeKey, Process, OpenSettings, LeaveSettings, StartSession, OtherKey,
     EndSession, Start, Extend, StartLock, StartStatus, StartRadio, StartView, Stop, StopNothing,
     StopLock, StopWait, StopView, Radio, Resume, ResumeConfig, Station, StationStatus,
     StationConnect, StationFailed, Unlock, NetworkWorker, Tick, Clock, ClockStatus, Expiry,
     Request, HttpTask, SaveConfig, MarkDirty, Snapshot, Streamed, Handler, EventTask, Dispatch,
     EventOnline, EventStatus, Join, Lose, Environment, ClockSet, TenMinutes
<1> QED BY <1>3, <1>4, <1>5, <1>6

(* What the connection is judged by.                                       *)
Evidence == <<events, event, joined, online, viewOnline>>

LEMMA EvidenceStands == UNCHANGED Evidence /\ Known => Known'
BY DEF Evidence, Known

(* The event task handles the events in order: the newest one is the last  *)
(* to tell.                                                                *)
LEMMA EventTaskKnown ==
    ASSUME Portal, Ranges, Events, Current, EventTask, Settled'
    PROVE  Known'
<1>1. UNCHANGED <<pc, radio, connecting, portalActive, stationDirty, joined>>
  BY ZenonT(30) DEF EventTask, Dispatch, EventOnline, EventStatus
<1>2. Settled /\ Known
  BY <1>1 DEF Settled, Current
<1>3. CASE Dispatch
  <2>1. /\ event = "none" /\ events # <<>> /\ events' = Tail(events) /\ event' = Head(events)
        /\ UNCHANGED <<online, viewOnline>>
    BY <1>2, <1>3 DEF Dispatch, Settled
  <2> DEFINE n == Len(events)
  <2>2. n \in Nat \ {0} /\ events \in Seq(EventNames)
    BY <2>1, EmptySeq DEF Events
  <2>3. /\ Head(events) = events[1] /\ events[1] \in EventNames
        /\ Tail(events) \in Seq(EventNames) /\ Len(Tail(events)) = n - 1
        /\ \A i \in 1 .. n - 1 : Tail(events)[i] = events[i + 1]
    <3>1. events[1] \in EventNames /\ Head(events) = events[1]
      BY <2>2, ElementOfSeq, SMT
    <3> QED BY <2>1, <2>2, <3>1, HeadTailProperties
  <2> HIDE DEF n
  <2>4. joined = (events[n] = "got_ip")
    BY <1>2, <2>1 DEF Known, n
  <2>5. CASE n = 1
    <3>1. events' = <<>>
      BY <2>1, <2>3, <2>5, EmptySeq, SMT
    <3>2. event' = events[1] /\ event' \in {"got_ip", "lost"} /\ joined' = (event' = "got_ip")
      BY <1>1, <2>1, <2>3, <2>4, <2>5 DEF EventNames
    <3> QED BY <3>1, <3>2 DEF Known
  <2>6. CASE n # 1
    <3>1. n - 1 \in 1 .. n - 1 /\ (n - 1) + 1 = n
      BY <2>2, <2>6, SMT
    <3>2. Tail(events)[n - 1] = events[n]
      BY <2>3, <3>1
    <3>3. Len(events') = n - 1 /\ events'[Len(events')] = events[n]
      BY <2>1, <2>3, <3>2
    <3>4. events' # <<>>
      <4>1. n - 1 # 0
        BY <2>2, <2>6, SMT
      <4> QED BY <3>3, <4>1, EmptySeq
    <3> QED BY <1>1, <2>4, <3>3, <3>4 DEF Known
  <2> QED BY <2>5, <2>6
<1>4. CASE EventOnline
  <2>1. \/ event = "got_ip" /\ event' = "got_ip_status" /\ online' = TRUE
        \/ event = "lost" /\ event' = "lost_status" /\ online' = FALSE
    BY <1>4 DEF EventOnline
  <2>2. UNCHANGED events
    BY <1>4 DEF EventOnline
  <2> QED BY <1>1, <1>2, <2>1, <2>2 DEF Known
<1>5. CASE EventStatus
  <2>1. \/ event = "got_ip_status" /\ viewOnline' = TRUE
        \/ event = "lost_status" /\ viewOnline' = FALSE
    BY <1>5 DEF EventStatus, Status
  <2>2. event' = "none" /\ UNCHANGED <<events, online>>
    BY <1>5 DEF EventStatus
  <2> QED BY <1>1, <1>2, <2>1, <2>2 DEF Known
<1> QED BY <1>3, <1>4, <1>5 DEF EventTask

(* A connection that comes about or ends leaves its event.                 *)
LEMMA EnvironmentKnown ==
    ASSUME Events, Join \/ Lose
    PROVE  Known'
<1>1. \E e \in EventNames : events' = Append(events, e) /\ joined' = (e = "got_ip")
  BY DEF Join, Lose, Environment, EventNames
<1>2. PICK e \in EventNames : events' = Append(events, e) /\ joined' = (e = "got_ip")
  BY <1>1
<1>3. events' # <<>> /\ Len(events') = Len(events) + 1 /\ events'[Len(events) + 1] = e
  BY <1>2, AppendProperties DEF Events
<1> QED BY <1>2, <1>3 DEF Known

(* Starting the station gives it an event to come, or there is nothing to  *)
(* connect to.                                                             *)
LEMMA RadioKnown ==
    ASSUME Portal, Current, Flags, NEW t \in Tasks, Radio(t), Settled'
    PROVE  Known'
<1>0. pc \in [Tasks -> Steps]
  BY DEF Portal, Places
<1>1. ASSUME NEW q \in RadioSteps \ {"unlock"}, pc' = [pc EXCEPT ![t] = q]
      PROVE  FALSE
  <2>1. pc'[t] = q
    BY <1>0, <1>1
  <2> QED BY <1>1, <2>1 DEF Settled
<1>2. ~Resume(t) /\ ~ResumeConfig(t) /\ ~Station(t) /\ ~StationStatus(t)
  <2>1. {"resume_config", "station", "station_status", "station_connect", "failed"}
           \subseteq RadioSteps \ {"unlock"}
    BY DEF RadioSteps
  <2> QED BY <1>1, <2>1, ZenonT(30) DEF Resume, ResumeConfig, Station, StationStatus, Go
<1>3. CASE StationConnect(t)
  <2>1. pc[t] = "station_connect" /\ UNCHANGED Evidence /\ UNCHANGED config
    BY <1>3, ZenonT(30) DEF StationConnect, Go, Evidence
  <2>2. connecting' = (wanted # 0)
    <3>1. "failed" \in RadioSteps \ {"unlock"}
      BY DEF RadioSteps
    <3> QED BY <1>1, <1>3, <3>1, ZenonT(30) DEF StationConnect, Go
  <2>3. wanted = config
    BY <2>1 DEF Portal, Phases, Phase
  <2>4. config = 0
    BY <2>2, <2>3 DEF Settled
  <2> QED BY <2>1, <2>4 DEF Current, Unconfigured, Evidence, Known
<1>4. CASE StationFailed(t)
  BY <1>4 DEF StationFailed, Settled
<1>5. CASE Unlock(t)
  <2>1. pc[t] = "unlock" /\ UNCHANGED Evidence /\ UNCHANGED <<radio, connecting, portalActive, stationDirty>>
    BY <1>5 DEF Unlock, Go, Evidence
  <2>2. \A u \in Tasks : u # t => pc'[u] = pc[u]
    BY <1>0, <1>5 DEF Unlock, Go
  <2>3. Settled
    BY <2>1, <2>2 DEF Settled
  <2> QED BY <2>1, <2>3, EvidenceStands DEF Current
<1> QED BY <1>2, <1>3, <1>4, <1>5 DEF Radio

(* Every other step leaves a settled station alone.                        *)
LEMMA OthersKnown ==
    ASSUME Portal, Ranges, Flags, Current, Settled', Next,
           ~EventTask, ~Join, ~Lose, \A t \in Tasks : ~Radio(t)
    PROVE  Known'
<1>0. pc \in [Tasks -> Steps] /\ "w" \in Tasks /\ "n" \in Tasks
  BY DEF Portal, Places, Tasks
<1>1. CASE StartLock \/ StartStatus \/ StartRadio \/ StartView
  <2>1. CASE StartLock
    BY <2>1 DEF StartLock, Settled
  <2>2. CASE StartStatus \/ StartRadio \/ StartView
    <3>1. pc["w"] \in {"start_status", "start_radio", "start_view"} /\ UNCHANGED portalActive
      BY <2>2, ZenonT(30) DEF StartStatus, StartRadio, StartView, Go
    <3>2. Phase(pc["w"])
      BY <1>0 DEF Portal, Phases
    <3>3. portalActive = TRUE
      BY <3>1, <3>2 DEF Phase
    <3> QED BY <3>1, <3>3 DEF Settled
  <2> QED BY <1>1, <2>1, <2>2
<1>2. ASSUME UNCHANGED Evidence, UNCHANGED <<radio, portalActive>>,
             connecting' = FALSE => connecting = FALSE, stationDirty' = FALSE => stationDirty = FALSE,
             \A t \in Tasks : pc[t] \in RadioSteps \ {"unlock"} => pc'[t] = pc[t]
      PROVE  Known'
  <2>1. Settled
    BY <1>2 DEF Settled
  <2> QED BY <1>2, <2>1, EvidenceStands DEF Current
<1>3. ASSUME NEW t \in Tasks, NEW q, pc' = [pc EXCEPT ![t] = q], pc[t] \notin RadioSteps
      PROVE  \A u \in Tasks : pc[u] \in RadioSteps \ {"unlock"} => pc'[u] = pc[u]
  BY <1>0, <1>3
<1>4. CASE Keys \/ Extend
  <2>1. UNCHANGED Evidence /\ UNCHANGED <<radio, portalActive, connecting, stationDirty>>
    BY <1>4, ZenonT(30) DEF Keys, Key, TakeKey, Process, OpenSettings, LeaveSettings, StartSession,
       OtherKey, EndSession, Extend, Evidence
  <2>2. \E q : pc' = [pc EXCEPT !["w"] = q] /\ pc["w"] \notin RadioSteps
    BY <1>4, ZenonT(60) DEF Keys, Key, TakeKey, Process, OpenSettings, LeaveSettings, StartSession,
       OtherKey, EndSession, Extend, Go, RadioSteps
  <2> QED BY <1>0, <1>2, <1>3, <2>1, <2>2
<1>5. ASSUME NEW t \in Tasks, Stop(t)
      PROVE  Known'
  <2>1. UNCHANGED Evidence /\ UNCHANGED <<radio, portalActive, connecting, stationDirty>>
    BY <1>5, ZenonT(30) DEF Stop, StopNothing, StopLock, StopWait, StopView, Evidence
  <2>2. \E q : pc' = [pc EXCEPT ![t] = q] /\ pc[t] \notin RadioSteps
    BY <1>5, ZenonT(60) DEF Stop, StopNothing, StopLock, StopWait, StopView, Go, RadioSteps
  <2> QED BY <1>2, <1>3, <2>1, <2>2
<1>6. CASE NetworkWorker
  <2>1. UNCHANGED Evidence /\ UNCHANGED <<radio, portalActive>>
    BY <1>6, ZenonT(30) DEF NetworkWorker, Tick, Clock, ClockStatus, Expiry, Evidence
  <2>2. PICK q : /\ pc' = [pc EXCEPT !["n"] = q] /\ pc["n"] \notin RadioSteps
                 /\ stationDirty' = stationDirty \/ q = "resume"
    BY <1>6, ZenonT(60) DEF NetworkWorker, Tick, Clock, ClockStatus, Expiry, Go, RadioSteps
  <2>3. q # "resume"
    <3>1. pc'["n"] = q
      BY <1>0, <2>2
    <3> QED BY <1>0, <3>1 DEF Settled, RadioSteps
  <2>4. connecting' = FALSE => connecting = FALSE
    BY <1>6, ZenonT(30) DEF NetworkWorker, Tick, Clock, ClockStatus, Expiry, Flags
  <2> QED BY <1>0, <1>2, <1>3, <2>1, <2>2, <2>3, <2>4
<1>7. CASE Request \/ HttpTask \/ ClockSet \/ TenMinutes
  <2>1. UNCHANGED Evidence /\ UNCHANGED <<pc, radio, portalActive, connecting>>
        /\ (stationDirty' = stationDirty \/ stationDirty' = TRUE)
    BY <1>7, ZenonT(60) DEF Request, HttpTask, SaveConfig, MarkDirty, Snapshot, Streamed, Handler,
       ClockSet, TenMinutes, Evidence
  <2> QED BY <1>2, <2>1
<1> QED BY <1>1, <1>4, <1>5, <1>6, <1>7 DEF Next, Start

-----------------------------------------------------------------------------
IInv == /\ Portal /\ Page /\ Brought
        /\ Ranges /\ Flags /\ Configs /\ Events /\ Current

(* The strengthened invariant holds at the start.                          *)
LEMMA InitIInv == Init => IInv
<1> SUFFICES ASSUME Init PROVE IInv
  OBVIOUS
<1>0. PICK p \in {"idle", "start_lock"} :
         /\ pc = [w |-> p, n |-> "idle"]
         /\ p = "start_lock" => page = "SETTINGS"
  BY DEF Init
<1>1. pc["w"] = p /\ pc["n"] = "idle" /\ pc \in [Tasks -> {p, "idle"}]
  BY <1>0 DEF Tasks
<1>2. Places
  BY <1>1 DEF Places, Steps, WorkerSteps, NetworkSteps, StartSteps, Tasks
<1>3. \A t \in Tasks : pc[t] \in {"idle", "start_lock"}
  BY <1>1 DEF Tasks
<1>4. Locks /\ Phases
  <2>1. {"idle", "start_lock"} \cap Held = {}
    BY DEF Held, RadioSteps
  <2>2. Shows
    BY DEF Init, Shows
  <2>3. Locks
    BY <1>3, <2>1 DEF Init, Locks, Tasks
  <2>4. \A t \in Tasks : Phase(pc[t])
    BY <1>3, ZenonT(30) DEF Phase, RadioSteps
  <2> QED BY <2>2, <2>3, <2>4 DEF Phases
<1>5. Served /\ Page
  <2>1. server = "down" /\ http = "idle"
    BY DEF Init
  <2>2. pc["w"] \in StartSteps => page = "SETTINGS"
    BY <1>0, <1>1 DEF StartSteps
  <2>3. pc["w"] # "session"
    BY <1>0, <1>1
  <2> QED BY <2>1, <2>2, <2>3 DEF Served, Page, PortalOnlyInSettings
<1>6. Brought
  BY DEF Init, Brought
<1>7. Ranges /\ Flags
  BY ZenonT(30) DEF Init, Ranges, Flags
<1>8. Configs
  BY BoundsAssumption, SMT DEF Init, Configs
<1>9. Events
  BY EmptySeq, BoundsAssumption, SMT DEF Init, Events
<1>10. Current
  <2>1. Known
    BY DEF Init, Known
  <2>2. Unconfigured
    BY DEF Init, Unconfigured
  <2> QED BY <2>1, <2>2 DEF Current
<1> QED BY <1>2, <1>4, <1>5, <1>6, <1>7, <1>8, <1>9, <1>10 DEF IInv, Portal

(* A step that changes nothing keeps it.                                   *)
LEMMA StutterIInv == IInv /\ UNCHANGED vars => IInv'
BY DEF vars, IInv, Portal, Places, Locks, Phases, Phase, Shows, Served, Page, PortalOnlyInSettings,
       Brought, Ranges, Flags, Configs, Events, Current, Unconfigured, Settled, Known

(* Every step keeps it.                                                    *)
LEMMA StepIInv == IInv /\ [Next]_vars => IInv'
<1> SUFFICES ASSUME IInv, Next PROVE IInv'
  BY StutterIInv
<1>1. Portal' /\ Page'
  BY PortalStep, PageStep DEF IInv
<1>2. stationDirty \in BOOLEAN /\ viewOnline \in BOOLEAN /\ joined \in BOOLEAN
  BY DEF IInv, Flags
<1>3. Brought' /\ Ranges' /\ Flags' /\ Configs' /\ Events'
  BY <1>2, ConfigStep, RangesStep, FlagsStep, ConfigsStep, EventsStep DEF IInv, Events
<1>4. Settled' => Known'
  BY EventTaskKnown, EnvironmentKnown, RadioKnown, OthersKnown DEF IInv
<1>5. Current'
  BY <1>4, UnconfiguredStep DEF IInv, Current
<1> QED BY <1>1, <1>3, <1>5 DEF IInv

(* So it always holds.                                                     *)
LEMMA Invariance == Spec => []IInv
BY InitIInv, StepIInv, PTL DEF Spec

(* The variables keep to their ranges, for any number of configurations    *)
(* and of waiting events.                                                  *)
THEOREM TypeCorrect == Spec => []TypeOK
<1>1. IInv => TypeOK
  BY DEF IInv, Portal, Places, Locks, Ranges, Flags, Configs, Events, TypeOK, WorkerSteps,
         NetworkSteps, EventNames
<1> QED BY Invariance, <1>1, PTL

(* The portal serves only the settings page, or is being closed.           *)
THEOREM PortalStaysInSettings == Spec => []PortalOnlyInSettings
<1>1. IInv => PortalOnlyInSettings
  BY DEF IInv, Page
<1> QED BY Invariance, <1>1, PTL

(* Whenever the portal's lock is free, the screen, the flag and the server *)
(* agree on whether the portal is open, which it is on an access point; an *)
(* access point that the driver refused to end when the portal was closed  *)
(* (start_station, 291-293, under resume_station, 312-323) is marked, so   *)
(* that network_worker tries again.                                        *)
THEOREM ViewIsTrue == Spec => []ViewShowsPortal
<1>1. IInv => ViewShowsPortal
  BY DEF IInv, Portal, Phases, Shows, ViewShowsPortal
<1> QED BY Invariance, <1>1, PTL

(* A configuration the driver has not got is marked, or on its way.        *)
THEOREM ConfigsAreRemembered == Spec => []ConfigNotForgotten
<1>1. IInv => ConfigNotForgotten
  <2> SUFFICES ASSUME IInv, config # station, ~stationDirty, http # "mark"
               PROVE  \E t \in Tasks : (\/ pc[t] \in {"resume", "resume_config", "failed"}
                                       \/ (pc[t] = "station" /\ wanted = config))
    BY DEF ConfigNotForgotten
  <2>1. PICK t \in Tasks : Bringing(pc[t])
    BY DEF IInv, Brought
  <2>2. pc[t] = "station" => wanted = config
    BY DEF IInv, Portal, Phases, Phase
  <2> QED BY <2>1, <2>2 DEF Bringing
<1> QED BY Invariance, <1>1, PTL

(* Once its events are handled, the device knows whether it is online.     *)
THEOREM OnlineIsKnown == Spec => []OnlineIsCurrent
<1>1. IInv => OnlineIsCurrent
  <2> SUFFICES ASSUME IInv PROVE OnlineIsCurrent
    OBVIOUS
  <2>1. link = "READY" => viewOnline
    BY DEF IInv, Ranges
  <2>2. ASSUME events = <<>>, event = "none", portalLock = "free", radio = "sta", ~connecting,
               ~stationDirty
        PROVE  online = joined /\ viewOnline = online
    <3>1. Shows
      BY <2>2 DEF IInv, Portal, Phases
    <3>2. portalActive = FALSE
      BY <2>2, <3>1 DEF Shows
    <3>3. \A t \in Tasks : pc[t] \notin RadioSteps \ {"unlock"}
      <4>1. \A t \in Tasks : pc[t] \notin Held
        BY <2>2 DEF IInv, Portal, Locks, Tasks
      <4> QED BY <4>1 DEF Held
    <3>4. Settled
      BY <2>2, <3>2, <3>3 DEF Settled, IInv, Flags
    <3> QED BY <2>2, <3>4 DEF IInv, Current, Known
  <2> QED BY <2>1, <2>2 DEF OnlineIsCurrent
<1> QED BY Invariance, <1>1, PTL

-----------------------------------------------------------------------------
(***************************************************************************)
(* How long a lock is kept: the safety half of WorkerReturns, ExpiryCloses *)
(* and ConfigReaches.                                                      *)
(***************************************************************************)
TaskStep(t) == \/ t = "w" /\ (Keys \/ Start)
               \/ t = "n" /\ NetworkWorker
               \/ Stop(t) \/ Radio(t)

(* At most this many steps of its own until a task gives the portal's lock *)
(* and, at a place of the worker's, until it is back.                      *)
StepsLeft(p) ==
    CASE p = "start_lock" -> 14
      [] p = "start_status" -> 13
      [] p \in {"start_radio", "stop_lock"} -> 12
      [] p = "stop_wait" -> 11
      [] p = "stop_view" -> 10
      [] p = "resume" -> 9
      [] p = "resume_config" -> 8
      [] p = "station" -> 7
      [] p = "station_status" -> 6
      [] p = "station_connect" -> 5
      [] p = "failed" -> 4
      [] p = "clock" -> 3
      [] p = "clock_status" -> 2
      [] p \in {"start_view", "expiry", "unlock"} -> 1
      [] OTHER -> 0

HandlerSteps(h) ==
    CASE h \in {"save", "audio"} -> 2
      [] h \in {"notes", "mark", "streaming"} -> 1
      [] OTHER -> 0

(* The application lock is process's alone, which neither has nor awaits   *)
(* the portal's; and httpd_stop waits with a server that admits nothing.   *)
LockWaits ==
    /\ appLock = "w" <=> pc["w"] = "process"
    /\ \A t \in Tasks : pc[t] = "stop_wait" => server # "up"

(* The holder of the portal's lock comes nearer to giving it with each of  *)
(* its steps, the worker to its return; nobody else's step takes them      *)
(* back.                                                                   *)
LockRunsDown ==
    \A t \in Tasks : portalLock = t =>
      /\ TaskStep(t) => \/ portalLock' = "free"
                        \/ portalLock' = t /\ StepsLeft(pc[t])' < StepsLeft(pc[t])
      /\ ~TaskStep(t) => portalLock' = t /\ pc'[t] = pc[t]
WorkerRunsDown ==
    pc["w"] \in StartSteps \cup StopSteps \cup RadioSteps =>
      /\ TaskStep("w") => StepsLeft(pc["w"])' < StepsLeft(pc["w"])
      /\ ~TaskStep("w") => pc'["w"] = pc["w"]

(* What httpd_stop waits for: the handler that is running, and no other.   *)
HandlersDrain ==
    server # "up" => /\ HttpTask => HandlerSteps(http)' < HandlerSteps(http)
                     /\ ~HttpTask => http' = http

(* The measure where it is used.                                           *)
Bounded ==
    /\ \A t \in Tasks : portalLock = t => StepsLeft(pc[t]) \in 1 .. 13
    /\ pc["w"] \in StartSteps \cup StopSteps \cup RadioSteps => StepsLeft(pc["w"]) \in 1 .. 14

(* The cases of the measure.                                               *)
LEMMA StepsLeftCases ==
    /\ StepsLeft("start_lock") = 14 /\ StepsLeft("start_status") = 13
    /\ StepsLeft("start_radio") = 12 /\ StepsLeft("stop_lock") = 12
    /\ StepsLeft("stop_wait") = 11 /\ StepsLeft("stop_view") = 10
    /\ StepsLeft("resume") = 9 /\ StepsLeft("resume_config") = 8
    /\ StepsLeft("station") = 7 /\ StepsLeft("station_status") = 6
    /\ StepsLeft("station_connect") = 5 /\ StepsLeft("failed") = 4
    /\ StepsLeft("clock") = 3 /\ StepsLeft("clock_status") = 2
    /\ StepsLeft("start_view") = 1 /\ StepsLeft("expiry") = 1 /\ StepsLeft("unlock") = 1
    /\ StepsLeft("idle") = 0 /\ StepsLeft("process") = 0 /\ StepsLeft("session") = 0
BY DEF StepsLeft

(* What each step of the two tasks does to its place and to the lock.      *)
Path(t, from, to) ==
    /\ pc[t] = from /\ pc' = [pc EXCEPT ![t] = to]
    /\ \/ from \in {"idle", "process", "session"} /\ (portalLock' = portalLock \/ portalLock = "free")
       \/ from \in {"start_view", "unlock"} /\ to \in {"idle", "session"} /\ portalLock' = "free"
       \/ from = "expiry" /\ to \in {"idle", "stop_lock"} /\ portalLock' = "free"
       \/ /\ from \in {"start_lock", "stop_lock"} /\ portalLock = "free"
          /\ StepsLeft(to) < StepsLeft(from)
       \/ portalLock' = portalLock /\ StepsLeft(to) < StepsLeft(from)

LEMMA TaskPath ==
    ASSUME NEW t \in Tasks, TaskStep(t)
    PROVE  \E from, to : Path(t, from, to)
<1> USE DEF Go
<1>1. CASE t = "w" /\ Keys
  <2>1. \E from \in {"idle", "process", "session"} : \E to :
           pc["w"] = from /\ pc' = [pc EXCEPT !["w"] = to] /\ portalLock' = portalLock
    BY <1>1, ZenonT(60) DEF Keys, Key, TakeKey, Process, OpenSettings, LeaveSettings, StartSession,
       OtherKey, EndSession
  <2> QED BY <1>1, <2>1 DEF Path
<1>2. CASE t = "w" /\ Start
  <2>1. CASE Extend
    <3>1. Path("w", "start_lock", "idle")
      BY <2>1, StepsLeftCases DEF Extend, Path
    <3> QED BY <1>2, <3>1
  <2>2. CASE StartLock
    <3>1. Path("w", "start_lock", "start_status")
      BY <2>2, StepsLeftCases DEF StartLock, TakePortalLock, Path
    <3> QED BY <1>2, <3>1
  <2>3. CASE StartStatus
    <3>1. Path("w", "start_status", "start_radio")
      BY <2>3, StepsLeftCases DEF StartStatus, Path
    <3> QED BY <1>2, <3>1
  <2>4. CASE StartRadio
    <3>1. PICK to \in {"start_view", "stop_wait"} :
             pc["w"] = "start_radio" /\ pc' = [pc EXCEPT !["w"] = to] /\ portalLock' = portalLock
      BY <2>4, ZenonT(30) DEF StartRadio
    <3>2. Path("w", "start_radio", to)
      BY <3>1, StepsLeftCases DEF Path
    <3> QED BY <1>2, <3>2
  <2>5. CASE StartView
    <3>1. Path("w", "start_view", "idle")
      BY <2>5 DEF StartView, Path
    <3> QED BY <1>2, <3>1
  <2> QED BY <1>2, <2>1, <2>2, <2>3, <2>4, <2>5 DEF Start
<1>3. CASE t = "n" /\ NetworkWorker
  <2>1. CASE Tick
    <3>1. \E to : Path("n", "idle", to)
      BY <2>1, ZenonT(30) DEF Tick, TakePortalLock, Path
    <3> QED BY <1>3, <3>1
  <2>2. CASE Clock
    <3>1. PICK to \in {"clock_status", "expiry"} :
             pc["n"] = "clock" /\ pc' = [pc EXCEPT !["n"] = to] /\ portalLock' = portalLock
      BY <2>2, ZenonT(30) DEF Clock
    <3>2. Path("n", "clock", to)
      BY <3>1, StepsLeftCases DEF Path
    <3> QED BY <1>3, <3>2
  <2>3. CASE ClockStatus
    <3>1. Path("n", "clock_status", "expiry")
      BY <2>3, StepsLeftCases DEF ClockStatus, Path
    <3> QED BY <1>3, <3>1
  <2>4. CASE Expiry
    <3>1. \E to : Path("n", "expiry", to)
      BY <2>4, ZenonT(30) DEF Expiry, Path
    <3> QED BY <1>3, <3>1
  <2> QED BY <1>3, <2>1, <2>2, <2>3, <2>4 DEF NetworkWorker
<1>4. /\ Leave(t) \in {"idle", "session"} /\ Resumed(t) \in {"clock", "unlock"}
      /\ StepsLeft(Leave(t)) = 0 /\ StepsLeft(Resumed(t)) < 4
  <2>1. Leave(t) \in {"idle", "session"} /\ Resumed(t) \in {"clock", "unlock"}
    BY DEF Leave, AfterPortal, Resumed
  <2> QED BY <2>1, StepsLeftCases
<1>5. CASE Stop(t)
  <2>1. CASE StopNothing(t)
    <3>1. Path(t, "stop_lock", Leave(t))
      BY <1>4, <2>1, StepsLeftCases DEF StopNothing, Path
    <3> QED BY <3>1
  <2>2. CASE StopLock(t)
    <3>1. Path(t, "stop_lock", "stop_wait")
      BY <2>2, StepsLeftCases DEF StopLock, TakePortalLock, Path
    <3> QED BY <3>1
  <2>3. CASE StopWait(t)
    <3>1. Path(t, "stop_wait", "stop_view")
      BY <2>3, StepsLeftCases DEF StopWait, Path
    <3> QED BY <3>1
  <2>4. CASE StopView(t)
    <3>1. Path(t, "stop_view", "resume")
      BY <2>4, StepsLeftCases DEF StopView, Path
    <3> QED BY <3>1
  <2> QED BY <1>5, <2>1, <2>2, <2>3, <2>4 DEF Stop
<1>6. CASE Radio(t)
  <2>1. CASE Unlock(t)
    <3>1. Path(t, "unlock", Leave(t))
      BY <1>4, <2>1 DEF Unlock, Path
    <3> QED BY <3>1
  <2>2. CASE ~Unlock(t)
    <3>1. PICK from, to :
             /\ pc[t] = from /\ pc' = [pc EXCEPT ![t] = to] /\ portalLock' = portalLock
             /\ \/ from = "resume" /\ to = "resume_config"
                \/ from = "resume_config" /\ to = "station"
                \/ from = "station" /\ to \in {"station_status", "failed"}
                \/ from = "station_status" /\ to = "station_connect"
                \/ from = "station_connect" /\ to \in {Resumed(t), "failed"}
                \/ from = "failed" /\ to = Resumed(t)
      BY <1>6, <2>2, ZenonT(60) DEF Radio, Resume, ResumeConfig, Station, StationStatus,
         StationConnect, StationFailed
    <3>2. StepsLeft(to) < StepsLeft(from)
      BY <1>4, <3>1, StepsLeftCases
    <3> QED BY <3>1, <3>2 DEF Path
  <2> QED BY <2>1, <2>2
<1> QED BY <1>1, <1>2, <1>3, <1>5, <1>6 DEF TaskStep
(* The other steps move neither task and leave the portal's lock alone.    *)
LEMMA OthersStep ==
    ASSUME Next, ~TaskStep("w"), ~TaskStep("n")
    PROVE  UNCHANGED <<pc, portalLock, appLock, server>>
<1>1. Request \/ HttpTask \/ EventTask \/ Join \/ Lose \/ ClockSet \/ TenMinutes
  BY ZenonT(30) DEF Next, TaskStep, Tasks
<1> QED BY <1>1, ZenonT(60) DEF Request, HttpTask, SaveConfig, MarkDirty, Snapshot, Streamed, Handler,
     EventTask, Dispatch, EventOnline, EventStatus, Join, Lose, Environment, ClockSet, TenMinutes

(* httpd_stop is called with the lock, by StopLock or after a failed start.*)
LEMMA IntoStopWait ==
    ASSUME Places, NEW t \in Tasks, Next, pc'[t] = "stop_wait",
           ~StopLock(t), ~(t = "w" /\ StartRadio)
    PROVE  pc[t] = "stop_wait"
<1>1. CASE ~TaskStep("w") /\ ~TaskStep("n")
  BY <1>1, OthersStep
<1>2. ASSUME NEW u \in Tasks, TaskStep(u), u # t
      PROVE  pc[t] = "stop_wait"
  <2>1. PICK from, to : Path(u, from, to)
    BY <1>2, TaskPath
  <2> QED BY <1>2, <2>1 DEF Path, Places
<1>3. CASE TaskStep(t)
  <2>1. PICK to : pc' = [pc EXCEPT ![t] = to] /\ to # "stop_wait"
    <3>1. Leave(t) \in {"idle", "session"} /\ Resumed(t) \in {"clock", "unlock"}
      BY DEF Leave, AfterPortal, Resumed
    <3>2. CASE t = "w" /\ Keys
      BY <3>2, ZenonT(60) DEF Keys, Key, TakeKey, Process, OpenSettings, LeaveSettings, StartSession,
         OtherKey, EndSession, Go
    <3>3. CASE t = "w" /\ Start
      BY <3>3, ZenonT(60) DEF Start, Extend, StartLock, StartStatus, StartView, Go
    <3>4. CASE t = "n" /\ NetworkWorker
      BY <3>4, ZenonT(60) DEF NetworkWorker, Tick, Clock, ClockStatus, Expiry, Go
    <3>5. CASE Stop(t)
      BY <3>1, <3>5, ZenonT(60) DEF Stop, StopNothing, StopWait, StopView, Go
    <3>6. CASE Radio(t)
      BY <3>1, <3>6, ZenonT(60) DEF Radio, Resume, ResumeConfig, Station, StationStatus,
         StationConnect, StationFailed, Unlock, Go
    <3> QED BY <1>3, <3>2, <3>3, <3>4, <3>5, <3>6 DEF TaskStep
  <2> QED BY <2>1 DEF Places
<1> QED BY <1>1, <1>2, <1>3 DEF Tasks

(* The locks are taken in one order, and a closing server admits nothing.  *)
LEMMA LockWaitsStep ==
    ASSUME Portal, LockWaits, Next
    PROVE  LockWaits'
<1>0. "w" \in Tasks /\ "n" \in Tasks /\ Places
  BY DEF Tasks, Portal
<1>1. (appLock = "w" <=> pc["w"] = "process")'
  <2>1. CASE TakeKey
    BY <1>0, <2>1 DEF TakeKey, Go, Places
  <2>2. CASE Key
    <3>1. PICK to \in {"start_lock", "stop_lock", "idle"} :
             pc' = [pc EXCEPT !["w"] = to] /\ appLock' = "free"
      BY <2>2, ZenonT(30) DEF Key, Process, OpenSettings, LeaveSettings, StartSession, OtherKey, Go
    <3> QED BY <1>0, <3>1 DEF Places
  <2>3. CASE EndSession \/ Start \/ Stop("w") \/ Radio("w")
    <3>1. Leave("w") \in {"idle", "session"} /\ Resumed("w") = "unlock"
      BY DEF Leave, AfterPortal, Resumed
    <3>2. \E to : appLock' = appLock /\ pc["w"] # "process" /\ pc' = [pc EXCEPT !["w"] = to] /\ to # "process"
      BY <2>3, <3>1, ZenonT(60) DEF EndSession, Start, Extend, StartLock, StartStatus, StartRadio,
         StartView, Stop, StopNothing, StopLock, StopWait, StopView, Radio, Resume, ResumeConfig,
         Station, StationStatus, StationConnect, StationFailed, Unlock, Go
    <3> QED BY <1>0, <3>2 DEF Places, LockWaits
  <2>4. CASE TaskStep("n")
    <3>1. PICK from, to : Path("n", from, to)
      BY <1>0, <2>4, TaskPath
    <3>2. appLock' = appLock
      BY <2>4, ZenonT(60) DEF TaskStep, NetworkWorker, Tick, Clock, ClockStatus, Expiry, Stop,
         StopNothing, StopLock, StopWait, StopView, Radio, Resume, ResumeConfig,
         Station, StationStatus, StationConnect, StationFailed, Unlock
    <3> QED BY <1>0, <3>1, <3>2 DEF Path, Places, LockWaits
  <2>5. CASE ~TaskStep("w") /\ ~TaskStep("n")
    BY <2>5, OthersStep DEF LockWaits
  <2> QED BY <2>1, <2>2, <2>3, <2>4, <2>5 DEF TaskStep, Keys
<1>2. ASSUME NEW t \in Tasks, pc'[t] = "stop_wait" PROVE server' # "up"
  <2>1. CASE StartRadio
    <3>1. pc["w"] = "start_radio" /\ \E to : pc' = [pc EXCEPT !["w"] = to]
      BY <2>1, ZenonT(30) DEF StartRadio, Go
    <3>2. portalLock = "w" /\ server = "down"
      BY <1>0, <3>1 DEF Portal, Locks, Phases, Phase, Held
    <3>3. t = "w"
      <4>1. pc["n"] # "stop_wait"
        BY <1>0, <3>2 DEF Portal, Locks, Held
      <4>2. pc'["n"] = pc["n"]
        BY <1>0, <3>1 DEF Places
      <4> QED BY <1>2, <4>1, <4>2 DEF Tasks
    <3>4. pc' # [pc EXCEPT !["w"] = "start_view"]
      BY <1>0, <1>2, <3>3 DEF Places
    <3>5. server' = server \/ server' = "stopping"
      BY <2>1, <3>4, ZenonT(30) DEF StartRadio, Go
    <3> QED BY <3>2, <3>5
  <2>2. CASE \E u \in Tasks : StopLock(u)
    BY <2>2 DEF StopLock
  <2>3. CASE ~StartRadio /\ \A u \in Tasks : ~StopLock(u)
    <3>1. pc[t] = "stop_wait"
      BY <1>0, <1>2, <2>3, IntoStopWait
    <3>2. server' = server \/ server' = "down"
      <4>1. CASE ~TaskStep("w") /\ ~TaskStep("n")
        BY <4>1, OthersStep
      <4>2. CASE \E u \in Tasks : TaskStep(u)
        BY <2>3, <4>2, ZenonT(60) DEF TaskStep, Keys, Key, TakeKey, Process, OpenSettings, LeaveSettings,
           StartSession, OtherKey, EndSession, Start, Extend, StartLock, StartStatus, StartView,
           Stop, StopNothing, StopWait, StopView, Radio, Resume, ResumeConfig, Station,
           StationStatus, StationConnect, StationFailed, Unlock, NetworkWorker, Tick, Clock,
           ClockStatus, Expiry
      <4> QED BY <1>0, <4>1, <4>2
    <3> QED BY <3>1, <3>2 DEF LockWaits
  <2> QED BY <2>1, <2>2, <2>3
<1> QED BY <1>1, <1>2 DEF LockWaits

(* Who has the lock gives it, and nobody else can.                         *)
LEMMA LockStep ==
    ASSUME Portal, Next
    PROVE  LockRunsDown /\ WorkerRunsDown
<1>1. ASSUME NEW t \in Tasks, NEW u \in Tasks, t # u, TaskStep(u)
      PROVE  pc'[t] = pc[t] /\ (portalLock = t => portalLock' = t)
  <2>1. PICK from, to : Path(u, from, to)
    BY <1>1, TaskPath
  <2>2. pc'[t] = pc[t]
    BY <1>1, <2>1 DEF Path, Portal, Places
  <2>3. portalLock = t => pc[u] \notin Held
    BY <1>1 DEF Portal, Locks
  <2>4. portalLock = t => portalLock # "free"
    BY DEF Tasks
  <2> QED BY <2>1, <2>2, <2>3, <2>4 DEF Path, Held, RadioSteps
<1>2. ASSUME NEW t \in Tasks, ~TaskStep(t)
      PROVE  pc'[t] = pc[t] /\ (portalLock = t => portalLock' = t)
  <2>1. CASE \E u \in Tasks : TaskStep(u)
    BY <1>1, <1>2, <2>1
  <2>2. CASE \A u \in Tasks : ~TaskStep(u)
    BY <2>2, OthersStep DEF Tasks
  <2> QED BY <2>1, <2>2
<1>3. ASSUME NEW t \in Tasks, TaskStep(t), portalLock = t
      PROVE  \/ portalLock' = "free"
             \/ portalLock' = t /\ StepsLeft(pc'[t]) < StepsLeft(pc[t])
  <2>1. PICK from, to : Path(t, from, to)
    BY <1>3, TaskPath
  <2>2. pc[t] \in Held
    BY <1>3 DEF Portal, Locks
  <2>3. pc[t] \notin {"idle", "process", "session", "start_lock", "stop_lock"} /\ portalLock # "free"
    BY <1>3, <2>2 DEF Held, RadioSteps, Tasks
  <2>4. pc'[t] = to
    BY <2>1 DEF Path, Portal, Places
  <2> QED BY <1>3, <2>1, <2>3, <2>4 DEF Path
<1>4. ASSUME TaskStep("w"), pc["w"] \in StartSteps \cup StopSteps \cup RadioSteps
      PROVE  StepsLeft(pc'["w"]) < StepsLeft(pc["w"])
  <2>1. "w" \in Tasks
    BY DEF Tasks
  <2>2. PICK from, to : Path("w", from, to)
    BY <1>4, <2>1, TaskPath
  <2>3. pc'["w"] = to
    BY <2>1, <2>2 DEF Path, Portal, Places
  <2>4. pc["w"] \notin {"idle", "process", "session", "expiry"}
    BY <1>4 DEF StartSteps, StopSteps, RadioSteps
  <2>5. CASE from \in {"start_view", "unlock"} /\ to \in {"idle", "session"}
    BY <2>2, <2>3, <2>5, StepsLeftCases DEF Path
  <2> QED BY <2>2, <2>3, <2>4, <2>5 DEF Path
<1>5. LockRunsDown
  BY <1>2, <1>3 DEF LockRunsDown
<1>6. WorkerRunsDown
  BY <1>2, <1>4 DEF WorkerRunsDown, Tasks
<1> QED BY <1>5, <1>6

LEMMA DrainStep ==
    ASSUME Next
    PROVE  HandlersDrain
<1> SUFFICES ASSUME server # "up"
             PROVE  /\ HttpTask => HandlerSteps(http') < HandlerSteps(http)
                    /\ ~HttpTask => http' = http
  BY DEF HandlersDrain
<1>1. ASSUME HttpTask PROVE HandlerSteps(http') < HandlerSteps(http)
  <2>1. PICK from, to : /\ http = from /\ http' = to
                        /\ \/ from = "save" /\ to \in {"mark", "idle"}
                           \/ from = "audio" /\ to \in {"streaming", "idle"}
                           \/ from \in {"mark", "notes", "streaming"} /\ to = "idle"
    BY <1>1, ZenonT(30) DEF HttpTask, SaveConfig, MarkDirty, Snapshot, Streamed, Handler
  <2>2. /\ HandlerSteps("save") = 2 /\ HandlerSteps("audio") = 2
        /\ HandlerSteps("mark") = 1 /\ HandlerSteps("notes") = 1 /\ HandlerSteps("streaming") = 1
        /\ HandlerSteps("idle") = 0
    BY DEF HandlerSteps
  <2> QED BY <2>1, <2>2
<1>2. ASSUME ~HttpTask PROVE http' = http
  <2>1. ~Request
    BY DEF Request
  <2> QED BY <1>2, <2>1, ZenonT(60) DEF Next, Keys, Key, TakeKey, Process, OpenSettings, LeaveSettings,
     StartSession, OtherKey, EndSession, Start, Extend, StartLock, StartStatus, StartRadio,
     StartView, Stop, StopNothing, StopLock, StopWait, StopView, Radio, Resume, ResumeConfig,
     Station, StationStatus, StationConnect, StationFailed, Unlock, NetworkWorker, Tick, Clock,
     ClockStatus, Expiry, EventTask, Dispatch, EventOnline, EventStatus, Join, Lose, Environment,
     ClockSet, TenMinutes
<1> QED BY <1>1, <1>2
(* Nobody keeps the portal's lock (memo_network.c, 335-413, 463-479): its  *)
(* holder gives it after at most thirteen steps of its own, on every path  *)
(* of a start, a stop, a resumed station and a network_worker round that   *)
(* succeeds or fails; the worker is back after fourteen.  What the holder  *)
(* may have to wait for is the application lock, whose owner does not ask  *)
(* for the portal's while it has it, and in httpd_stop the handler that is *)
(* running, which has two steps left at most, takes no portal lock and has *)
(* no successor.  So the tasks cannot block each other, and WorkerReturns  *)
(* asks of fairness only that each of them goes on.                        *)
THEOREM PortalLockIsGivenBack ==
    Spec => /\ [](LockWaits /\ Bounded)
            /\ [][LockRunsDown /\ WorkerRunsDown /\ HandlersDrain]_vars
<1>1. Init => LockWaits
  <2> SUFFICES ASSUME Init PROVE LockWaits
    OBVIOUS
  <2>1. server = "down" /\ appLock = "free" /\ pc["w"] # "process"
    BY DEF Init
  <2> QED BY <2>1 DEF LockWaits
<1>2. IInv /\ LockWaits /\ [Next]_vars =>
         LockWaits' /\ [LockRunsDown /\ WorkerRunsDown /\ HandlersDrain]_vars
  <2>1. CASE UNCHANGED vars
    BY <2>1 DEF vars, LockWaits
  <2>2. CASE Next
    BY <2>2, LockWaitsStep, LockStep, DrainStep DEF IInv
  <2> QED BY <2>1, <2>2
<1>3. IInv => Bounded
  <2> SUFFICES ASSUME IInv PROVE Bounded
    OBVIOUS
  <2>1. \A t \in Tasks : portalLock = t => pc[t] \in Held
    BY DEF IInv, Portal, Locks
  <2>2. \A p \in Held : StepsLeft(p) \in 1 .. 13
    BY StepsLeftCases DEF Held, RadioSteps
  <2>3. \A p \in StartSteps \cup StopSteps \cup RadioSteps : StepsLeft(p) \in 1 .. 14
    BY StepsLeftCases DEF StartSteps, StopSteps, RadioSteps
  <2> QED BY <2>1, <2>2, <2>3 DEF Bounded
<1> QED BY <1>1, <1>2, <1>3, Invariance, PTL DEF Spec
=============================================================================
