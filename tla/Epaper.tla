------------------------------- MODULE Epaper -------------------------------
(***************************************************************************)
(* The EE04 e-paper board: the loop of EE04_Demo.ino, which handles keys,  *)
(* refreshes the panel and serves the network in turn on one thread, with  *)
(* the refresh policy of RefreshLogic.h and the committed frame of         *)
(* TracedPanel290.h, and the passport link it serves.                      *)
(*                                                                         *)
(* E-paper keeps its image without power, and a partial refresh rewrites   *)
(* only what differs from the frame the firmware believes it shows: what   *)
(* is on the glass is a variable of its own.                               *)
(*                                                                         *)
(* Three pages stand for the eight: "home" refreshes partially and changes *)
(* with the minute, "note" shows the note of the link, and "image" the     *)
(* phone's picture or, without one, a hint.  The pages left out refresh    *)
(* like home or only in full, like note and image.                         *)
(***************************************************************************)
EXTENDS PassportLink

CONSTANTS
    MaxPartials,    \* MAX_PARTIALS is 10
    EventBound      \* keys, edits, pairings, attempts, failures and restarts

ASSUME PanelAssumption ==
    /\ MaxPartials \in Nat \ {0}
    /\ EventBound \in Nat

VARIABLES
    at,             \* where the loop is: "input", "network", "phone" or "news"
    paused,         \* keyDiagnostics: only keys and commands are handled
    page,           \* the page chosen
    pending,        \* a refresh is wanted
    force,          \* ... and it must be a full one
    minute,         \* what the home page shows
    frame,          \* the committed frame
    frameValid,     \* ... is what the panel shows
    rendered,       \* the page of that frame
    partialEnabled, \* the user has not switched partial refresh off
    partialFault,   \* a partial refresh failed in this boot
    streak,         \* partial refreshes since the last full one
    hasImage,       \* a picture is stored
    imageRequested, \* the display has still to turn to the picture
    glass,          \* what the panel really shows
    ghosts,         \* history: partial refreshes on the glass since a full one
    taken,          \* history: the page last handed to the display, not given up
    events          \* history: events so far, for EventBound

panelVars == <<frame, frameValid, rendered, partialFault, streak, glass, ghosts>>
imageVars == <<hasImage, imageRequested>>
pageVars  == <<at, paused, page, pending, force, minute, partialEnabled, taken>>
vars      == <<linkVars, panelVars, imageVars, pageVars, events>>

Pages == {"home", "note", "image"}

Screen(p) == CASE p = "home"    -> <<"home", minute>>
               [] p = "note"    -> <<"note", note>>
               [] p = "image"   -> <<"image", hasImage>>
Blank == <<"blank">>
Mixed == <<"mixed">>

PartialPage(p) == p = "home"

Event == events < EventBound /\ events' = events + 1
Quiet == events' = events

-----------------------------------------------------------------------------
(* Mutant: one partial refresh more than the panel is rated for. *)
Choose_OneMore(image, forced, large) ==
    IF ~frameValid \/ page # rendered \/ forced THEN "full"
    ELSE IF image = frame THEN "skip"
    ELSE IF ~partialEnabled \/ partialFault \/ ~PartialPage(page)
            \/ streak > MaxPartials \/ large THEN "full"
    ELSE "partial"

(***************************************************************************)
(* Refresh                                                                 *)
(***************************************************************************)
(* choose: large stands for a change of more than half the panel, and for  *)
(* a last full refresh more than 15 minutes ago.                           *)
Choose(image, forced, large) ==
    IF ~frameValid \/ page # rendered \/ forced THEN "full"
    ELSE IF image = frame THEN "skip"
    ELSE IF ~partialEnabled \/ partialFault \/ ~PartialPage(page)
            \/ streak >= MaxPartials \/ large THEN "full"
    ELSE "partial"

FullRefresh(image) ==
    /\ frame' = image /\ frameValid' = TRUE /\ rendered' = page
    /\ streak' = 0
    /\ glass' = image /\ ghosts' = 0
    /\ pending' = FALSE /\ force' = FALSE
    /\ Quiet
    /\ UNCHANGED <<partialFault, taken>>

PartialRefresh(image) ==
    /\ frame' = image /\ frameValid' = TRUE /\ rendered' = page
    /\ streak' = streak + 1
    /\ glass' = IF glass = frame THEN image ELSE Mixed
    /\ ghosts' = ghosts + 1
    /\ pending' = FALSE /\ force' = FALSE
    /\ Quiet
    /\ UNCHANGED <<partialFault, taken>>

(* Mutant: the frame before the failure stays committed. *)
Invalidate_KeepsFrame == UNCHANGED <<frameValid, rendered>>

(* BUSY did not end in time: whatever is on the glass, the frame is gone.  *)
Invalidate == frameValid' = FALSE /\ rendered' = "none"

FullFailed(image) ==
    /\ Invalidate
    /\ glass' \in {glass, image, Mixed}
    /\ pending' = FALSE /\ force' = FALSE
    /\ taken' = "none"
    /\ Event
    /\ UNCHANGED <<frame, partialFault, streak, ghosts>>

(* A failed partial refresh asks for one full recovery by itself.          *)
PartialFailed(image) ==
    /\ Invalidate
    /\ glass' \in {glass, image, Mixed}
    /\ ghosts' = ghosts + 1
    /\ partialFault' = TRUE
    /\ pending' = TRUE /\ force' = TRUE
    /\ Event
    /\ UNCHANGED <<frame, streak, taken>>

Skipped ==
    /\ pending' = FALSE /\ force' = FALSE
    /\ Quiet
    /\ UNCHANGED <<panelVars, taken>>

(* An attempt for which the panel has rested long enough: 750 milliseconds *)
(* since a refresh for a partial one, 3 seconds for a full one.            *)
Render ==
    \E large \in BOOLEAN :
       LET image == Screen(page)
           mode  == Choose(image, force, large)
       IN  \/ mode = "skip" /\ Skipped
           \/ mode = "full" /\ (FullRefresh(image) \/ FullFailed(image))
           \/ mode = "partial" /\ (PartialRefresh(image) \/ PartialFailed(image))

-----------------------------------------------------------------------------
(* The page that is chosen once both requests have been looked at: the     *)
(* picture is looked at last.                                              *)
Turned == CASE imageRequested                  -> "image"
            [] noteRequested /\ ~imageRequested -> "note"
            [] OTHER                           -> page

(* Mutant: the page turns only when nothing else waits to be drawn. *)
ApplyNetworkChanges_Busy ==
    /\ noteRequested' = FALSE /\ imageRequested' = FALSE
    /\ page' = IF pending THEN page ELSE Turned
    /\ \E news, tick \in BOOLEAN :
          /\ minute' = IF tick THEN 1 - minute ELSE minute
          /\ pending' = (pending \/ noteRequested \/ imageRequested
                           \/ ((news \/ tick) /\ page' = "home"))

(***************************************************************************)
(* The loop                                                                *)
(***************************************************************************)
(* applyNetworkChanges: a saved note or picture takes the display, and     *)
(* news of the network or a new minute redraw the page that shows them.    *)
ApplyNetworkChanges ==
    /\ noteRequested' = FALSE /\ imageRequested' = FALSE
    /\ page' = Turned
    /\ \E news, tick \in BOOLEAN :
          /\ minute' = IF tick THEN 1 - minute ELSE minute
          /\ pending' = (pending \/ noteRequested \/ imageRequested
                           \/ ((news \/ tick) /\ page' = "home"))

(* A key or a serial command: one of the pages, or the next sheet of a     *)
(* long note; K2 or 'r', 'u', 'a', 'f'.                                    *)
Go(p) ==
    /\ page' = p /\ pending' = TRUE
    /\ taken' = "none"
    /\ UNCHANGED <<force, partialEnabled, frameValid>>

RequestFullRefresh ==
    /\ pending' = TRUE /\ force' = TRUE
    /\ UNCHANGED <<page, taken, partialEnabled, frameValid>>

CheckChanges ==
    /\ pending' = TRUE
    /\ UNCHANGED <<page, force, taken, partialEnabled, frameValid>>

TogglePartial ==
    /\ partialEnabled' = ~partialEnabled
    /\ pending' = TRUE /\ force' = TRUE
    /\ UNCHANGED <<page, taken, frameValid>>

Reinit ==
    /\ frameValid' = FALSE
    /\ pending' = TRUE /\ force' = TRUE
    /\ UNCHANGED <<page, taken, partialEnabled>>

Key ==
    /\ at = "input"
    /\ \/ \E p \in Pages : Go(p)
       \/ RequestFullRefresh
       \/ CheckChanges
       \/ TogglePartial
       \/ Reinit
    /\ Event
    /\ UNCHANGED <<linkVars, imageVars, at, paused, minute, frame, rendered, partialFault,
                   streak, glass, ghosts>>

(* 'd' pauses the network and the display, and resumes them.               *)
Diagnostics ==
    /\ at = "input"
    /\ paused' = ~paused
    /\ \/ ~paused /\ pending' = pending /\ Event
       \/ paused /\ pending' = TRUE /\ Quiet
    /\ UNCHANGED <<linkVars, panelVars, imageVars, at, page, force, minute, partialEnabled, taken>>

(* The keys are handled: the pending refresh is made, or turned down until *)
(* the panel has rested.                                                   *)
Show ==
    /\ at = "input" /\ ~paused /\ pending
    /\ at' = "network"
    /\ Render
    /\ UNCHANGED <<linkVars, imageVars, paused, page, minute, partialEnabled>>

NothingToShow ==
    /\ at = "input" /\ ~paused
    /\ at' = "network"
    /\ Quiet
    /\ UNCHANGED <<linkVars, panelVars, imageVars, paused, page, pending, force, minute,
                   partialEnabled, taken>>

(* network.tick, first half: one request of the link, or none.             *)
Tick ==
    /\ at = "network"
    /\ at' = "phone"
    /\ \/ Serve /\ Quiet
       \/ Disconnected /\ Event
       \/ UNCHANGED linkVars /\ Quiet
    /\ taken' = IF noteRequested' THEN "note" ELSE taken
    /\ UNCHANGED <<panelVars, imageVars, paused, page, pending, force, minute, partialEnabled>>

(* The phone saves a picture, has the stored one shown, or clears it.  An  *)
(* attempt that the preferences refuse changes nothing.                    *)
PhonePicture ==
    /\ hasImage' \in BOOLEAN
    /\ imageRequested' = TRUE
    /\ UNCHANGED linkVars

(* network.tick, second half, right after the first: one request of the    *)
(* phone, or none.                                                         *)
Phone ==
    /\ at = "phone"
    /\ at' = "news"
    /\ \/ (PhoneEdit \/ Pair \/ Unpair) /\ Event /\ UNCHANGED imageVars
       \/ PhonePicture /\ Event
       \/ UNCHANGED <<linkVars, imageVars>> /\ Quiet
    /\ taken' = CASE imageRequested'                    -> "image"
                  [] noteRequested' /\ ~imageRequested' -> "note"
                  [] OTHER                              -> taken
    /\ UNCHANGED <<panelVars, paused, page, pending, force, minute, partialEnabled>>

News ==
    /\ at = "news"
    /\ at' = "input"
    /\ ApplyNetworkChanges
    /\ Quiet
    /\ UNCHANGED <<key, slots, slot, backlog, note, flashNote, passportVars, panelVars,
                   hasImage, paused, force, partialEnabled, taken>>

(* The board restarts, on the page it last remembered.  The glass keeps    *)
(* what it shows.                                                          *)
Restart ==
    /\ BoardRestart
    /\ Event
    /\ at' = "input" /\ paused' = FALSE
    /\ page' \in Pages
    /\ pending' = TRUE /\ force' = TRUE
    /\ partialEnabled' = TRUE
    /\ imageRequested' = FALSE
    /\ frame' = Blank /\ frameValid' = FALSE /\ rendered' = "none"
    /\ partialFault' = FALSE /\ streak' = 0
    /\ taken' = "none"
    /\ UNCHANGED <<hasImage, minute, glass, ghosts>>

Elsewhere ==
    /\ \/ (SyncRecord \/ Age) /\ Event
       \/ (EnterKey \/ GiveUp) /\ Quiet
    /\ UNCHANGED <<panelVars, imageVars, pageVars>>

-----------------------------------------------------------------------------
Init ==
    /\ LinkInit
    /\ at = "input" /\ paused = FALSE
    /\ page = "home" /\ pending = TRUE /\ force = TRUE
    /\ minute = 0
    /\ frame = Blank /\ frameValid = FALSE /\ rendered = "none"
    /\ partialEnabled = TRUE /\ partialFault = FALSE /\ streak = 0
    /\ glass = Blank /\ ghosts = 0
    /\ hasImage = FALSE /\ imageRequested = FALSE
    /\ taken = "none"
    /\ events = 0

Next ==
    \/ Key \/ Diagnostics
    \/ Show \/ NothingToShow \/ Tick \/ Phone \/ News
    \/ Restart \/ Elsewhere

(* The loop runs; a refresh that stays pending is not turned down for ever,*)
(* as the panel has rested after 3 seconds.                                *)
Fairness ==
    /\ SF_vars(Show)
    /\ WF_vars(NothingToShow) /\ WF_vars(Tick) /\ WF_vars(Phone) /\ WF_vars(News)

Spec == Init /\ [][Next]_vars /\ Fairness

-----------------------------------------------------------------------------
Requests == {ChallengeRequest}
              \cup [op : {"memo"}, note : NewNotes, nonce : Nonces, key : Keys]

(* The variables keep to their ranges; a ring position is one of the ring. *)
TypeOK ==
    /\ key \in Keys /\ passportKey \in Keys
    /\ slots \in [1 .. SlotCount -> [nonce : Nonces, young : BOOLEAN]]
    /\ slot \in 1 .. SlotCount
    /\ backlog \in Seq(Requests) /\ Len(backlog) <= BacklogBound
    /\ {note, flashNote, settled} \subseteq Notes \cup {NoNote}
    /\ {noteRequested, waiting, pending, force, frameValid, partialEnabled, partialFault,
        paused, hasImage, imageRequested} \subseteq BOOLEAN
    /\ at \in {"input", "network", "phone", "news"} /\ page \in Pages
    /\ taken \in {"none", "note", "image"}
    /\ minute \in 0 .. 1
    /\ streak \in 0 .. MaxPartials
    /\ events \in 0 .. EventBound

(* "A signed receipt means the note was persisted": what a receipt has     *)
(* told the passport is in the board's preferences and is the note it      *)
(* shows, through restarts and late requests, until the passport signs     *)
(* another note or the phone replaces it.                                  *)
ReceiptIsDurable == settled # NoNote => flashNote = settled /\ note = settled

(* The write the passport still waits for finds its challenge: dead        *)
(* requests and old challenges in the ring do not take its place.          *)
LiveChallengeKept ==
    (waiting /\ exchange.step = "memo" /\ backlog # <<>>) =>
       LET r == Last(backlog)
       IN  r.op = "memo" /\ r.key = key => Matching(r.nonce) # {}

(* A valid frame is what the glass shows: a partial refresh never builds   *)
(* on another image than the one it takes as its base.                     *)
FrameIsGlass == frameValid => frame = glass

(* The glass never carries more than MAX_PARTIALS partial refreshes over   *)
(* a full one, whatever failures, commands and restarts come between.      *)
GhostingBounded == ghosts <= MaxPartials

(* What the phone or the passport last handed to the display reaches the   *)
(* panel: of a note and a picture taken before the panel has rested, the   *)
(* later one, with its present content.  It is given up when a later one   *)
(* takes its place, when the user turns the page or the sheet, when the    *)
(* board restarts and when a full refresh fails; while the user has paused *)
(* the display it waits.                                                   *)
NoteIsShown ==
    \A p \in {"note", "image"} : taken = p ~> (glass = Screen(p) \/ taken # p \/ paused)

=============================================================================
