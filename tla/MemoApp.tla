------------------------------ MODULE MemoApp ------------------------------
(***************************************************************************)
(* The buttons and pages of the passport: memo_key, process and worker of  *)
(* src/main/memo_app.c and the menu of src/main/memo_actions.c.            *)
(*                                                                         *)
(* The button task puts a key into a queue that drops what does not fit,   *)
(* or, while a session or a playback is on, hands it straight to that.     *)
(* The worker takes one key at a time and acts on the page it finds, after *)
(* whatever blocked it: leaving settings waits for the portal's handlers,  *)
(* a session and a playback last until they end, a synchronisation until   *)
(* its requests time out.                                                  *)
(*                                                                         *)
(* NoteStore has the storage calls one by one; here a record is on Flash   *)
(* or not, and a call that fails leaves it as it was.                      *)
(***************************************************************************)
EXTENDS Integers, Sequences, SequencesExt, FiniteSetsExt

CONSTANTS
    History,        \* notes the list holds; MEMO_HISTORY is 32
    IdBound,        \* ids the model gives out
    QueueSize       \* keys that wait; the queue has 12

ASSUME AppAssumption == {History, IdBound, QueueSize} \subseteq Nat \ {0}

VARIABLES
    page,           \* view.phase; "review" is REVIEW or ERROR, "session" is
                    \* CONNECTING to FINISHING
    text,           \* whose text view.text is: a note's id, or one of the below
    selected,       \* view.selected, counted from 1; 0 when nothing is selected
    selectedId,     \* view.selected_id, 0 for none
    ids,            \* the list, newest first
    nextId,
    menu,           \* view.actions
    draft,          \* is there a draft on Flash?
    keys,           \* the queue: keys, each with whether it was pressed on the
                    \* list while a synchronisation held up the worker
    pc,             \* what the worker is in, apart from a key
    unreviewed      \* history: a transcript was saved by such a key

vars == <<page, text, selected, selectedId, ids, nextId, menu, draft, keys, pc, unreviewed>>

NoText     == 0
Transcript == -1
Draft      == -2

NoMenu == [record |-> 0, confirm |-> FALSE, selected |-> 0]

Ids   == 1 .. IdBound
Pages == {"home", "review", "history", "actions", "settings", "session", "playback"}
Keys  == {"UP", "DOWN", "OK", "longUP", "longDOWN", "longOK", "doubleOK"}

-----------------------------------------------------------------------------
(* memo_key: nothing is queued while a session or a playback takes keys.   *)
Active == page \in {"session", "playback"}

Press(k) ==
    /\ ~Active
    /\ Len(keys) < QueueSize
    /\ keys' = Append(keys, [key |-> k, unseen |-> pc = "sync"])
    /\ UNCHANGED <<page, text, selected, selectedId, ids, nextId, menu, draft, pc, unreviewed>>

(* The worker takes the oldest key.                                        *)
Key == Head(keys).key
Take(ks) ==
    /\ pc = "idle" /\ keys # <<>> /\ Key \in ks
    /\ keys' = Tail(keys)

-----------------------------------------------------------------------------
(* select_record shows the selected note, or nothing when there is none or *)
(* it cannot be read.                                                      *)
SelectRecord(list, i) ==
    /\ selected' = i
    /\ \E readable \in BOOLEAN :
          /\ text' = IF list # <<>> /\ readable THEN list[i] ELSE NoText
          /\ selectedId' = IF list # <<>> /\ readable THEN list[i] ELSE 0

(* Mutant: the selection is not pulled back to the new end of the list. *)
SelectionAfter_NotClamped(index) == IF selected > index THEN selected - 1 ELSE selected

(* remove_record keeps the selection on the note it was on, or moves it to *)
(* the note that takes the place of the removed one.                       *)
SelectionAfter(index) ==
    LET i == IF selected > index THEN selected - 1 ELSE selected
    IN  Min({i, Len(ids) - 1})

-----------------------------------------------------------------------------
(***************************************************************************)
(* memo_actions_step: Delete, Sync and Return, then Keep and Confirm.      *)
(***************************************************************************)
Options == IF menu.confirm THEN 2 ELSE 3

(* Mutant: the first option deletes without asking. *)
MenuKey_NotAsked(k) ==
    CASE k = "longUP" -> "close"
      [] k = "OK" /\ menu.confirm -> IF menu.selected = 1 THEN "delete" ELSE "close"
      [] k = "OK" /\ ~menu.confirm ->
            (CASE menu.selected = 0 -> "delete" [] menu.selected = 1 -> "sync" [] OTHER -> "close")
      [] OTHER -> "move"

MenuKey(k) ==
    CASE k = "longUP" -> "close"
      [] k = "OK" /\ menu.confirm -> IF menu.selected = 1 THEN "delete" ELSE "close"
      [] k = "OK" /\ ~menu.confirm ->
            (CASE menu.selected = 0 -> "ask" [] menu.selected = 1 -> "sync" [] OTHER -> "close")
      [] OTHER -> "move"

(* Mutant: DOWN leaves the last option for one that does not exist. *)
MenuMove_NoWrap(k) == IF k = "UP" THEN (menu.selected + Options - 1) % Options
                                  ELSE menu.selected + 1

MenuMove(k) == (menu.selected + (IF k = "UP" THEN Options - 1 ELSE 1)) % Options

MenuStep ==
    /\ page = "actions" /\ Take({"UP", "DOWN", "OK"})
    /\ MenuKey(Key) \in {"ask", "move"}
    /\ menu' = IF MenuKey(Key) = "ask" THEN [menu EXCEPT !.confirm = TRUE, !.selected = 0]
               ELSE [menu EXCEPT !.selected = MenuMove(Key)]
    /\ UNCHANGED <<page, text, selected, selectedId, ids, nextId, draft, pc, unreviewed>>

(* Closing, deleting and synchronising go back to the list.                *)
MenuDone ==
    /\ page = "actions" /\ Take({"UP", "DOWN", "OK", "longUP"})
    /\ MenuKey(Key) \in {"close", "sync", "delete"}
    /\ menu' = NoMenu
    /\ page' = "history"
    /\ pc' = IF MenuKey(Key) = "sync" THEN "sync" ELSE "idle"
    /\ \/ /\ UNCHANGED ids
          /\ SelectRecord(ids, selected)
       \/ /\ MenuKey(Key) = "delete" /\ menu.record \in Range(ids)
          /\ LET index == CHOOSE i \in 1 .. Len(ids) : ids[i] = menu.record
             IN  /\ ids' = RemoveAt(ids, index)
                 /\ SelectRecord(ids', SelectionAfter(index))
    /\ UNCHANGED <<nextId, draft, unreviewed>>

MenuIgnores ==
    /\ page = "actions" /\ Take({"longDOWN", "doubleOK"})
    /\ UNCHANGED <<page, text, selected, selectedId, ids, nextId, menu, draft, pc, unreviewed>>

-----------------------------------------------------------------------------
(***************************************************************************)
(* process                                                                 *)
(***************************************************************************)
(* Hold OK: settings from every page, and a menu that was open is closed.  *)
OpenSettings ==
    /\ Take({"longOK"})
    /\ page' = "settings" /\ menu' = NoMenu
    /\ UNCHANGED <<text, selected, selectedId, ids, nextId, draft, pc, unreviewed>>

(* Playback is entered with the lock held and left to the page it came     *)
(* from; without a matching clip nothing happens.                          *)
StartPlayback ==
    /\ page \in {"review", "history"} /\ Take({"doubleOK"})
    /\ \/ page' = "playback" /\ pc' = page
       \/ UNCHANGED <<page, pc>>
    /\ UNCHANGED <<text, selected, selectedId, ids, nextId, menu, draft, unreviewed>>

EndPlayback ==
    /\ page = "playback"
    /\ page' = pc /\ pc' = "idle"
    /\ UNCHANGED <<text, selected, selectedId, ids, nextId, menu, draft, keys, unreviewed>>

HomeDraft ==
    /\ page = "home" /\ Take({"longUP"})
    /\ \/ draft /\ page' = "review" /\ text' = Draft
       \/ page' = page /\ text' = NoText
    /\ UNCHANGED <<selected, selectedId, ids, nextId, menu, draft, pc, unreviewed>>

(* OK starts a session when the device is configured, its storage and its  *)
(* microphone work and the network is ready, or says what is missing.      *)
HomeStart ==
    /\ page = "home" /\ Take({"OK"})
    /\ \/ page' = "session" /\ text' = NoText /\ pc' = "session"
       \/ page' \in {"settings", "home"} /\ UNCHANGED <<text, pc>>
    /\ UNCHANGED <<selected, selectedId, ids, nextId, menu, draft, unreviewed>>

(* The session ends with or without a transcript; one is kept as the draft *)
(* unless the storage call fails.                                          *)
EndSession ==
    /\ pc = "session"
    /\ page' = "review" /\ pc' = "idle"
    /\ \/ text' = NoText /\ UNCHANGED draft
       \/ text' = Transcript /\ (draft' = TRUE \/ UNCHANGED draft)
    /\ UNCHANGED <<selected, selectedId, ids, nextId, menu, keys, unreviewed>>

HomeHistory ==
    /\ page = "home" /\ Take({"UP", "DOWN"})
    /\ page' = "history"
    /\ SelectRecord(ids, IF ids = <<>> THEN 0 ELSE 1)
    /\ UNCHANGED <<ids, nextId, menu, draft, pc, unreviewed>>

(* save_current.                                                           *)
SaveCurrent ==
    /\ page = "review" /\ Take({"OK"})
    /\ \/ /\ text # NoText /\ Len(ids) < History /\ nextId <= IdBound
          /\ ids' = <<nextId>> \o ids /\ nextId' = nextId + 1
          /\ draft' \in {FALSE, draft}
          /\ page' = "history"
          /\ SelectRecord(ids', 1)
          /\ pc' \in {"idle", "sync"}
          /\ unreviewed' = (unreviewed \/ (text = Transcript /\ Head(keys).unseen))
       \/ UNCHANGED <<text, selected, selectedId, ids, nextId, draft, page, pc, unreviewed>>
    /\ UNCHANGED menu

ReviewHome ==
    /\ page = "review" /\ Take({"longUP"})
    /\ page' = "home"
    /\ UNCHANGED <<text, selected, selectedId, ids, nextId, menu, draft, pc, unreviewed>>

HistoryHome ==
    /\ page = "history" /\ Take({"longUP"})
    /\ page' = "home" /\ text' = NoText
    /\ UNCHANGED <<selected, selectedId, ids, nextId, menu, draft, pc, unreviewed>>

HistoryMove ==
    /\ page = "history" /\ Take({"UP", "DOWN"})
    /\ IF ids = <<>> THEN UNCHANGED <<text, selected, selectedId>>
       ELSE SelectRecord(ids, IF Key = "UP" THEN ((selected + Len(ids) - 2) % Len(ids)) + 1
                                            ELSE (selected % Len(ids)) + 1)
    /\ UNCHANGED <<page, ids, nextId, menu, draft, pc, unreviewed>>

(* OK toggles the selected note, read again from Flash.                    *)
HistoryToggle ==
    /\ page = "history" /\ Take({"OK"})
    /\ \/ ids # <<>> /\ SelectRecord(ids, selected)
       \/ UNCHANGED <<text, selected, selectedId>>
    /\ UNCHANGED <<page, ids, nextId, menu, draft, pc, unreviewed>>

(* Hold DOWN: the menu pins the id of the note on the screen.              *)
OpenMenu ==
    /\ page = "history" /\ Take({"longDOWN"})
    /\ IF ids # <<>> /\ selectedId # 0
       THEN menu' = [NoMenu EXCEPT !.record = selectedId] /\ page' = "actions"
       ELSE UNCHANGED <<menu, page>>
    /\ UNCHANGED <<text, selected, selectedId, ids, nextId, draft, pc, unreviewed>>

EndSync ==
    /\ pc = "sync"
    /\ pc' = "idle"
    /\ SelectRecord(ids, selected)
    /\ UNCHANGED <<page, ids, nextId, menu, draft, keys, unreviewed>>

(* UP and OK leave settings: the page is home while the worker waits for   *)
(* the portal to stop.                                                     *)
LeaveSettings ==
    /\ page = "settings" /\ Take({"UP", "OK"})
    /\ page' = "home" /\ pc' = "leaving"
    /\ UNCHANGED <<text, selected, selectedId, ids, nextId, menu, draft, unreviewed>>

PortalStopped ==
    /\ pc = "leaving"
    /\ pc' = "idle"
    /\ UNCHANGED <<page, text, selected, selectedId, ids, nextId, menu, draft, keys, unreviewed>>

Ignored ==
    /\ \/ page = "home" /\ Take({"longDOWN", "doubleOK"})
       \/ page = "review" /\ Take({"UP", "DOWN", "longDOWN"})
       \/ page = "settings" /\ Take({"DOWN", "longUP", "longDOWN", "doubleOK"})
    /\ UNCHANGED <<page, text, selected, selectedId, ids, nextId, menu, draft, pc, unreviewed>>

(* memo_record_edit removes a note for the portal, which serves while the  *)
(* page is settings and until the worker has seen it stop.                 *)
PortalRemove ==
    /\ page = "settings" \/ pc = "leaving"
    /\ \E index \in 1 .. Len(ids) :
          /\ ids' = RemoveAt(ids, index)
          /\ selected' = SelectionAfter(index)
    /\ UNCHANGED <<page, text, selectedId, nextId, menu, draft, keys, pc, unreviewed>>

-----------------------------------------------------------------------------
(* memo_app_start: home, the draft for review, or settings before the      *)
(* first configuration.                                                    *)
Init ==
    /\ ids = <<>> /\ nextId = 1
    /\ draft \in BOOLEAN
    /\ page \in (IF draft THEN {"review", "settings"} ELSE {"home", "settings"})
    /\ text = IF draft THEN Draft ELSE NoText
    /\ selected = 0 /\ selectedId = 0
    /\ menu = NoMenu
    /\ keys = <<>>
    /\ pc = "idle"
    /\ unreviewed = FALSE

Process ==
    \/ MenuStep \/ MenuDone \/ MenuIgnores
    \/ OpenSettings \/ StartPlayback \/ HomeDraft \/ HomeStart \/ HomeHistory
    \/ SaveCurrent \/ ReviewHome \/ HistoryHome \/ HistoryMove \/ HistoryToggle
    \/ OpenMenu \/ LeaveSettings \/ Ignored

Ends == EndPlayback \/ EndSession \/ EndSync \/ PortalStopped

Next == (\E k \in Keys : Press(k)) \/ Process \/ Ends \/ PortalRemove

Spec == Init /\ [][Next]_vars

-----------------------------------------------------------------------------
(* The variables keep to their ranges.                                     *)
TypeOK ==
    /\ page \in Pages
    /\ text \in Ids \cup {NoText, Transcript, Draft}
    /\ ids \in Seq(Ids) /\ Len(ids) <= History /\ nextId \in 1 .. (IdBound + 1)
    /\ selected \in 0 .. History /\ selectedId \in Ids \cup {0}
    /\ menu \in [record : Ids \cup {0}, confirm : BOOLEAN, selected : 0 .. 2]
    /\ {draft, unreviewed} \subseteq BOOLEAN
    /\ keys \in Seq([key : Keys, unseen : BOOLEAN]) /\ Len(keys) <= QueueSize
    /\ pc \in {"idle", "session", "sync", "leaving", "review", "history"}

(* On the list and in its menu, the selection is a position of the list,   *)
(* the text and the id on the screen are those of the note it points to or *)
(* are empty, and the menu acts on the note it was opened for, whatever    *)
(* the portal and the menu have removed.                                   *)
ShownIsSelected ==
    page \in {"history", "actions"} =>
       /\ selected \in 1 .. Len(ids) \/ (ids = <<>> /\ selected = 0)
       /\ text = selectedId
       /\ selectedId # 0 => selectedId = ids[selected]
       /\ page = "actions" => menu.record = selectedId /\ selectedId # 0

(* A note leaves the list only from the portal or by Confirm on the        *)
(* question about the very note that is on the screen.                     *)
DeletesWhatIsShown ==
    [][\A id \in Range(ids) \ Range(ids') :
          \/ page = "settings" \/ pc = "leaving"
          \/ page = "actions" /\ menu.confirm /\ menu.selected = 1 /\ id = text]_vars

(* "Review the text, then press OK to save": an OK pressed on the list,    *)
(* before there was anything to review, does not save the transcript of a  *)
(* session that starts later.                                              *)
ReviewedBeforeSaved == ~unreviewed

=============================================================================
