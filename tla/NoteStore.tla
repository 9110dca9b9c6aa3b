------------------------------- MODULE NoteStore -------------------------------
(***************************************************************************)
(* The notes, the draft and the replay clip that main/memo_app.c keeps in  *)
(* Flash, and the RAM list of note ids the application works from.         *)
(*                                                                         *)
(* The "memo" NVS partition holds one key per ring slot (n00 .. n31) and   *)
(* the key "draft".  A value set through the handle is visible to the next *)
(* get at once; whether it is on Flash is certain only after nvs_commit    *)
(* returned ESP_OK, so each key has a visible and a durable value, and at  *)
(* a power cut or a failed commit any visible value may or may not have    *)
(* reached Flash.  A set, an erasure and a commit may return an error; the *)
(* partition opens, and what boot reads of it is read without error.       *)
(* The replay partition holds at most one clip; its header says which note *)
(* (or, for id 0, which unsaved text) the clip belongs to.                 *)
(*                                                                         *)
(* One action is one NVS or partition call together with the code up to    *)
(* the next one.  The operations that make several calls hold the          *)
(* application lock throughout (op names the call that comes next), so     *)
(* only a power cut can come between two of their steps.  The worker also  *)
(* runs three things without the lock (pc): a recording session, a         *)
(* synchronisation with the e-paper and the closing of the portal.         *)
(***************************************************************************)
EXTENDS Integers, Sequences, FiniteSets

CONSTANTS
  History,      \* MEMO_HISTORY: ring slots, and the most notes kept
  Texts,        \* the non-empty texts a session or an edit can produce
  NoText,       \* the empty text
  NoNote,       \* an absent NVS key
  NoClip,       \* no valid header in the replay partition
  IdBound,      \* bound of the model: no note gets an id above it
  NvsFaults,    \* may nvs_set, nvs_erase_key and nvs_commit return errors?
  ReplayPartition,  \* did memo_replay_init find the replay partition?
  FlashFaults   \* may the replay partition's erase and write return errors?

ASSUME HistoryAssumption == History \in Nat \ {0}
ASSUME TextAssumption == NoText \notin Texts
ASSUME IdBoundAssumption == IdBound \in Nat
ASSUME SwitchAssumption == {NvsFaults, ReplayPartition, FlashFaults} \subseteq BOOLEAN

VARIABLES
  note, flashNote,    \* per slot: the visible and the durable record
  draft, flashDraft,  \* the key "draft", visible and durable
  ids, nextId,        \* ids[], newest first, and next_id
  page,               \* view.phase; "ACTIVE" is CONNECTING to FINISHING,
                      \* "REVIEW" is MEMO_REVIEW or MEMO_ERROR
  text,               \* view.text while page is "REVIEW"
  target,             \* view.actions.record_id, 0 when no menu is open
  portal,             \* is the setup portal's HTTP server running?
  pc,                 \* what the worker does without the lock
  op,                 \* the next storage call of the lock holder
  r,                  \* the memo_record_t in the hands of that operation
  sent,               \* the memo_record_t of the synchronisation
  header,             \* the replay header on Flash
  info, ready,        \* memo_replay.c's RAM copy, and whether it is valid
  limbo,              \* ghost: ids whose save or last delete was reported failed
  kept                \* ghost: last draft made durable and not yet saved

nvs == <<note, flashNote, draft, flashDraft>>
list == <<ids, nextId>>
screen == <<page, text, target>>
clip == <<header, info, ready>>
ghosts == <<limbo, kept>>
vars == <<nvs, list, screen, portal, pc, op, r, sent, clip, ghosts>>

Slots == 0 .. History - 1
Slot(id) == id % History

(* memo_record_t.  origin is a ghost: the text the note was saved with,    *)
(* which is the text its recording was transcribed to.                     *)
Record == [id : Nat \ {0}, text : Texts, done : BOOLEAN, synced : BOOLEAN,
           origin : Texts]
Clip == [id : Nat, text : Texts \cup {NoText}]
ASSUME NoNoteAssumption == NoNote \notin Record
ASSUME NoClipAssumption == NoClip \notin Clip
Unused == [id |-> 0, text |-> NoText]

Listed == {ids[i] : i \in DOMAIN ids}
Readable(id) == note[Slot(id)] # NoNote /\ note[Slot(id)].id = id

(* A mutant: memo_replay_matches without the comparison of text hashes.    *)
Matches_AnyText(t, id) == ready /\ info.id = id

Matches(t, id) == /\ ready
                  /\ info.id = id
                  /\ id # 0 \/ info.text = t

-----------------------------------------------------------------------------
(* NVS: what a commit, a failed commit and a power cut leave on Flash.     *)

Commit == flashNote' = note /\ flashDraft' = draft

(* The durable value of each key is the visible or the previous one.       *)
Torn(visible, visibleDraft) ==
  /\ \E hit \in SUBSET {s \in Slots : visible[s] # flashNote[s]} :
        flashNote' = [s \in Slots |-> IF s \in hit THEN visible[s]
                                                   ELSE flashNote[s]]
  /\ flashDraft' \in {visibleDraft, flashDraft}

FailedCommit == NvsFaults /\ Torn(note, draft)

(* A mutant: record_key made from next_id instead of the record's id.      *)
SetRecord_KeyOfNextId(rec, next) ==
  /\ note' = [note EXCEPT ![Slot(nextId)] = rec]
  /\ op' = next
  /\ r' = rec

(* write_record up to its nvs_set_blob: it may fail, else nvs_commit is    *)
(* next and op says whose call it is.                                      *)
SetRecord(rec, next) ==
  \/ /\ note' = [note EXCEPT ![Slot(rec.id)] = rec]
     /\ op' = next
     /\ r' = rec
  \/ /\ NvsFaults
     /\ op' = "none"
     /\ r' = NoNote
     /\ UNCHANGED note

-----------------------------------------------------------------------------
(* Boot.                                                                   *)

(* The list the boot code sorts: all of the ids, in descending order.      *)
Descending(S) ==
  {s \in UNION {[1 .. n -> S] : n \in 0 .. History} :
     /\ {s[i] : i \in DOMAIN s} = S
     /\ \A i, j \in DOMAIN s : i < j => s[i] > s[j]}

(* memo_app_start from what is durable.  An unconfigured device opens the  *)
(* settings page and the portal whatever the draft says.                   *)
BootFrom(stored, storedDraft, storedHeader) ==
  /\ note' = stored
  /\ draft' = storedDraft
  /\ ids' \in Descending({stored[s].id : s \in {x \in Slots : stored[x] # NoNote}})
  /\ nextId' = IF ids' = <<>> THEN 1 ELSE ids'[1] + 1
  /\ \/ /\ page' = IF storedDraft = NoText THEN "HOME" ELSE "REVIEW"
        /\ text' = storedDraft
        /\ portal' = FALSE
     \/ /\ page' = "SETTINGS"
        /\ text' = NoText
        /\ portal' \in BOOLEAN
  /\ target' = 0
  /\ pc' = "idle"
  /\ op' = "none"
  /\ r' = NoNote
  /\ sent' = NoNote
  /\ header' = storedHeader
  /\ info' = IF storedHeader = NoClip THEN Unused ELSE storedHeader
  /\ ready' = (storedHeader # NoClip)
  /\ limbo' = {}

(* Losing power in any state, and the boot that follows.                   *)
PowerCut ==
  /\ Torn(note, draft)
  /\ BootFrom(flashNote', flashDraft', header)
  /\ UNCHANGED kept

Init ==
  /\ note = [s \in Slots |-> NoNote]
  /\ flashNote = note
  /\ draft = NoText
  /\ flashDraft = NoText
  /\ ids = <<>>
  /\ nextId = 1
  /\ page \in {"HOME", "SETTINGS"}
  /\ portal \in BOOLEAN
  /\ portal => page = "SETTINGS"
  /\ text = NoText
  /\ target = 0
  /\ pc = "idle"
  /\ op = "none"
  /\ r = NoNote
  /\ sent = NoNote
  /\ header = NoClip
  /\ info = Unused
  /\ ready = FALSE
  /\ limbo = {}
  /\ kept = NoText

-----------------------------------------------------------------------------
(* Keys handled by the worker (process).                                   *)

Idle == pc = "idle" /\ op = "none"

Show(p) == page' = p /\ text' = NoText /\ target' = 0

(* Home, or the end of a session, boot and draft recovery.                 *)
RestoreDraft ==
  /\ Idle /\ page = "HOME" /\ draft # NoText
  /\ page' = "REVIEW"
  /\ text' = draft
  /\ UNCHANGED <<sent, nvs, list, target, portal, pc, op, r, clip, ghosts>>

OpenHistory ==
  /\ Idle /\ page = "HOME"
  /\ Show("HISTORY_PAGE")
  /\ UNCHANGED <<sent, nvs, list, portal, pc, op, r, clip, ghosts>>

(* A mutant: leaving the review discards the draft.                        *)
GoHome_DropsDraft ==
  /\ Idle /\ page \in {"REVIEW", "HISTORY_PAGE"}
  /\ Show("HOME")
  /\ draft' = NoText
  /\ UNCHANGED <<sent, note, flashNote, flashDraft, list, portal, pc, op, r, clip,
                 ghosts>>

GoHome ==
  /\ Idle /\ page \in {"REVIEW", "HISTORY_PAGE"}
  /\ Show("HOME")
  /\ UNCHANGED <<sent, nvs, list, portal, pc, op, r, clip, ghosts>>

(* Hold DOWN on any page; memo_portal_start may fail, and restarts only    *)
(* the portal's clock when the server is running already.                  *)
OpenSettings ==
  /\ Idle
  /\ Show("SETTINGS")
  /\ portal' \in {portal, TRUE}
  /\ UNCHANGED <<sent, nvs, list, pc, op, r, clip, ghosts>>

(* A mutant: leaving the settings without memo_portal_stop.                *)
LeaveSettings_PortalStaysUp ==
  /\ Idle /\ page = "SETTINGS"
  /\ Show("HOME")
  /\ UNCHANGED <<sent, nvs, list, portal, pc, op, r, clip, ghosts>>

(* The page changes under the lock; memo_portal_stop runs after it and     *)
(* waits in httpd_stop for the handler in progress.                        *)
LeaveSettings ==
  /\ Idle /\ page = "SETTINGS"
  /\ Show("HOME")
  /\ pc' = "closing"
  /\ UNCHANGED <<sent, nvs, list, portal, op, r, clip, ghosts>>

PortalClosed ==
  /\ pc = "closing" /\ op = "none"
  /\ portal' = FALSE
  /\ pc' = "idle"
  /\ UNCHANGED <<sent, nvs, list, screen, op, r, clip, ghosts>>

(* network_worker: the portal is stopped ten minutes after it was opened.  *)
PortalExpires ==
  /\ portal /\ op = "none"
  /\ portal' = FALSE
  /\ UNCHANGED <<sent, nvs, list, screen, pc, op, r, clip, ghosts>>

(* OK on the home page.  Before the session the portal is stopped, and     *)
(* memo_replay_begin, the first thing memo_asr_run does, erases the clip.  *)
StartSession ==
  /\ Idle /\ page = "HOME"
  /\ Show("ACTIVE")
  /\ portal' = FALSE
  /\ pc' = "session"
  /\ info' = Unused
  /\ ready' = FALSE
  /\ header' \in (IF FlashFaults THEN {header, NoClip} ELSE {NoClip})
  /\ UNCHANGED <<sent, nvs, list, op, r, ghosts>>

(* The end of memo_asr_run with transcript t: memo_replay_finish writes    *)
(* the header unless nothing complete was cached, the page becomes REVIEW  *)
(* or ERROR, and save_draft sets a non-empty text, ignoring errors.        *)
EndSession(t) ==
  /\ pc = "session" /\ op = "none"
  /\ pc' = "idle"
  /\ page' = "REVIEW"
  /\ text' = t
  /\ info' = [id |-> 0, text |-> t]
  /\ \/ ReplayPartition /\ header' = info' /\ ready' = TRUE
     \/ UNCHANGED <<header, ready>>
  /\ IF t = NoText
     THEN UNCHANGED <<draft, op, kept>>
     ELSE /\ op' = "draft_commit"
          /\ \/ draft' = t /\ kept' = NoText
             \/ NvsFaults /\ UNCHANGED <<draft, kept>>
  /\ UNCHANGED <<sent, note, flashNote, flashDraft, list, target, portal, r, limbo>>

DraftCommit ==
  /\ op = "draft_commit"
  /\ op' = "none"
  /\ \/ Commit /\ kept' = IF draft = text THEN text ELSE kept
     \/ FailedCommit /\ UNCHANGED kept
  /\ UNCHANGED <<sent, note, draft, list, screen, portal, pc, r, clip, limbo>>

-----------------------------------------------------------------------------
(* Saving the text under review (save_current).                            *)

Used(id) == \E i \in DOMAIN ids : Slot(ids[i]) = Slot(id)

(* A mutant: the next id is taken without looking for a used slot.         *)
Allocated_FirstId(a) == a = 0

(* The id the allocation loop stops at: next_id + a for the first attempt  *)
(* a that hits an unused slot, or for the last attempt.                    *)
Allocated(a) ==
  /\ \A b \in 0 .. a - 1 : Used(nextId + b)
  /\ ~Used(nextId + a) \/ a = History - 1

SaveWrite ==
  /\ Idle /\ page = "REVIEW" /\ text # NoText
  /\ Len(ids) < History
  /\ \E a \in Slots :
        LET id == nextId + a IN
        /\ Allocated(a)
        /\ id <= IdBound
        /\ nextId' = id + 1
        /\ SetRecord([id |-> id, text |-> text, done |-> FALSE,
                      synced |-> FALSE, origin |-> text], "save_commit")
  /\ UNCHANGED <<sent, flashNote, draft, flashDraft, ids, screen, portal, pc, clip,
                 ghosts>>

(* A mutant: write_record does not look at what nvs_commit returned.       *)
SaveCommit_Unchecked ==
  /\ op = "save_commit"
  /\ Commit \/ FailedCommit
  /\ op' = IF Matches(text, 0) THEN "bind_erase" ELSE "draft_erase"
  /\ kept' = NoText
  /\ UNCHANGED <<sent, note, draft, list, screen, portal, pc, r, limbo, clip>>

SaveCommit ==
  /\ op = "save_commit"
  /\ \/ /\ Commit
        /\ op' = IF Matches(text, 0) THEN "bind_erase" ELSE "draft_erase"
        /\ kept' = NoText
        /\ UNCHANGED <<r, limbo>>
     \/ /\ FailedCommit
        /\ op' = "none"
        /\ r' = NoNote
        /\ limbo' = limbo \cup {r.id}
        /\ UNCHANGED kept
  /\ UNCHANGED <<sent, note, draft, list, screen, portal, pc, clip>>

(* memo_replay_bind: erase the header's sector, then write the header      *)
(* again with the note's id.                                               *)
BindErase ==
  /\ op = "bind_erase"
  /\ ready' = FALSE
  /\ info' = [info EXCEPT !.id = r.id]
  /\ \/ header' = NoClip /\ op' = "bind_write"
     \/ /\ FlashFaults
        /\ header' \in {header, NoClip}
        /\ op' = "draft_erase"
  /\ UNCHANGED <<sent, nvs, list, screen, portal, pc, r, ghosts>>

BindWrite ==
  /\ op = "bind_write"
  /\ op' = "draft_erase"
  /\ \/ header' = info /\ ready' = TRUE
     \/ FlashFaults /\ UNCHANGED <<header, ready>>
  /\ UNCHANGED <<sent, nvs, list, screen, portal, pc, r, info, ghosts>>

(* The note enters the list; the draft goes, its errors ignored.           *)
DraftErase ==
  /\ op = "draft_erase"
  /\ ids' = <<r.id>> \o ids
  /\ draft' \in (IF NvsFaults THEN {NoText, draft} ELSE {NoText})
  /\ op' = "save_flush"
  /\ UNCHANGED <<sent, note, flashNote, flashDraft, nextId, screen, portal, pc, r,
                 clip, ghosts>>

(* The commit of the draft's erasure, the history page, and the e-paper    *)
(* synchronisation of the new note if an EE04 is configured.               *)
SaveFlush ==
  /\ op = "save_flush"
  /\ Commit \/ FailedCommit
  /\ Show("HISTORY_PAGE")
  /\ op' = "none"
  /\ r' = NoNote
  /\ \/ pc' = "sync" /\ sent' = r
     \/ UNCHANGED <<pc, sent>>
  /\ UNCHANGED <<note, draft, list, portal, clip, ghosts>>

-----------------------------------------------------------------------------
(* Changing and synchronising a stored note.                               *)

(* nvs_commit of write_record outside save_current; no caller does more    *)
(* than refresh the view with its result.                                  *)
WriteCommit ==
  /\ op = "write_commit"
  /\ Commit \/ FailedCommit
  /\ op' = "none"
  /\ r' = NoNote
  /\ UNCHANGED <<sent, note, draft, list, screen, portal, pc, clip, ghosts>>

(* OK on the history page.                                                 *)
ToggleDone(id) ==
  /\ Idle /\ page = "HISTORY_PAGE" /\ id \in Listed /\ Readable(id)
  /\ SetRecord([note[Slot(id)] EXCEPT !.done = ~@, !.synced = FALSE],
               "write_commit")
  /\ UNCHANGED <<sent, flashNote, draft, flashDraft, list, screen, portal, pc, clip,
                 ghosts>>

(* Hold DOWN in the history opens the menu of the selected note; Back      *)
(* returns to the history.                                                 *)
OpenActions(id) ==
  /\ Idle /\ page = "HISTORY_PAGE" /\ id \in Listed /\ Readable(id)
  /\ page' = "RECORD_ACTIONS"
  /\ target' = id
  /\ UNCHANGED <<sent, nvs, list, text, portal, pc, op, r, clip, ghosts>>

CloseActions ==
  /\ Idle /\ page = "RECORD_ACTIONS"
  /\ Show("HISTORY_PAGE")
  /\ UNCHANGED <<sent, nvs, list, portal, pc, op, r, clip, ghosts>>

(* The menu's sync reads the record, then talks to the EE04 unlocked.      *)
SyncNote ==
  /\ Idle /\ page = "RECORD_ACTIONS"
  /\ Show("HISTORY_PAGE")
  /\ IF Readable(target)
     THEN pc' = "sync" /\ sent' = note[Slot(target)]
     ELSE UNCHANGED <<pc, sent>>
  /\ UNCHANGED <<nvs, list, portal, op, r, clip, ghosts>>

SyncFails ==
  /\ pc = "sync" /\ op = "none"
  /\ pc' = "idle"
  /\ sent' = NoNote
  /\ UNCHANGED <<nvs, list, screen, portal, op, r, clip, ghosts>>

(* The EE04 acknowledged: the record read before the exchange goes back    *)
(* with synced set, by save_current or by the menu.                        *)
SyncAcked ==
  /\ pc = "sync" /\ op = "none"
  /\ pc' = "idle"
  /\ sent' = NoNote
  /\ SetRecord([sent EXCEPT !.synced = TRUE], "write_commit")
  /\ UNCHANGED <<flashNote, draft, flashDraft, list, screen, portal, clip,
                 ghosts>>

(* POST /api/note (memo_record_edit) on the HTTP server's task.            *)
MayEdit(id) ==
  /\ portal /\ op = "none"
  /\ page \notin {"ACTIVE", "RECORD_ACTIONS"}
  /\ Readable(id)

HttpEdit(id, t, d) ==
  /\ MayEdit(id)
  /\ SetRecord([note[Slot(id)] EXCEPT !.text = t, !.done = d,
                                      !.synced = FALSE], "write_commit")
  /\ UNCHANGED <<sent, flashNote, draft, flashDraft, list, screen, portal, pc, clip,
                 ghosts>>

-----------------------------------------------------------------------------
(* Deleting a note (remove_record), from the menu and from the portal.     *)

EraseRecord(id) ==
  IF id \in Listed /\ Readable(id)
  THEN \/ /\ note' = [note EXCEPT ![Slot(id)] = NoNote]
          /\ op' = "remove_commit"
          /\ r' = note[Slot(id)]
       \/ NvsFaults /\ UNCHANGED <<note, op, r>>
  ELSE UNCHANGED <<note, op, r>>

DeleteNote ==
  /\ Idle /\ page = "RECORD_ACTIONS"
  /\ EraseRecord(target)
  /\ Show("HISTORY_PAGE")
  /\ UNCHANGED <<sent, flashNote, draft, flashDraft, list, portal, pc, clip, ghosts>>

HttpRemove(id) ==
  /\ MayEdit(id)
  /\ EraseRecord(id)
  /\ UNCHANGED <<sent, flashNote, draft, flashDraft, list, screen, portal, pc, clip,
                 ghosts>>

RemoveCommit ==
  /\ op = "remove_commit"
  /\ \/ Commit /\ op' = "forget" /\ UNCHANGED limbo
     \/ FailedCommit /\ op' = "restore" /\ limbo' = limbo \cup {r.id}
  /\ UNCHANGED <<sent, note, draft, list, screen, portal, pc, r, clip, kept>>

(* The best-effort restoration after a failed commit: set and commit, both *)
(* of which may fail.  The note stays in the list.                         *)
Restore ==
  /\ op = "restore"
  /\ \/ /\ note' = [note EXCEPT ![Slot(r.id)] = r]
        /\ \/ flashNote' = note' /\ flashDraft' = draft
           \/ Torn(note', draft)
     \/ UNCHANGED <<note, flashNote, flashDraft>>
  /\ op' = "none"
  /\ r' = NoNote
  /\ UNCHANGED <<sent, draft, list, screen, portal, pc, clip, ghosts>>

(* memo_replay_forget and the removal from the list.                       *)
Forget ==
  /\ op = "forget"
  /\ IF info.id = r.id
     THEN /\ ready' = FALSE
          /\ header' \in (IF FlashFaults THEN {header, NoClip} ELSE {NoClip})
     ELSE UNCHANGED <<ready, header>>
  /\ \E k \in DOMAIN ids :
        /\ ids[k] = r.id
        /\ ids' = [i \in 1 .. Len(ids) - 1 |-> ids[IF i < k THEN i ELSE i + 1]]
  /\ op' = "none"
  /\ r' = NoNote
  /\ limbo' = limbo \ {r.id}
  /\ UNCHANGED <<sent, nvs, nextId, screen, portal, pc, info, kept>>

-----------------------------------------------------------------------------
(* The ids a request can name: those of stored notes.                      *)
Stored == {note[s].id : s \in {x \in Slots : note[x] # NoNote}}

Worker ==
  \/ RestoreDraft \/ OpenHistory \/ GoHome
  \/ OpenSettings \/ LeaveSettings \/ PortalClosed
  \/ StartSession \/ \E t \in Texts \cup {NoText} : EndSession(t)
  \/ SaveWrite
  \/ \E id \in Listed : ToggleDone(id) \/ OpenActions(id)
  \/ CloseActions \/ SyncNote \/ SyncFails \/ SyncAcked \/ DeleteNote

Http ==
  \E id \in Stored :
     HttpRemove(id) \/ \E t \in Texts, d \in BOOLEAN : HttpEdit(id, t, d)

(* The remaining storage calls of whichever task holds the lock.           *)
LockHolder ==
  \/ DraftCommit
  \/ SaveCommit \/ BindErase \/ BindWrite \/ DraftErase \/ SaveFlush
  \/ WriteCommit
  \/ RemoveCommit \/ Restore \/ Forget

Next == Worker \/ Http \/ LockHolder \/ PortalExpires \/ PowerCut

Spec == Init /\ [][Next]_vars

-----------------------------------------------------------------------------
Pages == {"HOME", "ACTIVE", "REVIEW", "HISTORY_PAGE", "RECORD_ACTIONS",
          "SETTINGS"}
Ops == {"none", "draft_commit", "save_commit", "bind_erase", "bind_write",
        "draft_erase", "save_flush", "write_commit", "remove_commit",
        "restore", "forget"}

(* Every variable has its type, and every record lies in the slot its id   *)
(* selects (record_key).                                                   *)
TypeOK ==
  /\ note \in [Slots -> Record \cup {NoNote}]
  /\ flashNote \in [Slots -> Record \cup {NoNote}]
  /\ \A s \in Slots : /\ note[s] # NoNote => Slot(note[s].id) = s
                      /\ flashNote[s] # NoNote => Slot(flashNote[s].id) = s
  /\ draft \in Texts \cup {NoText}
  /\ flashDraft \in Texts \cup {NoText}
  /\ ids \in Seq(Nat \ {0})
  /\ nextId \in Nat \ {0}
  /\ page \in Pages
  /\ text \in Texts \cup {NoText}
  /\ target \in Nat
  /\ portal \in BOOLEAN
  /\ pc \in {"idle", "session", "sync", "closing"}
  /\ op \in Ops
  /\ r \in Record \cup {NoNote}
  /\ sent \in Record \cup {NoNote}
  /\ header \in Clip \cup {NoClip}
  /\ info \in Clip
  /\ ready \in BOOLEAN
  /\ limbo \in SUBSET Nat
  /\ kept \in Texts \cup {NoText}

(* The list save_current's slot search, the history page and the boot scan *)
(* all rely on: newest first, no more than History notes, never two in the *)
(* same slot (a save would overwrite one of them), and the next id above   *)
(* all of them.  It has to survive deletions that leave holes in the ring, *)
(* saves that failed after taking an id, and reboots that take ids back.   *)
ListSound ==
  /\ Len(ids) <= History
  /\ \A i, j \in DOMAIN ids : i < j => ids[i] > ids[j]
  /\ \A i, j \in DOMAIN ids : Slot(ids[i]) = Slot(ids[j]) => i = j
  /\ \A i \in DOMAIN ids : ids[i] < nextId

(* The note being saved or removed: its place in the list and its place in *)
(* the store are not changed by one step.                                  *)
InTransit == IF op \in {"save_commit", "bind_erase", "bind_write",
                        "draft_erase", "forget", "remove_commit", "restore"}
             THEN {r.id} ELSE {}

(* What a user may rely on of the list (module Notebook), whatever the     *)
(* ring, the draft, the clip, the commits and their errors do below it: a  *)
(* reboot brings no deleted note back and takes none away, except those    *)
(* the user was told about, and a save finds a place or is refused.        *)
Promise == INSTANCE Notebook WITH unsure <- limbo \cup InTransit
KeepsPromise == Promise!Spec

(* The list and NVS agree: a listed note is readable, and its record would *)
(* be there after a power cut at this moment; a stored note is listed.     *)
(* Only ids whose save or deletion the user was told had failed, and the   *)
(* note an operation is working on, are excepted.  docs/usage.md: a save   *)
(* never silently evicts a note.                                           *)
StoreMirrorsList ==
  /\ \A id \in Listed \ (limbo \cup InTransit) :
        /\ Readable(id)
        /\ flashNote[Slot(id)] # NoNote /\ flashNote[Slot(id)].id = id
  /\ \A s \in Slots :
        note[s] # NoNote => note[s].id \in Listed \cup limbo \cup InTransit

(* A draft that was made durable stays durable until it is replaced by a   *)
(* newer one or a note with the text under review is durable, whatever     *)
(* fails and wherever power is lost in between (docs/usage.md: a finalized *)
(* draft is recovered by a reboot; deleting notes leaves it).              *)
DraftSurvives == kept # NoText => flashDraft = kept

(* While the worker talks to the EE04 without the lock, the record it read *)
(* before, and will write back whole, stays what the store holds: no edit, *)
(* deletion or toggle can be undone by the write-back.                     *)
SentIsCurrent == pc = "sync" => sent # NoNote /\ note[Slot(sent.id)] = sent

(* A clip that can be played for a note is the recording the note's text   *)
(* came from.  Ids are taken again after a reboot, so a header left behind *)
(* by a deleted note may name a new one; while no storage call fails, that *)
(* one has the same text.  It fails if the replay partition refuses an     *)
(* erase, or NVS the draft of a session whose note is saved and deleted.   *)
ClipMatchesNote ==
  \A id \in Listed :
     Readable(id) /\ Matches(NoText, id) => note[Slot(id)].origin = info.text

(* A clip is offered for playback only while the header that describes it  *)
(* is on Flash, whichever of the partition's calls fail: what is offered   *)
(* now is offered after a reboot too (docs/usage.md: a completed cache     *)
(* survives reboot).                                                       *)
OfferedIsDurable == ready => header = info

(* docs/security.md: a note's deletion clears its recording.  Whenever no  *)
(* operation is under way, a clip on Flash that was bound to a note is     *)
(* bound to one that still exists.                                         *)
DeletedAudioGone ==
  op = "none" /\ header # NoClip /\ header.id # 0 => header.id \in Listed

=============================================================================
