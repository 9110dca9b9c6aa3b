---------------------------- MODULE NoteStoreProofs ----------------------------
(***************************************************************************)
(* Theorems about NoteStore, for any ring size, any texts and any          *)
(* combination of storage errors, with power cuts at every step.           *)
(***************************************************************************)
EXTENDS NoteStore, FiniteSetTheorems, TLAPS

-----------------------------------------------------------------------------
(* The inductive invariant: the properties NoteStore states, and what the  *)
(* operations in progress know.                                            *)

SaveOps == {"save_commit", "bind_erase", "bind_write", "draft_erase"}
AfterSaveCommit == {"bind_erase", "bind_write", "draft_erase", "save_flush"}
RemoveOps == {"remove_commit", "restore", "forget"}

(* Which page and which unlocked activity go together; the portal is up    *)
(* only on the settings page or while it is being closed.                  *)
ControlSound ==
  /\ pc = "sync" => page = "HISTORY_PAGE" /\ op = "none"
  /\ pc = "session" => page = "ACTIVE" /\ op = "none"
  /\ portal => page = "SETTINGS" \/ pc = "closing"
  /\ pc = "closing" => page = "HOME"
  /\ op \in SaveOps \cup {"save_flush", "draft_commit"} =>
        pc = "idle" /\ page = "REVIEW" /\ text # NoText
  /\ pc = "sync" => sent \in Record
  /\ page = "RECORD_ACTIONS" => target # 0

(* A record being saved has a slot and an id no listed note has; one being *)
(* removed is out of the store and still in the list.                      *)
RecordInHand ==
  /\ op \in SaveOps \cup RemoveOps \cup {"save_flush"} => r \in Record
  /\ op \in SaveOps => /\ Len(ids) < History
                       /\ r.id < nextId
                       /\ \A i \in DOMAIN ids : /\ ids[i] < r.id
                                                /\ Slot(ids[i]) # Slot(r.id)
  /\ op \in SaveOps \cup {"save_flush"} => note[Slot(r.id)] = r
  /\ op \in AfterSaveCommit => flashNote[Slot(r.id)] = r
  /\ op \in RemoveOps => r.id \in Listed /\ note[Slot(r.id)] = NoNote
  /\ op = "restore" => r.id \in limbo

DraftSound ==
  /\ kept # NoText => draft = kept /\ flashDraft = kept
  /\ op \in AfterSaveCommit => kept = NoText

IInv == /\ TypeOK
        /\ ListSound
        /\ ControlSound
        /\ RecordInHand
        /\ DraftSound
        /\ SentIsCurrent
        /\ StoreMirrorsList

-----------------------------------------------------------------------------
(* The slot allocation of save_current.                                    *)

(* A slot number is one of the ring's.                                     *)
LEMMA SlotType == \A id \in Nat : Slot(id) \in Slots
BY HistoryAssumption DEF Slot, Slots

(* History consecutive ids lie in History different slots.                 *)
LEMMA ConsecutiveSlots ==
  ASSUME NEW n \in Nat, NEW a \in Slots, NEW b \in Slots,
         Slot(n + a) = Slot(n + b)
  PROVE  a = b
<1> DEFINE q(x) == (n + x) \div History
<1>1. \A x \in Slots : /\ q(x) \in Int
                       /\ n + x = History * q(x) + Slot(n + x)
  BY HistoryAssumption DEF Slot, Slots
<1>2. PICK d \in Int : d = q(a) - q(b)
  BY <1>1
<1>3. a - b = History * d
  BY <1>1, <1>2, HistoryAssumption, SlotType DEF Slots
<1>4. d = 0
  BY <1>3, HistoryAssumption DEF Slots
<1> QED
  BY <1>3, <1>4, HistoryAssumption DEF Slots

(* While fewer than History notes are listed, one of the next History ids  *)
(* has a slot of its own, so the loop that allocates an id never settles   *)
(* for the slot of a listed note (save_current's loop has no other check). *)
THEOREM SaveFindsFreeSlot ==
  ASSUME ids \in Seq(Nat), nextId \in Nat, Len(ids) < History
  PROVE  \E a \in Slots : ~Used(nextId + a)
<1>1. SUFFICES ASSUME \A a \in Slots : Used(nextId + a)
               PROVE  FALSE
  OBVIOUS
<1> DEFINE f == [a \in Slots |-> CHOOSE i \in DOMAIN ids :
                                   Slot(ids[i]) = Slot(nextId + a)]
<1>2. \A a \in Slots : f[a] \in 1 .. Len(ids) /\ Slot(ids[f[a]]) = Slot(nextId + a)
  BY <1>1 DEF Used
<1>3. f \in [Slots -> 1 .. Len(ids)]
  BY <1>2
<1> HIDE DEF f
<1>4. IsFiniteSet(Slots) /\ Cardinality(Slots) = History
  <2>1. History - 1 \in Int /\ 0 \in Int /\ ~(0 > History - 1)
        /\ History - 1 - 0 + 1 = History
    BY HistoryAssumption
  <2>2. /\ IsFiniteSet(0 .. History - 1)
        /\ Cardinality(0 .. History - 1)
             = IF 0 > History - 1 THEN 0 ELSE History - 1 - 0 + 1
    BY <2>1, FS_Interval, Zenon
  <2> QED
    BY <2>1, <2>2 DEF Slots
<1>5. IsFiniteSet(1 .. Len(ids)) /\ Cardinality(1 .. Len(ids)) = Len(ids)
  BY FS_Interval
<1>6. PICK a, b \in Slots : a # b /\ f[a] = f[b]
  BY <1>3, <1>4, <1>5, FS_PigeonHole
<1> QED
  BY <1>2, <1>6, ConsecutiveSlots

-----------------------------------------------------------------------------
(* What the storage calls preserve.                                        *)

(* The type of a store: a record per slot at most, in its own slot.        *)
IsStore(st) == /\ st \in [Slots -> Record \cup {NoNote}]
               /\ \A s \in Slots : st[s] # NoNote => Slot(st[s].id) = s

(* A record put in its own slot, or removed, leaves a store of records in  *)
(* their slots.                                                            *)
LEMMA StoreUpdate ==
  ASSUME NEW st, IsStore(st), NEW rec \in Record
  PROVE  /\ IsStore([st EXCEPT ![Slot(rec.id)] = rec])
         /\ IsStore([st EXCEPT ![Slot(rec.id)] = NoNote])
<1>1. Slot(rec.id) \in Slots
  BY SlotType DEF Record
<1> QED
  BY <1>1 DEF IsStore

(* So does a power cut that keeps some of the changes.                     *)
LEMMA StoreTorn ==
  ASSUME NEW st, IsStore(st), NEW d \in Texts \cup {NoText},
         TypeOK, Torn(st, d)
  PROVE  /\ IsStore(flashNote')
         /\ flashDraft' \in Texts \cup {NoText}
         /\ \A s \in Slots : flashNote'[s] \in {st[s], flashNote[s]}
<1>1. PICK hit \in SUBSET Slots :
         flashNote' = [s \in Slots |-> IF s \in hit THEN st[s] ELSE flashNote[s]]
  BY DEF Torn
<1>2. \A s \in Slots : flashNote'[s] \in {st[s], flashNote[s]}
  BY <1>1
<1>3. flashNote' \in [Slots -> Record \cup {NoNote}]
  BY <1>1 DEF IsStore, TypeOK
<1> QED
  BY <1>2, <1>3 DEF IsStore, TypeOK, Torn

(* The durable side of a commit, whatever it returned.                     *)
LEMMA CommitType ==
  ASSUME TypeOK, Commit \/ FailedCommit
  PROVE  /\ IsStore(flashNote')
         /\ flashDraft' \in {draft, flashDraft}
         /\ \A s \in Slots : flashNote'[s] \in {note[s], flashNote[s]}
<1>1. IsStore(note) /\ draft \in Texts \cup {NoText}
  BY DEF TypeOK, IsStore
<1> QED
  BY <1>1, StoreTorn DEF Commit, FailedCommit, Torn

(* nvs_set_blob keeps the types.                                           *)
LEMMA SetRecordType ==
  ASSUME TypeOK, NEW rec \in Record, NEW next \in Ops, SetRecord(rec, next)
  PROVE  /\ IsStore(note')
         /\ op' \in Ops
         /\ r' \in Record \cup {NoNote}
<1>1. IsStore(note)
  BY DEF TypeOK, IsStore
<1> QED
  BY <1>1, StoreUpdate DEF SetRecord, Ops

(* nvs_erase_key keeps the types.                                          *)
LEMMA EraseRecordType ==
  ASSUME TypeOK, NEW id \in Nat, EraseRecord(id)
  PROVE  /\ IsStore(note')
         /\ op' \in Ops
         /\ r' \in Record \cup {NoNote}
<1>1. IsStore(note)
  BY DEF TypeOK, IsStore
<1>2. CASE note' = note /\ op' = op /\ r' = r
  BY <1>1, <1>2 DEF TypeOK
<1>3. CASE /\ Readable(id)
           /\ note' = [note EXCEPT ![Slot(id)] = NoNote]
           /\ op' = "remove_commit"
           /\ r' = note[Slot(id)]
  <2>1. note[Slot(id)] \in Record /\ note[Slot(id)].id = id
    BY <1>3, SlotType DEF Readable, TypeOK
  <2> QED
    BY <1>1, <1>3, <2>1, StoreUpdate DEF Ops
<1> QED
  BY <1>2, <1>3 DEF EraseRecord

-----------------------------------------------------------------------------
(* Type correctness.                                                       *)

(* What a power cut leaves and the next boot finds.                        *)
LEMMA BootType ==
  ASSUME TypeOK, PowerCut
  PROVE  /\ IsStore(flashNote') /\ note' = flashNote'
         /\ flashDraft' \in {draft, flashDraft} /\ draft' = flashDraft'
         /\ ids' \in Seq(Nat \ {0})
         /\ Len(ids') <= History
         /\ Listed' = {flashNote'[s].id : s \in {x \in Slots : flashNote'[x] # NoNote}}
         /\ \A i, j \in DOMAIN ids' : i < j => ids'[i] > ids'[j]
<1> DEFINE S == {flashNote'[s].id : s \in {x \in Slots : flashNote'[x] # NoNote}}
<1>1. IsStore(note) /\ draft \in Texts \cup {NoText}
  BY DEF TypeOK, IsStore
<1>2. /\ IsStore(flashNote') /\ note' = flashNote'
      /\ flashDraft' \in {draft, flashDraft} /\ draft' = flashDraft'
  BY <1>1, StoreTorn DEF PowerCut, BootFrom, Torn
<1>3. S \subseteq Nat \ {0}
  BY <1>2 DEF IsStore, Record
<1>4. ids' \in Descending(S)
  BY DEF PowerCut, BootFrom
<1>5. PICK n \in 0 .. History : ids' \in [1 .. n -> S]
  BY <1>4 DEF Descending
<1>6. n \in Nat /\ n <= History
  BY HistoryAssumption
<1>7. ids' \in Seq(Nat \ {0}) /\ Len(ids') = n /\ DOMAIN ids' = 1 .. n
  BY <1>3, <1>5, <1>6
<1>8. /\ {ids'[i] : i \in DOMAIN ids'} = S
      /\ \A i, j \in DOMAIN ids' : i < j => ids'[i] > ids'[j]
  BY <1>4 DEF Descending
<1> QED
  BY <1>2, <1>6, <1>7, <1>8 DEF Listed

(* Every step keeps the types.                                             *)
LEMMA TypeStep == IInv /\ Next => TypeOK'
<1> SUFFICES ASSUME IInv, Next PROVE TypeOK'
  OBVIOUS
<1> USE DEF IInv
<1>1. CASE RestoreDraft
  BY <1>1 DEF RestoreDraft, TypeOK, Idle, Pages, nvs, list, clip, ghosts
<1>2. CASE OpenHistory
  BY <1>2 DEF OpenHistory, Show, TypeOK, Pages, nvs, list, clip, ghosts
<1>3. CASE GoHome
  BY <1>3 DEF GoHome, Show, TypeOK, Pages, nvs, list, clip, ghosts
<1>4. CASE OpenSettings
  BY <1>4, ZenonT(60) DEF OpenSettings, Show, TypeOK, Pages, nvs, list, clip, ghosts
<1>5. CASE LeaveSettings
  BY <1>5 DEF LeaveSettings, Show, TypeOK, Pages, nvs, list, clip, ghosts
<1>6. CASE PortalClosed
  BY <1>6 DEF PortalClosed, TypeOK, nvs, list, screen, clip, ghosts
<1>7. CASE StartSession
  BY <1>7 DEF StartSession, Show, TypeOK, Pages, Unused, Clip, nvs, list, ghosts
<1>8. ASSUME NEW t \in Texts \cup {NoText}, EndSession(t) PROVE TypeOK'
  <2>1. info' \in Clip /\ header' \in Clip \cup {NoClip} /\ ready' \in BOOLEAN
    <3>1. info' = [id |-> 0, text |-> t]
      BY <1>8 DEF EndSession
    <3>2. info' \in Clip
      BY <3>1 DEF Clip
    <3>3. \/ header' = info' /\ ready' = TRUE
          \/ header' = header /\ ready' = ready
      BY <1>8 DEF EndSession
    <3> QED
      BY <3>2, <3>3 DEF TypeOK
  <2>2. draft' \in Texts \cup {NoText} /\ kept' \in Texts \cup {NoText}
        /\ op' \in Ops
    BY <1>8 DEF EndSession, TypeOK, Ops
  <2> QED
    BY <1>8, <2>1, <2>2 DEF EndSession, TypeOK, Pages, list
<1>9. CASE DraftCommit
  BY <1>9, CommitType
     DEF DraftCommit, TypeOK, IsStore, Ops, list, screen, clip
<1>10. CASE SaveWrite
  <2>1. PICK a \in Slots :
           LET id == nextId + a
               rec == [id |-> id, text |-> text, done |-> FALSE,
                       synced |-> FALSE, origin |-> text]
           IN  nextId' = id + 1 /\ SetRecord(rec, "save_commit")
    BY <1>10 DEF SaveWrite
  <2>2. /\ nextId' \in Nat \ {0}
        /\ [id |-> nextId + a, text |-> text, done |-> FALSE,
             synced |-> FALSE, origin |-> text] \in Record
    BY <1>10, <2>1, HistoryAssumption DEF SaveWrite, TypeOK, Record, Slots
  <2>3. IsStore(note') /\ op' \in Ops /\ r' \in Record \cup {NoNote}
    BY <2>1, <2>2, SetRecordType DEF Ops
  <2> QED
    BY <1>10, <2>2, <2>3 DEF SaveWrite, TypeOK, IsStore, screen, clip, ghosts
<1>11. CASE SaveCommit
  <2>1. r \in Record
    BY <1>11 DEF SaveCommit, RecordInHand, SaveOps
  <2>2. /\ limbo' \in SUBSET Nat /\ kept' \in Texts \cup {NoText}
        /\ op' \in Ops /\ r' \in Record \cup {NoNote}
    BY <1>11, <2>1 DEF SaveCommit, TypeOK, Ops, Record
  <2> QED
    BY <1>11, <2>2, CommitType DEF SaveCommit, TypeOK, IsStore, list, screen, clip
<1>12. CASE BindErase
  <2>1. r \in Record
    BY <1>12 DEF BindErase, RecordInHand, SaveOps
  <2>2. info' \in Clip
    BY <1>12, <2>1 DEF BindErase, TypeOK, Clip, Record
  <2> QED
    BY <1>12, <2>2, ZenonT(60) DEF BindErase, TypeOK, Ops, nvs, list, screen, ghosts
<1>13. CASE BindWrite
  BY <1>13, ZenonT(60) DEF BindWrite, TypeOK, Ops, nvs, list, screen, ghosts
<1>14. CASE DraftErase
  <2>1. r.id \in Nat \ {0}
    BY <1>14 DEF DraftErase, RecordInHand, SaveOps, Record
  <2>2. ids' \in Seq(Nat \ {0})
    BY <1>14, <2>1 DEF DraftErase, TypeOK
  <2> QED
    BY <1>14, <2>2 DEF DraftErase, TypeOK, Ops, screen, clip, ghosts
<1>15. CASE SaveFlush
  BY <1>15, CommitType
     DEF SaveFlush, Show, TypeOK, IsStore, Ops, Pages, list, clip, ghosts
<1>16. CASE WriteCommit
  BY <1>16, CommitType
     DEF WriteCommit, TypeOK, IsStore, Ops, list, screen, clip, ghosts
<1>17. ASSUME NEW id \in Listed, ToggleDone(id) PROVE TypeOK'
  <2>1. note[Slot(id)] \in Record
    BY <1>17, SlotType DEF ToggleDone, Readable, TypeOK, Listed
  <2>2. [note[Slot(id)] EXCEPT !.done = ~@, !.synced = FALSE] \in Record
    BY <2>1 DEF Record
  <2>3. IsStore(note') /\ op' \in Ops /\ r' \in Record \cup {NoNote}
    BY <1>17, <2>2, SetRecordType DEF ToggleDone, Ops
  <2> QED
    BY <1>17, <2>3 DEF ToggleDone, TypeOK, IsStore, list, screen, clip, ghosts
<1>18. ASSUME NEW id \in Listed, OpenActions(id) PROVE TypeOK'
  BY <1>18 DEF OpenActions, Listed, TypeOK, Pages, nvs, list, clip, ghosts
<1>19. CASE CloseActions
  BY <1>19 DEF CloseActions, Show, TypeOK, Pages, nvs, list, clip, ghosts
<1>20. CASE SyncNote
  <2>1. Readable(target) => note[Slot(target)] \in Record
    BY SlotType DEF Readable, TypeOK
  <2> QED
    BY <1>20, <2>1 DEF SyncNote, Show, TypeOK, Pages, nvs, list, clip, ghosts
<1>21. CASE SyncFails
  BY <1>21 DEF SyncFails, TypeOK, nvs, list, screen, clip, ghosts
<1>22. CASE SyncAcked
  <2>1. [sent EXCEPT !.synced = TRUE] \in Record
    BY <1>22 DEF SyncAcked, ControlSound, Record
  <2>2. IsStore(note') /\ op' \in Ops /\ r' \in Record \cup {NoNote}
    BY <1>22, <2>1, SetRecordType DEF SyncAcked, Ops
  <2> QED
    BY <1>22, <2>2 DEF SyncAcked, TypeOK, IsStore, list, screen, clip, ghosts
<1>23. CASE DeleteNote
  <2>1. IsStore(note') /\ op' \in Ops /\ r' \in Record \cup {NoNote}
    BY <1>23, EraseRecordType DEF DeleteNote, TypeOK
  <2> QED
    BY <1>23, <2>1
       DEF DeleteNote, Show, TypeOK, IsStore, Pages, list, clip, ghosts
<1>24. ASSUME NEW id \in Stored, HttpRemove(id) PROVE TypeOK'
  <2>1. id \in Nat
    BY DEF Stored, TypeOK, Record
  <2>2. IsStore(note') /\ op' \in Ops /\ r' \in Record \cup {NoNote}
    BY <1>24, <2>1, EraseRecordType DEF HttpRemove
  <2> QED
    BY <1>24, <2>2 DEF HttpRemove, TypeOK, IsStore, list, screen, clip, ghosts
<1>25. ASSUME NEW id \in Stored, NEW t \in Texts, NEW d \in BOOLEAN,
              HttpEdit(id, t, d)
       PROVE  TypeOK'
  <2>1. id \in Nat
    BY DEF Stored, TypeOK, Record
  <2>2. note[Slot(id)] \in Record
    BY <1>25, <2>1, SlotType DEF HttpEdit, MayEdit, Readable, TypeOK
  <2>3. [note[Slot(id)] EXCEPT !.text = t, !.done = d, !.synced = FALSE] \in Record
    BY <2>2 DEF Record
  <2>4. IsStore(note') /\ op' \in Ops /\ r' \in Record \cup {NoNote}
    BY <1>25, <2>3, SetRecordType DEF HttpEdit, Ops
  <2> QED
    BY <1>25, <2>4 DEF HttpEdit, TypeOK, IsStore, list, screen, clip, ghosts
<1>26. CASE RemoveCommit
  <2>1. r \in Record
    BY <1>26 DEF RemoveCommit, RecordInHand, RemoveOps
  <2>2. limbo' \in SUBSET Nat /\ op' \in Ops
    BY <1>26, <2>1 DEF RemoveCommit, TypeOK, Ops, Record
  <2> QED
    BY <1>26, <2>2, CommitType
       DEF RemoveCommit, TypeOK, IsStore, list, screen, clip
<1>27. CASE Restore
  <2>1. r \in Record /\ IsStore(note) /\ IsStore(flashNote)
        /\ draft \in Texts \cup {NoText} /\ flashDraft \in Texts \cup {NoText}
    BY <1>27 DEF Restore, RecordInHand, RemoveOps, TypeOK, IsStore
  <2>2. IsStore([note EXCEPT ![Slot(r.id)] = r])
    BY <2>1, StoreUpdate
  <2>3. /\ IsStore(note') /\ IsStore(flashNote')
        /\ flashDraft' \in Texts \cup {NoText}
    BY <1>27, <2>1, <2>2, StoreTorn DEF Restore
  <2> QED
    BY <1>27, <2>3 DEF Restore, TypeOK, IsStore, Ops, list, screen, clip, ghosts
<1>28. CASE Forget
  <2>1. PICK k \in DOMAIN ids :
           ids' = [i \in 1 .. Len(ids) - 1 |-> ids[IF i < k THEN i ELSE i + 1]]
    BY <1>28 DEF Forget
  <2>2. ids' \in Seq(Nat \ {0})
    BY <2>1 DEF TypeOK
  <2> QED
    BY <1>28, <2>2, ZenonT(60) DEF Forget, TypeOK, Ops, nvs, screen, ghosts
<1>29. CASE PortalExpires
  BY <1>29, ZenonT(60) DEF PortalExpires, TypeOK, nvs, list, screen, clip, ghosts
<1>30. CASE PowerCut
  <2>1. nextId' \in Nat \ {0}
    <3>1. ids' \in Seq(Nat \ {0})
      BY <1>30, BootType
    <3>2. nextId' = IF ids' = <<>> THEN 1 ELSE ids'[1] + 1
      BY <1>30 DEF PowerCut, BootFrom
    <3>3. ids' # <<>> => ids'[1] \in Nat \ {0}
      BY <3>1
    <3> QED
      BY <3>2, <3>3
  <2>2. info' \in Clip /\ header' \in Clip \cup {NoClip} /\ ready' \in BOOLEAN
    BY <1>30 DEF PowerCut, BootFrom, TypeOK, Unused, Clip
  <2>3. /\ page' \in Pages
        /\ text' \in Texts \cup {NoText}
        /\ portal' \in BOOLEAN
    BY <1>30, BootType DEF PowerCut, BootFrom, TypeOK, Pages
  <2> QED
    BY <1>30, <2>1, <2>2, <2>3, BootType
       DEF PowerCut, BootFrom, TypeOK, IsStore, Ops
<1> QED
  BY <1>1, <1>2, <1>3, <1>4, <1>5, <1>6, <1>7, <1>8, <1>9, <1>10, <1>11, <1>12,
     <1>13, <1>14, <1>15, <1>16, <1>17, <1>18, <1>19, <1>20, <1>21, <1>22,
     <1>23, <1>24, <1>25, <1>26, <1>27, <1>28, <1>29, <1>30
     DEF Next, Worker, Http, LockHolder

-----------------------------------------------------------------------------
(* Pages, unlocked activities and the portal.                              *)

(* Every step keeps the page, the activity and the portal in tune.         *)
LEMMA ControlStep == IInv /\ Next => ControlSound'
<1> SUFFICES ASSUME IInv, Next PROVE ControlSound'
  OBVIOUS
<1> USE DEF IInv, ControlSound, SaveOps
<1>1. CASE RestoreDraft
  BY <1>1 DEF RestoreDraft, Idle
<1>2. CASE OpenHistory \/ GoHome \/ OpenSettings \/ LeaveSettings
  <2>1. CASE OpenHistory
    BY <2>1 DEF OpenHistory, Idle, Show
  <2>2. CASE GoHome
    BY <2>2 DEF GoHome, Idle, Show
  <2>3. CASE OpenSettings
    BY <2>3 DEF OpenSettings, Idle, Show
  <2>4. CASE LeaveSettings
    BY <2>4 DEF LeaveSettings, Idle, Show
  <2> QED
    BY <1>2, <2>1, <2>2, <2>3, <2>4
<1>3. CASE PortalClosed \/ PortalExpires
  BY <1>3 DEF PortalClosed, PortalExpires, screen
<1>4. CASE StartSession
  BY <1>4 DEF StartSession, Idle, Show
<1>5. ASSUME NEW t \in Texts \cup {NoText}, EndSession(t) PROVE ControlSound'
  BY <1>5 DEF EndSession
<1>6. CASE DraftCommit
  BY <1>6 DEF DraftCommit, screen
<1>7. CASE SaveWrite
  BY <1>7 DEF SaveWrite, SetRecord, Idle, screen
<1>8. CASE SaveCommit
  BY <1>8 DEF SaveCommit, screen
<1>9. CASE BindErase \/ BindWrite \/ DraftErase
  BY <1>9 DEF BindErase, BindWrite, DraftErase, screen
<1>10. CASE SaveFlush
  <2>1. r \in Record
    BY <1>10 DEF SaveFlush, RecordInHand
  <2> QED
    BY <1>10, <2>1 DEF SaveFlush, Show
<1>11. CASE WriteCommit
  BY <1>11 DEF WriteCommit, screen
<1>12. ASSUME NEW id \in Listed, ToggleDone(id) PROVE ControlSound'
  BY <1>12 DEF ToggleDone, SetRecord, Idle, screen
<1>13. ASSUME NEW id \in Listed, OpenActions(id) PROVE ControlSound'
  <2>1. id # 0
    BY DEF Listed, TypeOK
  <2> QED
    BY <1>13, <2>1 DEF OpenActions, Idle
<1>14. CASE CloseActions
  BY <1>14 DEF CloseActions, Idle, Show
<1>15. CASE SyncNote
  <2>1. Readable(target) => note[Slot(target)] \in Record
    BY SlotType DEF Readable, TypeOK
  <2> QED
    BY <1>15, <2>1 DEF SyncNote, Idle, Show
<1>16. CASE SyncFails
  BY <1>16 DEF SyncFails, screen
<1>17. CASE SyncAcked
  BY <1>17 DEF SyncAcked, SetRecord, screen
<1>18. CASE DeleteNote
  BY <1>18 DEF DeleteNote, EraseRecord, Idle, Show
<1>19. ASSUME NEW id \in Stored, HttpRemove(id) PROVE ControlSound'
  BY <1>19 DEF HttpRemove, MayEdit, EraseRecord, screen
<1>20. ASSUME NEW id \in Stored, NEW t \in Texts, NEW d \in BOOLEAN,
              HttpEdit(id, t, d)
       PROVE  ControlSound'
  BY <1>20 DEF HttpEdit, MayEdit, SetRecord, screen
<1>21. CASE RemoveCommit \/ Restore \/ Forget
  BY <1>21 DEF RemoveCommit, Restore, Forget, screen
<1>22. CASE PowerCut
  BY <1>22 DEF PowerCut, BootFrom
<1> QED
  BY <1>1, <1>2, <1>3, <1>4, <1>5, <1>6, <1>7, <1>8, <1>9, <1>10, <1>11, <1>12,
     <1>13, <1>14, <1>15, <1>16, <1>17, <1>18, <1>19, <1>20, <1>21, <1>22
     DEF Next, Worker, Http, LockHolder

-----------------------------------------------------------------------------
(* The list.                                                               *)

(* A new note is written to a slot that no listed note has.                *)
LEMMA SaveWriteTakesFreeSlot ==
  ASSUME IInv, SaveWrite
  PROVE  \E id \in Nat \ {0} :
            LET rec == [id |-> id, text |-> text, done |-> FALSE,
                        synced |-> FALSE, origin |-> text]
            IN  /\ rec \in Record
                /\ SetRecord(rec, "save_commit")
                /\ nextId <= id /\ nextId' = id + 1
                /\ ~Used(id)
<1>1. PICK a \in Slots :
         LET id == nextId + a IN
         /\ Allocated(a)
         /\ nextId' = id + 1
         /\ SetRecord([id |-> id, text |-> text, done |-> FALSE,
                       synced |-> FALSE, origin |-> text], "save_commit")
  BY DEF SaveWrite
<1>2. nextId \in Nat \ {0} /\ ids \in Seq(Nat) /\ Len(ids) < History
  BY DEF SaveWrite, IInv, TypeOK
<1>3. PICK b \in Slots : ~Used(nextId + b)
  BY <1>2, SaveFindsFreeSlot
<1>4. ~Used(nextId + a)
  <2>1. SUFFICES ASSUME a = History - 1 PROVE ~Used(nextId + a)
    BY <1>1 DEF Allocated
  <2>2. b = a \/ b \in 0 .. a - 1
    BY <2>1, HistoryAssumption DEF Slots
  <2> QED
    BY <1>1, <1>3, <2>2 DEF Allocated
<1>5. nextId + a \in Nat \ {0} /\ nextId <= nextId + a
  BY <1>2, HistoryAssumption DEF Slots
<1>6. [id |-> nextId + a, text |-> text, done |-> FALSE,
       synced |-> FALSE, origin |-> text] \in Record
  BY <1>5 DEF SaveWrite, IInv, TypeOK, Record
<1> QED
  BY <1>1, <1>4, <1>5, <1>6

(* What leaves the list and the id counter alone.                          *)
LEMMA ListFrame ==
  ASSUME Next, ~SaveWrite, ~DraftErase, ~Forget, ~PowerCut
  PROVE  UNCHANGED list
BY DEF Next, Worker, Http, LockHolder, list, RestoreDraft, OpenHistory, GoHome,
       OpenSettings, LeaveSettings, PortalClosed, StartSession, EndSession,
       DraftCommit, SaveCommit, BindErase, BindWrite, SaveFlush, WriteCommit,
       ToggleDone, OpenActions, CloseActions, SyncNote, SyncFails, SyncAcked,
       DeleteNote, HttpRemove, HttpEdit, RemoveCommit, Restore, PortalExpires

(* Every step keeps the list sound.                                        *)
LEMMA ListStep == IInv /\ Next => ListSound'
<1> SUFFICES ASSUME IInv, Next PROVE ListSound'
  OBVIOUS
<1> USE DEF IInv
<1>1. CASE SaveWrite
  <2>1. nextId' > nextId /\ nextId \in Nat /\ nextId' \in Nat
    <3>1. PICK id \in Nat \ {0} : nextId <= id /\ nextId' = id + 1
      BY <1>1, SaveWriteTakesFreeSlot
    <3> QED
      BY <3>1 DEF TypeOK
  <2>2. ids' = ids /\ ids \in Seq(Nat \ {0})
    BY <1>1 DEF SaveWrite, TypeOK
  <2> QED
    BY <2>1, <2>2 DEF ListSound
<1>2. CASE DraftErase
  <2>1. /\ r.id \in Nat \ {0} /\ Len(ids) < History /\ r.id < nextId
        /\ \A i \in DOMAIN ids : /\ ids[i] < r.id
                                  /\ Slot(ids[i]) # Slot(r.id)
    BY <1>2 DEF DraftErase, RecordInHand, SaveOps, Record
  <2>2. ids' = <<r.id>> \o ids /\ nextId' = nextId /\ ids \in Seq(Nat \ {0})
    BY <1>2 DEF DraftErase, TypeOK
  <2>3. /\ Len(ids') = Len(ids) + 1
        /\ DOMAIN ids' = 1 .. Len(ids) + 1
        /\ ids'[1] = r.id
        /\ \A i \in DOMAIN ids' : i # 1 => i - 1 \in DOMAIN ids /\ ids'[i] = ids[i - 1]
    BY <2>1, <2>2
  <2>4. \A i, j \in DOMAIN ids' : i < j => ids'[i] > ids'[j]
    BY <2>1, <2>2, <2>3, SMTT(30) DEF ListSound
  <2>5. \A i, j \in DOMAIN ids' : Slot(ids'[i]) = Slot(ids'[j]) => i = j
    BY <2>1, <2>2, <2>3, SMTT(30) DEF ListSound
  <2>6. \A i \in DOMAIN ids' : ids'[i] < nextId'
    BY <2>1, <2>2, <2>3 DEF ListSound
  <2> QED
    BY <2>1, <2>3, <2>4, <2>5, <2>6, HistoryAssumption DEF ListSound, Slot
<1>3. CASE Forget
  <2>1. PICK k \in DOMAIN ids :
           ids' = [i \in 1 .. Len(ids) - 1 |-> ids[IF i < k THEN i ELSE i + 1]]
    BY <1>3 DEF Forget
  <2>2. ids \in Seq(Nat \ {0}) /\ nextId' = nextId
    BY <1>3 DEF Forget, TypeOK
  <2> DEFINE m(i) == IF i < k THEN i ELSE i + 1
  <2>3. /\ Len(ids') = Len(ids) - 1
        /\ \A i \in DOMAIN ids' : m(i) \in DOMAIN ids /\ ids'[i] = ids[m(i)]
        /\ \A i, j \in DOMAIN ids' : (i < j => m(i) < m(j)) /\ (m(i) = m(j) => i = j)
    BY <2>1, <2>2, SMTT(30)
  <2> HIDE DEF m
  <2> QED
    BY <2>2, <2>3, HistoryAssumption DEF ListSound
<1>4. CASE PowerCut
  <2>1. /\ IsStore(flashNote')
        /\ ids' \in Seq(Nat \ {0}) /\ Len(ids') <= History
        /\ Listed' = {flashNote'[s].id : s \in {x \in Slots : flashNote'[x] # NoNote}}
        /\ \A i, j \in DOMAIN ids' : i < j => ids'[i] > ids'[j]
    BY <1>4, BootType
  <2>2. \A i \in DOMAIN ids' : \E s \in Slots :
           flashNote'[s] # NoNote /\ ids'[i] = flashNote'[s].id /\ Slot(ids'[i]) = s
    <3>1. \A i \in DOMAIN ids' : ids'[i] \in Listed'
      BY DEF Listed
    <3> QED
      BY <2>1, <3>1 DEF IsStore
  <2>3. \A i, j \in DOMAIN ids' : Slot(ids'[i]) = Slot(ids'[j]) => ids'[i] = ids'[j]
    BY <2>2
  <2>4. \A i, j \in DOMAIN ids' : ids'[i] = ids'[j] => i = j
    BY <2>1
  <2>5. nextId' = IF ids' = <<>> THEN 1 ELSE ids'[1] + 1
    BY <1>4 DEF PowerCut, BootFrom
  <2>6. \A i \in DOMAIN ids' : ids'[i] < nextId'
    BY <2>1, <2>5
  <2> QED
    BY <2>1, <2>3, <2>4, <2>6 DEF ListSound, Slot
<1>5. CASE ~SaveWrite /\ ~DraftErase /\ ~Forget /\ ~PowerCut
  BY <1>5, ListFrame DEF ListSound, list, Slot
<1> QED
  BY <1>1, <1>2, <1>3, <1>4, <1>5

-----------------------------------------------------------------------------
(* The record in hand.                                                     *)

(* The actions after which a record is in hand.                            *)
LEMMA HandFrame ==
  ASSUME Next, op' \in SaveOps \cup RemoveOps \cup {"save_flush"}
  PROVE  \/ SaveWrite \/ SaveCommit \/ BindErase \/ BindWrite \/ DraftErase
         \/ DeleteNote \/ (\E id \in Stored : HttpRemove(id)) \/ RemoveCommit
<1> USE DEF SaveOps, RemoveOps
<1>1. ~RestoreDraft /\ ~OpenHistory /\ ~GoHome /\ ~OpenSettings /\ ~LeaveSettings
      /\ ~PortalClosed /\ ~StartSession /\ ~CloseActions
      /\ ~SyncNote /\ ~SyncFails /\ ~PortalExpires
  BY DEF RestoreDraft, OpenHistory, GoHome, OpenSettings, LeaveSettings,
         PortalClosed, StartSession, CloseActions, SyncNote, SyncFails,
         PortalExpires, Idle
<1>2. \A t \in Texts \cup {NoText} : ~EndSession(t)
  BY DEF EndSession
<1>3. \A id \in Listed : ~ToggleDone(id) /\ ~OpenActions(id)
  BY DEF ToggleDone, OpenActions, SetRecord, Idle
<1>4. ~SyncAcked /\ ~DraftCommit /\ ~SaveFlush /\ ~WriteCommit
      /\ ~Restore /\ ~Forget /\ ~PowerCut
  BY DEF SyncAcked, SetRecord, DraftCommit, SaveFlush, WriteCommit, Restore,
         Forget, PowerCut, BootFrom
<1>5. \A id \in Stored, t \in Texts, d \in BOOLEAN : ~HttpEdit(id, t, d)
  BY DEF HttpEdit, SetRecord
<1> QED
  BY <1>1, <1>2, <1>3, <1>4, <1>5 DEF Next, Worker, Http, LockHolder

(* A record being removed is out of the store and still listed.            *)
LEMMA EraseRecordHand ==
  ASSUME IInv, op = "none", NEW id \in Nat, EraseRecord(id), op' # "none"
  PROVE  /\ op' = "remove_commit"
         /\ note[Slot(id)] \in Record /\ note[Slot(id)].id = id
         /\ id \in Listed
         /\ r' = note[Slot(id)]
         /\ note' = [note EXCEPT ![Slot(id)] = NoNote]
         /\ Slot(id) \in Slots
  BY SlotType DEF EraseRecord, Readable, IInv, TypeOK

(* Every step keeps what is known of the record in hand.                   *)
LEMMA HandStep == IInv /\ Next => RecordInHand'
<1> SUFFICES ASSUME IInv, Next, op' \in SaveOps \cup RemoveOps \cup {"save_flush"}
             PROVE  RecordInHand'
  BY DEF RecordInHand, SaveOps, RemoveOps, AfterSaveCommit
<1> USE DEF IInv
<1>1. CASE SaveWrite
  <2>1. PICK id \in Nat \ {0} :
           LET rec == [id |-> id, text |-> text, done |-> FALSE,
                       synced |-> FALSE, origin |-> text]
           IN  /\ rec \in Record
               /\ SetRecord(rec, "save_commit")
               /\ nextId <= id /\ nextId' = id + 1
               /\ ~Used(id)
    BY <1>1, SaveWriteTakesFreeSlot
  <2> DEFINE rec == [id |-> id, text |-> text, done |-> FALSE,
                     synced |-> FALSE, origin |-> text]
  <2>2. /\ op' = "save_commit" /\ r' = rec /\ rec.id = id
        /\ note' = [note EXCEPT ![Slot(id)] = rec]
    BY <2>1 DEF SetRecord, SaveOps, RemoveOps
  <2>3. /\ Slot(id) \in Slots /\ rec \in Record /\ nextId <= id /\ nextId' = id + 1
        /\ ~Used(id)
    BY <2>1, SlotType
  <2> HIDE DEF rec
  <2>4. note'[Slot(r'.id)] = r'
    BY <2>2, <2>3 DEF TypeOK
  <2>5. /\ ids' = ids /\ Len(ids) < History
        /\ \A i \in DOMAIN ids : ids[i] < id /\ Slot(ids[i]) # Slot(id)
    BY <1>1, <2>3 DEF SaveWrite, Used, ListSound, TypeOK
  <2> QED
    BY <2>2, <2>3, <2>4, <2>5
       DEF RecordInHand, SaveOps, RemoveOps, AfterSaveCommit, Slot
<1>2. CASE SaveCommit
  BY <1>2 DEF SaveCommit, Commit, RecordInHand, SaveOps, RemoveOps,
              AfterSaveCommit, list, Slot
<1>3. CASE BindErase \/ BindWrite
  BY <1>3 DEF BindErase, BindWrite, RecordInHand, SaveOps, RemoveOps,
              AfterSaveCommit, list, nvs, Slot
<1>4. CASE DraftErase
  BY <1>4 DEF DraftErase, RecordInHand, SaveOps, RemoveOps, AfterSaveCommit, Slot
<1>5. CASE DeleteNote \/ \E id \in Stored : HttpRemove(id)
  <2>1. PICK id \in Nat : op = "none" /\ EraseRecord(id) /\ ids' = ids
    BY <1>5 DEF DeleteNote, HttpRemove, MayEdit, Idle, Stored, TypeOK, Record, list
  <2>2. op' # "none"
    BY DEF SaveOps, RemoveOps
  <2> QED
    BY <2>1, <2>2, EraseRecordHand
       DEF RecordInHand, SaveOps, RemoveOps, AfterSaveCommit, Listed, TypeOK, Slot
<1>6. CASE RemoveCommit
  BY <1>6 DEF RemoveCommit, RecordInHand, SaveOps, RemoveOps, AfterSaveCommit,
              list, Listed, Slot
<1> QED
  BY <1>1, <1>2, <1>3, <1>4, <1>5, <1>6, HandFrame

-----------------------------------------------------------------------------
(* The draft, and the record of a synchronisation.                         *)

(* What leaves the draft alone.                                            *)
LEMMA DraftFrame ==
  ASSUME Next, ~DraftErase, ~DraftCommit, ~SaveCommit, ~SaveFlush,
         ~WriteCommit, ~RemoveCommit, ~Restore, ~PowerCut,
         \A t \in Texts \cup {NoText} : ~EndSession(t)
  PROVE  /\ UNCHANGED <<draft, flashDraft, kept>>
         /\ op' \in AfterSaveCommit => op \in AfterSaveCommit
BY DEF Next, Worker, Http, LockHolder, AfterSaveCommit, nvs, ghosts,
       RestoreDraft, OpenHistory, GoHome, OpenSettings, LeaveSettings,
       PortalClosed, StartSession, SaveWrite, BindErase, BindWrite, SetRecord,
       ToggleDone, OpenActions, CloseActions, SyncNote, SyncFails, SyncAcked,
       DeleteNote, HttpRemove, HttpEdit, EraseRecord, Forget, PortalExpires

(* Every step keeps the draft sound.                                       *)
LEMMA DraftStep == IInv /\ Next => DraftSound'
<1> SUFFICES ASSUME IInv, Next PROVE DraftSound'
  OBVIOUS
<1> USE DEF IInv, DraftSound, AfterSaveCommit
<1>1. CASE DraftErase
  BY <1>1 DEF DraftErase, ghosts
<1>2. CASE DraftCommit
  BY <1>2, CommitType DEF DraftCommit, Commit, FailedCommit
<1>3. CASE SaveCommit
  BY <1>3, CommitType DEF SaveCommit
<1>4. CASE SaveFlush \/ WriteCommit
  BY <1>4, CommitType DEF SaveFlush, WriteCommit, ghosts
<1>5. CASE RemoveCommit
  BY <1>5, CommitType DEF RemoveCommit
<1>6. CASE Restore
  BY <1>6 DEF Restore, Torn, ghosts
<1>7. ASSUME NEW t \in Texts \cup {NoText}, EndSession(t) PROVE DraftSound'
  BY <1>7 DEF EndSession
<1>8. CASE PowerCut
  BY <1>8, BootType DEF PowerCut, BootFrom
<1>9. CASE /\ ~DraftErase /\ ~DraftCommit /\ ~SaveCommit /\ ~SaveFlush
           /\ ~WriteCommit /\ ~RemoveCommit /\ ~Restore /\ ~PowerCut
           /\ \A t \in Texts \cup {NoText} : ~EndSession(t)
  BY <1>9, DraftFrame
<1> QED
  BY <1>1, <1>2, <1>3, <1>4, <1>5, <1>6, <1>7, <1>8, <1>9

(* No edit from the portal can come while pc is "sync": the page is then   *)
(* the history, and the portal is up only in the settings.                 *)
LEMMA SyncFrame ==
  ASSUME IInv, Next, pc' = "sync"
  PROVE  SaveFlush \/ SyncNote
<1> USE DEF IInv, ControlSound
<1>1. CASE pc = "sync"
  <2>1. op = "none" /\ ~portal
    BY <1>1
  <2> QED
    BY <1>1, <2>1
       DEF Next, Worker, Http, LockHolder, Idle, MayEdit, RestoreDraft,
           OpenHistory, GoHome, OpenSettings, LeaveSettings, PortalClosed,
           StartSession, EndSession, SaveWrite, ToggleDone, OpenActions,
           CloseActions, SyncFails, SyncAcked, DeleteNote, HttpRemove,
           HttpEdit, DraftCommit, SaveCommit, BindErase, BindWrite,
           DraftErase, WriteCommit, RemoveCommit, Restore, Forget,
           PortalExpires, PowerCut, BootFrom
<1>2. CASE pc # "sync"
  BY <1>2
     DEF Next, Worker, Http, LockHolder, RestoreDraft,
         OpenHistory, GoHome, OpenSettings, LeaveSettings, PortalClosed,
         StartSession, EndSession, SaveWrite, ToggleDone, OpenActions,
         CloseActions, SyncFails, SyncAcked, DeleteNote, HttpRemove,
         HttpEdit, DraftCommit, SaveCommit, BindErase, BindWrite,
         DraftErase, WriteCommit, RemoveCommit, Restore, Forget,
         PortalExpires, PowerCut, BootFrom
<1> QED
  BY <1>1, <1>2

(* Every step keeps the note being sent as it was.                         *)
LEMMA SentStep == IInv /\ Next => SentIsCurrent'
<1> SUFFICES ASSUME IInv, Next, pc' = "sync" PROVE SentIsCurrent'
  BY DEF SentIsCurrent
<1> USE DEF IInv
<1>1. CASE SaveFlush
  <2>1. r \in Record /\ note[Slot(r.id)] = r
    BY <1>1 DEF SaveFlush, RecordInHand, SaveOps, RemoveOps
  <2>2. CASE sent' = r
    BY <1>1, <2>1, <2>2, NoNoteAssumption DEF SaveFlush, SentIsCurrent, Slot
  <2>3. CASE UNCHANGED <<pc, sent>>
    BY <1>1, <2>3 DEF SaveFlush, ControlSound
  <2> QED
    BY <1>1, <2>2, <2>3 DEF SaveFlush
<1>2. CASE SyncNote
  BY <1>2, SlotType
     DEF SyncNote, Idle, Readable, SentIsCurrent, nvs, TypeOK, Slot
<1> QED
  BY <1>1, <1>2, SyncFrame

-----------------------------------------------------------------------------
(* The list and the store.                                                 *)

(* The two halves of StoreMirrorsList.                                     *)
Durable(id) == /\ Readable(id)
               /\ flashNote[Slot(id)] # NoNote /\ flashNote[Slot(id)].id = id
ListedIsDurable == \A id \in Listed \ (limbo \cup InTransit) : Durable(id)
StoredIsListed ==
  \A s \in Slots : note[s] # NoNote => note[s].id \in Listed \cup limbo \cup InTransit

(* What leaves the stored records and the list alone.                      *)
LEMMA StoreFrame ==
  ASSUME Next, ~DraftCommit, ~SaveWrite, ~SaveCommit, ~DraftErase, ~SaveFlush,
         ~WriteCommit, ~SyncAcked, ~DeleteNote, ~RemoveCommit, ~Restore,
         ~Forget, ~PowerCut,
         \A id \in Listed : ~ToggleDone(id),
         \A id \in Stored : ~HttpRemove(id),
         \A id \in Stored, t \in Texts, d \in BOOLEAN : ~HttpEdit(id, t, d)
  PROVE  UNCHANGED <<ids, note, flashNote, limbo>> /\ InTransit' = InTransit
<1>1. CASE BindErase \/ BindWrite
  BY <1>1 DEF BindErase, BindWrite, InTransit, nvs, list, ghosts
<1>2. ASSUME NEW t \in Texts \cup {NoText}, EndSession(t)
      PROVE  UNCHANGED <<ids, note, flashNote, limbo>> /\ InTransit' = InTransit
  BY <1>2 DEF EndSession, InTransit, list
<1>3. CASE \/ RestoreDraft \/ OpenHistory \/ GoHome \/ OpenSettings
           \/ LeaveSettings \/ PortalClosed \/ StartSession \/ CloseActions
           \/ SyncNote \/ SyncFails \/ PortalExpires
           \/ \E id \in Listed : OpenActions(id)
  BY <1>3 DEF RestoreDraft, OpenHistory, GoHome, OpenSettings, LeaveSettings,
              PortalClosed, StartSession, CloseActions, SyncNote, SyncFails,
              PortalExpires, OpenActions, InTransit, nvs, list, ghosts
<1> QED
  BY <1>1, <1>2, <1>3 DEF Next, Worker, Http, LockHolder

(* A commit, good or bad, of a store that is not otherwise changed.        *)
LEMMA CommitStore ==
  ASSUME IInv, Commit \/ FailedCommit, UNCHANGED <<ids, note>>,
         limbo \cup InTransit \subseteq (limbo \cup InTransit)'
  PROVE  StoreMirrorsList'
<1> USE DEF IInv
<1>1. \A id \in Nat : Durable(id) => Durable(id)'
  BY CommitType, SlotType DEF Durable, Readable, Slot
<1>2. Listed' = Listed /\ Listed \subseteq Nat
  BY DEF Listed, TypeOK
<1>3. ListedIsDurable'
  BY <1>1, <1>2 DEF ListedIsDurable, StoreMirrorsList, Durable
<1>4. StoredIsListed'
  BY <1>2 DEF StoredIsListed, StoreMirrorsList
<1> QED
  BY <1>3, <1>4 DEF ListedIsDurable, StoredIsListed, StoreMirrorsList, Durable

(* A stored record replaced by a version of itself.                        *)
LEMMA RewriteStore ==
  ASSUME IInv, op = "none", NEW rec \in Record, Readable(rec.id),
         SetRecord(rec, "write_commit"), UNCHANGED <<ids, flashNote, limbo>>
  PROVE  StoreMirrorsList'
<1> USE DEF IInv
<1>1. Slot(rec.id) \in Slots /\ InTransit' = {} /\ InTransit = {}
  BY SlotType DEF Record, SetRecord, InTransit
<1>2. \A s \in Slots : /\ (note'[s] # NoNote) = (note[s] # NoNote)
                       /\ note[s] # NoNote => note'[s].id = note[s].id
  BY <1>1, NoNoteAssumption DEF SetRecord, Readable, TypeOK
<1>3. Listed' = Listed /\ \A id \in Listed : Slot(id) \in Slots
  BY SlotType DEF Listed, TypeOK
<1> QED
  BY <1>1, <1>2, <1>3 DEF StoreMirrorsList, Readable, Slot

(* A note put before the others is listed with them.                       *)
LEMMA DraftEraseListed ==
  ASSUME IInv, DraftErase
  PROVE  Listed' = {r.id} \cup Listed
<1>1. ids' = <<r.id>> \o ids /\ ids \in Seq(Nat \ {0})
  BY DEF DraftErase, IInv, TypeOK
<1>2. /\ Len(ids') = Len(ids) + 1
      /\ DOMAIN ids' = 1 .. Len(ids) + 1
      /\ ids'[1] = r.id
      /\ \A i \in DOMAIN ids' : i # 1 => i - 1 \in DOMAIN ids /\ ids'[i] = ids[i - 1]
      /\ \A i \in DOMAIN ids : i + 1 \in DOMAIN ids' /\ ids'[i + 1] = ids[i]
  BY <1>1, SMTT(30)
<1>3. 1 \in DOMAIN ids'
  BY <1>1, <1>2
<1> QED
  BY <1>2, <1>3 DEF Listed

(* Closing the gap of a removed note removes it and no other.              *)
LEMMA ForgetListed ==
  ASSUME IInv, Forget
  PROVE  Listed' = Listed \ {r.id}
<1>1. PICK k \in DOMAIN ids :
         /\ ids[k] = r.id
         /\ ids' = [i \in 1 .. Len(ids) - 1 |-> ids[IF i < k THEN i ELSE i + 1]]
  BY DEF Forget
<1>2. /\ DOMAIN ids' = 1 .. Len(ids) - 1 /\ DOMAIN ids = 1 .. Len(ids)
      /\ Len(ids) \in Nat
  BY <1>1 DEF IInv, TypeOK
<1>3. \A i \in DOMAIN ids' : \E j \in DOMAIN ids : j # k /\ ids'[i] = ids[j]
  BY <1>1, <1>2
<1>4. \A j \in DOMAIN ids : j # k => \E i \in DOMAIN ids' : ids'[i] = ids[j]
  <2>1. TAKE j \in DOMAIN ids
  <2>2. HAVE j # k
  <2> DEFINE i == IF j < k THEN j ELSE j - 1
  <2>3. i \in DOMAIN ids' /\ ids'[i] = ids[j]
    BY <1>1, <1>2, <2>2
  <2> QED
    BY <2>3
<1>5. \A j \in DOMAIN ids : j # k => ids[j] # r.id
  BY <1>1 DEF IInv, ListSound
<1>6. \A x : x \in Listed' <=> x \in Listed /\ x # r.id
  BY <1>1, <1>3, <1>4, <1>5 DEF Listed
<1> QED
  BY <1>6

(* Every step keeps the store and the list in agreement.                   *)
LEMMA StoreStep == IInv /\ Next => StoreMirrorsList'
<1> SUFFICES ASSUME IInv, Next PROVE StoreMirrorsList'
  OBVIOUS
<1> USE DEF IInv
<1>1. CASE DraftCommit \/ WriteCommit \/ SaveFlush
  <2>1. /\ Commit \/ FailedCommit
        /\ UNCHANGED <<ids, note, limbo>> /\ InTransit = {}
    BY <1>1 DEF DraftCommit, WriteCommit, SaveFlush, InTransit, list, ghosts
  <2> QED
    BY <2>1, CommitStore
<1>2. CASE SaveCommit
  <2>1. /\ Commit \/ FailedCommit
        /\ UNCHANGED <<ids, note>>
        /\ limbo \cup InTransit \subseteq (limbo \cup InTransit)'
    BY <1>2 DEF SaveCommit, InTransit, list
  <2> QED
    BY <2>1, CommitStore
<1>3. CASE RemoveCommit
  <2>1. /\ Commit \/ FailedCommit
        /\ UNCHANGED <<ids, note>>
        /\ limbo \cup InTransit \subseteq (limbo \cup InTransit)'
    BY <1>3 DEF RemoveCommit, InTransit, list
  <2> QED
    BY <2>1, CommitStore
<1>4. CASE SaveWrite
  <2>1. PICK id \in Nat \ {0} :
           LET rec == [id |-> id, text |-> text, done |-> FALSE,
                       synced |-> FALSE, origin |-> text]
           IN  rec \in Record /\ SetRecord(rec, "save_commit") /\ ~Used(id)
    BY <1>4, SaveWriteTakesFreeSlot
  <2>2. /\ UNCHANGED <<ids, flashNote, limbo>> /\ InTransit = {} /\ Listed' = Listed
        /\ Slot(id) \in Slots
    BY <1>4, SlotType DEF SaveWrite, Idle, InTransit, ghosts, Listed
  <2>3. CASE /\ note' = [note EXCEPT ![Slot(id)] =
                           [id |-> id, text |-> text, done |-> FALSE,
                            synced |-> FALSE, origin |-> text]]
             /\ InTransit' = {id}
    <3>1. \A x \in Listed : Slot(x) \in Slots /\ Slot(x) # Slot(id)
      BY <2>1, SlotType DEF Used, Listed, TypeOK
    <3>2. note'[Slot(id)].id = id /\ \A s \in Slots \ {Slot(id)} : note'[s] = note[s]
      BY <2>2, <2>3 DEF TypeOK
    <3> QED
      BY <2>2, <2>3, <3>1, <3>2 DEF StoreMirrorsList, Readable, Slot
  <2>4. CASE note' = note /\ InTransit' = {}
    BY <2>2, <2>4 DEF StoreMirrorsList, Readable, Slot
  <2> QED
    BY <2>1, <2>3, <2>4 DEF SetRecord, InTransit
<1>5. CASE DraftErase
  <2>1. /\ r \in Record /\ note[Slot(r.id)] = r /\ flashNote[Slot(r.id)] = r
        /\ UNCHANGED <<note, flashNote, limbo>>
        /\ InTransit = {r.id} /\ InTransit' = {}
    BY <1>5 DEF DraftErase, RecordInHand, SaveOps, AfterSaveCommit, InTransit, ghosts
  <2>2. Listed' = {r.id} \cup Listed
    BY <1>5, DraftEraseListed
  <2> QED
    BY <2>1, <2>2, NoNoteAssumption DEF StoreMirrorsList, Readable, Slot
<1>6. ASSUME NEW id \in Listed, ToggleDone(id) PROVE StoreMirrorsList'
  <2> DEFINE rec == [note[Slot(id)] EXCEPT !.done = ~@, !.synced = FALSE]
  <2>1. note[Slot(id)] \in Record /\ note[Slot(id)].id = id
    BY <1>6, SlotType DEF ToggleDone, Readable, TypeOK, Listed
  <2>2. rec \in Record /\ rec.id = id
    BY <2>1 DEF Record
  <2>3. /\ op = "none" /\ Readable(rec.id) /\ SetRecord(rec, "write_commit")
        /\ UNCHANGED <<ids, flashNote, limbo>>
    BY <1>6, <2>2 DEF ToggleDone, Idle, list, ghosts
  <2> QED
    BY <2>2, <2>3, RewriteStore
<1>7. CASE SyncAcked
  <2> DEFINE rec == [sent EXCEPT !.synced = TRUE]
  <2>1. sent \in Record /\ note[Slot(sent.id)] = sent
    BY <1>7 DEF SyncAcked, ControlSound, SentIsCurrent
  <2>2. rec \in Record /\ rec.id = sent.id
    BY <2>1 DEF Record
  <2>3. /\ op = "none" /\ Readable(rec.id) /\ SetRecord(rec, "write_commit")
        /\ UNCHANGED <<ids, flashNote, limbo>>
    BY <1>7, <2>1, <2>2, NoNoteAssumption DEF SyncAcked, Readable, list, ghosts
  <2> QED
    BY <2>2, <2>3, RewriteStore
<1>8. ASSUME NEW id \in Stored, NEW t \in Texts, NEW d \in BOOLEAN,
             HttpEdit(id, t, d)
      PROVE  StoreMirrorsList'
  <2> DEFINE rec == [note[Slot(id)] EXCEPT !.text = t, !.done = d, !.synced = FALSE]
  <2>1. id \in Nat
    BY DEF Stored, TypeOK, Record
  <2>2. note[Slot(id)] \in Record /\ note[Slot(id)].id = id
    BY <1>8, <2>1, SlotType DEF HttpEdit, MayEdit, Readable, TypeOK
  <2>3. rec \in Record /\ rec.id = id
    BY <2>2 DEF Record
  <2>4. /\ op = "none" /\ Readable(rec.id) /\ SetRecord(rec, "write_commit")
        /\ UNCHANGED <<ids, flashNote, limbo>>
    BY <1>8, <2>3 DEF HttpEdit, MayEdit, list, ghosts
  <2> QED
    BY <2>3, <2>4, RewriteStore
<1>9. CASE DeleteNote \/ \E id \in Stored : HttpRemove(id)
  <2>1. PICK id \in Nat : /\ op = "none" /\ EraseRecord(id)
                          /\ UNCHANGED <<ids, flashNote, limbo>>
    BY <1>9 DEF DeleteNote, HttpRemove, MayEdit, Idle, Stored, TypeOK, Record,
                list, ghosts
  <2>2. InTransit = {} /\ Listed' = Listed
    BY <2>1 DEF InTransit, Listed
  <2>3. CASE op' = "none"
    <3>1. note' = note /\ InTransit' = {}
      BY <2>1, <2>3 DEF EraseRecord, InTransit
    <3> QED
      BY <2>1, <2>2, <3>1 DEF StoreMirrorsList, Readable, Slot
  <2>4. CASE op' # "none"
    <3>1. /\ note' = [note EXCEPT ![Slot(id)] = NoNote] /\ Slot(id) \in Slots
          /\ note[Slot(id)].id = id /\ r'.id = id /\ InTransit' = {id}
          /\ id \in Listed
      BY <2>1, <2>4, EraseRecordHand DEF InTransit
    <3>2. /\ \A x \in Listed \ {id} : Slot(x) \in Slots \ {Slot(id)}
          /\ note'[Slot(id)] = NoNote
          /\ \A s \in Slots \ {Slot(id)} : note'[s] = note[s]
      <4>1. \A x \in Listed \ {id} : Slot(x) \in Slots
        BY SlotType DEF Listed, TypeOK
      <4>2. \A x \in Listed \ {id} : Slot(x) # Slot(id)
        BY <3>1 DEF Listed, ListSound
      <4> QED
        BY <3>1, <4>1, <4>2 DEF TypeOK
    <3> QED
      BY <2>1, <2>2, <3>1, <3>2 DEF StoreMirrorsList, Readable, Slot
  <2> QED
    BY <2>3, <2>4
<1>10. CASE Restore
  <2>1. /\ r \in Record /\ r.id \in limbo /\ r.id \in Listed
        /\ UNCHANGED <<ids, limbo>> /\ InTransit' = {} /\ InTransit = {r.id}
        /\ Slot(r.id) \in Slots
    BY <1>10, SlotType
       DEF Restore, RecordInHand, RemoveOps, InTransit, list, ghosts, Record
  <2>2. \A s \in Slots : /\ s # Slot(r.id) => note'[s] = note[s]
                         /\ note'[s] \in {note[s], r}
                         /\ flashNote'[s] \in {note'[s], flashNote[s]}
    <3>1. IsStore([note EXCEPT ![Slot(r.id)] = r]) /\ draft \in Texts \cup {NoText}
      BY <2>1, StoreUpdate DEF TypeOK, IsStore
    <3>2. CASE /\ note' = [note EXCEPT ![Slot(r.id)] = r]
               /\ flashNote' = note' \/ Torn(note', draft)
      <4>1. \A s \in Slots : flashNote'[s] \in {note'[s], flashNote[s]}
        BY <3>1, <3>2, StoreTorn
      <4> QED
        BY <2>1, <3>2, <4>1 DEF TypeOK
    <3>3. CASE UNCHANGED <<note, flashNote>>
      BY <3>3
    <3> QED
      BY <1>10, <3>2, <3>3 DEF Restore
  <2>3. \A id \in Listed \ limbo : Slot(id) \in Slots \ {Slot(r.id)}
    <3>1. \A id \in Listed : Slot(id) \in Slots
      BY SlotType DEF Listed, TypeOK
    <3>2. \A id \in Listed \ {r.id} : Slot(id) # Slot(r.id)
      BY <2>1 DEF Listed, ListSound
    <3> QED
      BY <2>1, <3>1, <3>2
  <2>4. \A id \in Listed \ limbo : Durable(id)'
    BY <2>1, <2>2, <2>3 DEF Durable, Readable, StoreMirrorsList, Slot
  <2>5. StoredIsListed'
    BY <2>1, <2>2 DEF StoredIsListed, StoreMirrorsList, Listed
  <2> QED
    BY <2>1, <2>4, <2>5 DEF StoredIsListed, StoreMirrorsList, Durable, Listed
<1>11. CASE Forget
  <2>1. /\ r \in Record /\ note[Slot(r.id)] = NoNote /\ InTransit = {r.id}
        /\ UNCHANGED <<note, flashNote>> /\ InTransit' = {}
        /\ limbo' = limbo \ {r.id}
    BY <1>11 DEF Forget, RecordInHand, RemoveOps, InTransit, nvs
  <2>2. Listed' = Listed \ {r.id}
    BY <1>11, ForgetListed
  <2>3. ListedIsDurable'
    BY <2>1, <2>2
       DEF ListedIsDurable, StoreMirrorsList, Durable, Readable, Slot
  <2>4. StoredIsListed'
    <3>1. SUFFICES ASSUME NEW s \in Slots, note'[s] # NoNote
                   PROVE  note'[s].id \in Listed' \cup limbo' \cup InTransit'
      BY DEF StoredIsListed
    <3>2. note[s].id # r.id
      BY <2>1, <3>1 DEF TypeOK
    <3> QED
      BY <2>1, <2>2, <3>1, <3>2 DEF StoreMirrorsList
  <2> QED
    BY <2>3, <2>4 DEF ListedIsDurable, StoredIsListed, StoreMirrorsList, Durable
<1>12. CASE PowerCut
  <2>1. /\ IsStore(flashNote') /\ note' = flashNote'
        /\ Listed' = {flashNote'[s].id : s \in {x \in Slots : flashNote'[x] # NoNote}}
    BY <1>12, BootType
  <2>2. \A id \in Listed' : \E s \in Slots :
           flashNote'[s] # NoNote /\ flashNote'[s].id = id /\ Slot(id) = s
    BY <2>1 DEF IsStore
  <2>3. ListedIsDurable'
    BY <2>1, <2>2 DEF ListedIsDurable, Durable, Readable, Slot
  <2>4. StoredIsListed'
    BY <2>1 DEF StoredIsListed
  <2> QED
    BY <2>3, <2>4 DEF ListedIsDurable, StoredIsListed, StoreMirrorsList, Durable
<1>13. CASE UNCHANGED <<ids, note, flashNote, limbo>> /\ InTransit' = InTransit
  BY <1>13 DEF StoreMirrorsList, Listed, Readable, Slot
<1> QED
  BY <1>1, <1>2, <1>3, <1>4, <1>5, <1>6, <1>7, <1>8, <1>9, <1>10, <1>11, <1>12,
     <1>13, StoreFrame

-----------------------------------------------------------------------------
(* The theorems.                                                           *)

(* The first boot finds an empty partition.                                *)
LEMMA InitIInv == Init => IInv
<1> SUFFICES ASSUME Init PROVE IInv
  OBVIOUS
<1>1. note = [s \in Slots |-> NoNote] /\ flashNote = note /\ ids = <<>>
  BY DEF Init
<1>2. TypeOK
  <2>1. info \in Clip
    BY DEF Init, Unused, Clip
  <2>2. ids \in Seq(Nat \ {0})
    BY <1>1
  <2>3. page \in Pages /\ op \in Ops /\ pc \in {"idle", "session", "sync", "closing"}
    BY DEF Init, Pages, Ops
  <2>4. /\ note \in [Slots -> Record \cup {NoNote}]
        /\ \A s \in Slots : note[s] = NoNote
    BY <1>1
  <2>5. nextId = 1 /\ target = 0 /\ limbo = {} /\ portal \in BOOLEAN
    BY DEF Init
  <2>6. /\ draft \in Texts \cup {NoText} /\ flashDraft \in Texts \cup {NoText}
        /\ text \in Texts \cup {NoText} /\ kept \in Texts \cup {NoText}
        /\ r \in Record \cup {NoNote} /\ sent \in Record \cup {NoNote}
        /\ header \in Clip \cup {NoClip} /\ ready \in BOOLEAN
    BY DEF Init
  <2> QED
    BY <1>1, <2>1, <2>2, <2>3, <2>4, <2>5, <2>6 DEF TypeOK
<1>3. ListSound /\ StoreMirrorsList
  BY <1>1, HistoryAssumption DEF Init, ListSound, StoreMirrorsList, Listed, InTransit
<1>4. ControlSound /\ RecordInHand /\ DraftSound /\ SentIsCurrent
  BY DEF Init, ControlSound, RecordInHand, DraftSound, SentIsCurrent, SaveOps,
         AfterSaveCommit, RemoveOps
<1> QED
  BY <1>2, <1>3, <1>4 DEF IInv

(* What changes no variable changes no conjunct.                           *)
LEMMA StutterIInv == IInv /\ UNCHANGED vars => IInv'
BY DEF vars, nvs, list, screen, clip, ghosts, IInv, TypeOK, ListSound, Listed,
       Slot, StoreMirrorsList, Readable, InTransit, ControlSound, RecordInHand,
       DraftSound, SentIsCurrent

(* The conjunction of the invariants is inductive: every storage call of   *)
(* every operation, every error it may return and every power cut keep it. *)
THEOREM Invariance == Spec => []IInv
<1>1. IInv /\ [Next]_vars => IInv'
  BY TypeStep, ListStep, ControlStep, HandStep, DraftStep, SentStep, StoreStep,
     StutterIInv DEF IInv
<1> QED
  BY InitIInv, <1>1, PTL DEF Spec

(* Type correctness; every record stays in the slot its id selects.        *)
THEOREM TypeCorrect == Spec => []TypeOK
BY Invariance, PTL DEF IInv

(* The list of notes stays sorted, bounded and free of slot clashes, for   *)
(* every ring size, through failed saves, deletions and reboots.           *)
THEOREM ListIsSound == Spec => []ListSound
BY Invariance, PTL DEF IInv

(* The history shows what Flash holds: no listed note is lost by a power   *)
(* cut or evicted by a save, and no stored note is missing from the list,  *)
(* except where an operation has just been reported failed.                *)
THEOREM NotesAreDurable == Spec => []StoreMirrorsList
BY Invariance, PTL DEF IInv

(* A draft once made durable is on Flash until its successor is.           *)
THEOREM DraftIsKept == Spec => []DraftSurvives
<1>1. IInv => DraftSurvives
  BY DEF IInv, DraftSound, DraftSurvives
<1> QED
  BY Invariance, <1>1, PTL

(* The write-back that marks a note as synchronised never overwrites a     *)
(* change made while the note was sent: there can be none.                 *)
THEOREM SyncLosesNoEdit == Spec => []SentIsCurrent
BY Invariance, PTL DEF IInv

-----------------------------------------------------------------------------
(* The replay clip.                                                        *)

(* No clip is offered during a session, and one offered is described by    *)
(* the header on Flash.                                                    *)
OfferSound == /\ OfferedIsDurable
              /\ pc = "session" => ~ready

(* What leaves the clip alone.                                             *)
LEMMA ClipFrame ==
  ASSUME Next, ~StartSession, ~BindErase, ~BindWrite, ~Forget, ~PowerCut,
         \A t \in Texts \cup {NoText} : ~EndSession(t)
  PROVE  UNCHANGED clip /\ (pc' = "session" => pc = "session")
BY DEF Next, Worker, Http, LockHolder, clip, nvs, list, screen, ghosts,
       RestoreDraft, OpenHistory, GoHome, OpenSettings, LeaveSettings,
       PortalClosed, SaveWrite, SetRecord, ToggleDone, OpenActions,
       CloseActions, SyncNote, SyncFails, SyncAcked, DeleteNote, HttpRemove,
       HttpEdit, EraseRecord, DraftCommit, SaveCommit, DraftErase, SaveFlush,
       WriteCommit, RemoveCommit, Restore, PortalExpires

(* Every step keeps what is offered durable.                               *)
LEMMA OfferStep == OfferSound /\ IInv /\ Next => OfferSound'
<1> SUFFICES ASSUME OfferSound, IInv, Next PROVE OfferSound'
  OBVIOUS
<1> USE DEF OfferSound, OfferedIsDurable
<1>1. CASE StartSession
  BY <1>1 DEF StartSession
<1>2. ASSUME NEW t \in Texts \cup {NoText}, EndSession(t) PROVE OfferSound'
  BY <1>2 DEF EndSession
<1>3. CASE BindErase
  BY <1>3 DEF BindErase
<1>4. CASE BindWrite
  BY <1>4 DEF BindWrite, IInv, ControlSound, SaveOps
<1>5. CASE Forget
  BY <1>5 DEF Forget
<1>6. CASE PowerCut
  BY <1>6 DEF PowerCut, BootFrom
<1>7. CASE /\ ~StartSession /\ ~BindErase /\ ~BindWrite /\ ~Forget /\ ~PowerCut
           /\ \A t \in Texts \cup {NoText} : ~EndSession(t)
  BY <1>7, ClipFrame DEF clip
<1> QED
  BY <1>1, <1>2, <1>3, <1>4, <1>5, <1>6, <1>7

(* What is offered for playback now is offered after a reboot, whatever    *)
(* the replay partition and NVS refuse to do (memo_replay.c clears ready   *)
(* before it erases and sets it after it wrote).                           *)
THEOREM OfferSurvivesReboot == Spec => []OfferedIsDurable
<1>1. Init => OfferSound
  BY DEF Init, OfferSound, OfferedIsDurable
<1>2. OfferSound /\ IInv /\ [Next]_vars => OfferSound'
  BY OfferStep DEF OfferSound, OfferedIsDurable, vars, clip
<1>3. OfferSound => OfferedIsDurable
  BY DEF OfferSound
<1> QED
  BY Invariance, <1>1, <1>2, <1>3, PTL DEF Spec

(* A note under the clip's id has the text of the clip.                    *)
OfClip(x) == x # NoNote /\ x.id = header.id => x.origin = header.text
ClipOf(t) == t \in {NoText, header.text}

(* Why an id taken again cannot give a note another's recording: as long   *)
(* as a clip is bound to an id, the draft is the clip's text or empty, and *)
(* only a session brings another draft, which erases the clip first.       *)
ClipSound ==
  /\ header # NoClip /\ header.id # 0 =>
        /\ \A s \in Slots : OfClip(note[s]) /\ OfClip(flashNote[s])
        /\ ClipOf(draft) /\ ClipOf(flashDraft)
  /\ pc = "session" => header = NoClip
  /\ page = "REVIEW" /\ text # NoText /\ op # "save_flush" => draft = text
  /\ op \in SaveOps => r.origin = text
  /\ op \in {"bind_erase", "bind_write", "draft_erase"} => flashDraft = draft
  /\ op \in {"bind_erase", "bind_write"} => info.text = text
  /\ op = "bind_write" => info.id = r.id
  /\ op # "restore"

(* The storage calls return no error.                                      *)
StorageWorks == ~NvsFaults /\ ~FlashFaults

ClipIInv == IInv /\ OfferSound /\ ClipSound

(* The note store's writes keep the origin of the record in the slot.      *)
LEMMA SameOrigin ==
  ASSUME ClipIInv, NEW rec \in Record, NEW next, SetRecord(rec, next), StorageWorks,
         UNCHANGED <<header, flashNote>>,
         header # NoClip, header.id # 0,
         rec.id = header.id => rec.origin = header.text
  PROVE  \A s \in Slots : OfClip(note[s])' /\ OfClip(flashNote[s])'
BY SlotType DEF ClipIInv, ClipSound, OfClip, SetRecord, StorageWorks, Record, IInv,
                TypeOK

(* So does changing a stored note outside a save.                          *)
LEMMA Rewritten ==
  ASSUME ClipIInv, StorageWorks, op = "none", op' = "write_commit",
         NEW rec \in Record, SetRecord(rec, "write_commit"),
         UNCHANGED <<flashNote, draft, flashDraft, page, text, header>>,
         pc' \in {pc, "idle"},
         NEW s \in Slots, note[s] \in Record, rec.id = note[s].id,
         rec.origin = note[s].origin
  PROVE  ClipSound'
<1>1. header # NoClip /\ header.id # 0 =>
         \A x \in Slots : OfClip(note[x])' /\ OfClip(flashNote[x])'
  BY SameOrigin, NoNoteAssumption DEF ClipIInv, ClipSound, OfClip
<1> QED
  BY <1>1 DEF ClipIInv, ClipSound, ClipOf, SaveOps

(* Every step, of storage that works, keeps what is known of the clip.     *)
LEMMA ClipStep == StorageWorks /\ ClipIInv /\ Next => ClipSound'
<1> SUFFICES ASSUME StorageWorks, ClipIInv, Next PROVE ClipSound'
  OBVIOUS
<1> USE DEF StorageWorks
<1>1. CASE RestoreDraft
  BY <1>1 DEF RestoreDraft, ClipIInv, ClipSound, OfClip, ClipOf, nvs, clip,
              SaveOps, Idle
<1>2. CASE OpenHistory \/ GoHome \/ OpenSettings \/ LeaveSettings \/ PortalClosed
  BY <1>2 DEF OpenHistory, GoHome, OpenSettings, LeaveSettings, PortalClosed, Show,
              ClipIInv, ClipSound, OfClip, ClipOf, nvs, clip, screen, SaveOps, Idle
<1>4. CASE StartSession
  BY <1>4 DEF StartSession, Show, ClipIInv, ClipSound, OfClip, ClipOf, nvs,
              SaveOps, Idle
<1>5. ASSUME NEW t \in Texts \cup {NoText}, EndSession(t) PROVE ClipSound'
  BY <1>5, TextAssumption DEF EndSession, ClipIInv, ClipSound, OfClip, ClipOf, SaveOps,
     IInv, ControlSound
<1>6. CASE DraftCommit
  BY <1>6 DEF DraftCommit, Commit, FailedCommit, ClipIInv, ClipSound, OfClip,
              ClipOf, list, screen, clip, SaveOps
<1>7. CASE SaveWrite
  <2>1. PICK id \in Nat \ {0} :
           LET rec == [id |-> id, text |-> text, done |-> FALSE,
                       synced |-> FALSE, origin |-> text]
           IN  rec \in Record /\ SetRecord(rec, "save_commit")
    BY <1>7, SaveWriteTakesFreeSlot DEF ClipIInv
  <2> DEFINE rec == [id |-> id, text |-> text, done |-> FALSE,
                     synced |-> FALSE, origin |-> text]
  <2>2. /\ rec \in Record /\ SetRecord(rec, "save_commit") /\ rec.origin = text
        /\ r' = rec /\ op' = "save_commit"
    BY <2>1 DEF SetRecord
  <2> HIDE DEF rec
  <2>3. /\ draft = text /\ text # NoText
        /\ UNCHANGED <<flashNote, draft, flashDraft, page, text, pc, header, info>>
    BY <1>7 DEF SaveWrite, ClipIInv, ClipSound, Idle, clip, screen
  <2>4. header # NoClip /\ header.id # 0 =>
           \A s \in Slots : OfClip(note[s])' /\ OfClip(flashNote[s])'
    BY <2>2, <2>3, SameOrigin DEF ClipIInv, ClipSound, ClipOf
  <2> QED
    BY <2>2, <2>3, <2>4 DEF ClipIInv, ClipSound, ClipOf, SaveOps
<1>8. CASE SaveCommit
  BY <1>8 DEF SaveCommit, Commit, FailedCommit, ClipIInv, ClipSound, OfClip,
              ClipOf, list, screen, clip, SaveOps, Matches
<1>9. CASE BindErase
  BY <1>9 DEF BindErase, ClipIInv, ClipSound, OfClip, ClipOf, nvs, screen, SaveOps,
              IInv, TypeOK, Clip
<1>10. CASE BindWrite
  <2>1. /\ header' = info /\ info.id = r.id /\ info.text = text /\ r.origin = text
        /\ draft = text /\ flashDraft = text
        /\ note[Slot(r.id)] = r /\ flashNote[Slot(r.id)] = r
        /\ op' = "draft_erase" /\ pc = "idle"
        /\ UNCHANGED <<note, flashNote, draft, flashDraft, page, text, pc, r>>
    BY <1>10 DEF BindWrite, ClipIInv, ClipSound, IInv, RecordInHand, ControlSound,
                 SaveOps, AfterSaveCommit, nvs, screen
  <2>2. \A s \in Slots : OfClip(note[s])' /\ OfClip(flashNote[s])'
    BY <2>1 DEF OfClip, ClipIInv, IInv, TypeOK
  <2> QED
    BY <2>1, <2>2 DEF ClipIInv, ClipSound, ClipOf, SaveOps
<1>11. CASE DraftErase
  BY <1>11 DEF DraftErase, ClipIInv, ClipSound, OfClip, ClipOf, screen, clip, SaveOps
<1>12. CASE SaveFlush
  BY <1>12 DEF SaveFlush, Commit, FailedCommit, Show, ClipIInv, ClipSound, OfClip,
               ClipOf, clip, SaveOps
<1>13. CASE WriteCommit
  BY <1>13 DEF WriteCommit, Commit, FailedCommit, ClipIInv, ClipSound, OfClip,
               ClipOf, list, screen, clip, SaveOps
<1>14. ASSUME NEW id \in Listed, ToggleDone(id) PROVE ClipSound'
  <2> DEFINE rec == [note[Slot(id)] EXCEPT !.done = ~@, !.synced = FALSE]
  <2>1. SetRecord(rec, "write_commit") /\ op' = "write_commit"
        /\ UNCHANGED <<flashNote, draft, flashDraft, page, text, pc, header>>
    BY <1>14 DEF ToggleDone, SetRecord, screen, clip
  <2>2. id \in Nat /\ Slot(id) \in Slots /\ op = "none"
    BY <1>14, SlotType DEF ToggleDone, ClipIInv, IInv, TypeOK, Listed, Idle
  <2>3. note[Slot(id)] \in Record
    BY <1>14, <2>2 DEF ToggleDone, Readable, ClipIInv, IInv, TypeOK
  <2>4. /\ rec \in Record /\ rec.id = note[Slot(id)].id
        /\ rec.origin = note[Slot(id)].origin
    BY <2>3 DEF Record
  <2> HIDE DEF rec
  <2> QED
    BY <2>1, <2>2, <2>3, <2>4, Rewritten
<1>15. ASSUME NEW id \in Listed, OpenActions(id) PROVE ClipSound'
  BY <1>15 DEF OpenActions, ClipIInv, ClipSound, OfClip, ClipOf, nvs, clip, SaveOps,
               Idle
<1>16. CASE CloseActions \/ SyncNote \/ SyncFails \/ PortalExpires
  BY <1>16 DEF CloseActions, SyncNote, SyncFails, PortalExpires, Show, ClipIInv,
               ClipSound, OfClip, ClipOf, nvs, clip, screen, SaveOps, Idle
<1>17. CASE SyncAcked
  <2> DEFINE rec == [sent EXCEPT !.synced = TRUE]
  <2>1. SetRecord(rec, "write_commit") /\ op' = "write_commit"
        /\ UNCHANGED <<flashNote, draft, flashDraft, page, text, header>>
        /\ pc' = "idle"
    BY <1>17 DEF SyncAcked, SetRecord, screen, clip
  <2>2. sent \in Record /\ note[Slot(sent.id)] = sent /\ Slot(sent.id) \in Slots
    BY <1>17, SlotType DEF SyncAcked, ClipIInv, IInv, SentIsCurrent, ControlSound,
                           Record
  <2>3. rec \in Record /\ rec.id = sent.id /\ rec.origin = sent.origin
    BY <2>2 DEF Record
  <2> HIDE DEF rec
  <2> QED
    BY <1>17, <2>1, <2>2, <2>3, Rewritten DEF SyncAcked
<1>18. ASSUME NEW id \in Stored, NEW t \in Texts, NEW d \in BOOLEAN, HttpEdit(id, t, d)
       PROVE  ClipSound'
  <2> DEFINE rec == [note[Slot(id)] EXCEPT !.text = t, !.done = d, !.synced = FALSE]
  <2>1. SetRecord(rec, "write_commit") /\ op' = "write_commit"
        /\ UNCHANGED <<flashNote, draft, flashDraft, page, text, pc, header>>
    BY <1>18 DEF HttpEdit, SetRecord, screen, clip
  <2>2. id \in Nat /\ Slot(id) \in Slots /\ op = "none"
    BY <1>18, SlotType DEF HttpEdit, MayEdit, ClipIInv, IInv, TypeOK, Stored, Record
  <2>3. note[Slot(id)] \in Record
    BY <1>18, <2>2 DEF HttpEdit, MayEdit, Readable, ClipIInv, IInv, TypeOK
  <2>4. /\ rec \in Record /\ rec.id = note[Slot(id)].id
        /\ rec.origin = note[Slot(id)].origin
    BY <2>3 DEF Record
  <2> HIDE DEF rec
  <2> QED
    BY <2>1, <2>2, <2>3, <2>4, Rewritten
<1>19. CASE DeleteNote \/ \E id \in Stored : HttpRemove(id)
  <2>1. /\ op = "none" /\ op' \in {"none", "remove_commit"}
        /\ \A s \in Slots : note'[s] \in {note[s], NoNote}
        /\ UNCHANGED <<flashNote, draft, flashDraft, pc, header>>
        /\ page' = "REVIEW" => page = "REVIEW" /\ text' = text
    BY <1>19 DEF DeleteNote, HttpRemove, MayEdit, Idle, EraseRecord, Show, screen, clip,
                 ClipIInv, IInv, TypeOK
  <2> QED
    BY <2>1 DEF ClipIInv, ClipSound, OfClip, ClipOf, SaveOps
<1>20. CASE RemoveCommit
  BY <1>20 DEF RemoveCommit, Commit, FailedCommit, ClipIInv, ClipSound, OfClip,
               ClipOf, list, screen, clip, SaveOps
<1>21. CASE Restore
  BY <1>21 DEF Restore, ClipIInv, ClipSound
<1>22. CASE Forget
  BY <1>22 DEF Forget, ClipIInv, ClipSound, OfClip, ClipOf, nvs, screen, SaveOps
<1>23. CASE PowerCut
  <2>1. /\ \A s \in Slots : flashNote'[s] \in {note[s], flashNote[s]}
        /\ flashDraft' \in {draft, flashDraft}
    BY <1>23, StoreTorn DEF PowerCut, Torn, ClipIInv, IInv, TypeOK, IsStore
  <2>2. /\ note' = flashNote' /\ draft' = flashDraft' /\ header' = header
        /\ pc' = "idle" /\ op' = "none"
        /\ page' = "REVIEW" => text' = draft'
    BY <1>23 DEF PowerCut, BootFrom
  <2> QED
    BY <2>1, <2>2 DEF ClipIInv, ClipSound, OfClip, ClipOf, SaveOps
<1> QED
  BY <1>1, <1>2, <1>4, <1>5, <1>6, <1>7, <1>8, <1>9, <1>10, <1>11, <1>12, <1>13,
     <1>14, <1>15, <1>16, <1>17, <1>18, <1>19, <1>20, <1>21, <1>22, <1>23
     DEF Next, Worker, Http, LockHolder

(* The recording offered for a note is the one its text was transcribed    *)
(* from, wherever power is lost, as long as the storage calls succeed.     *)
THEOREM ClipIsTheNotes == Spec => [](StorageWorks => ClipMatchesNote)
<1>1. Init => OfferSound /\ (StorageWorks => ClipSound)
  BY DEF Init, OfferSound, OfferedIsDurable, ClipSound, SaveOps
<1>2. /\ IInv /\ OfferSound /\ (StorageWorks => ClipSound) /\ [Next]_vars
      => OfferSound' /\ (StorageWorks => ClipSound)'
  <2> SUFFICES ASSUME IInv, OfferSound, StorageWorks => ClipSound, [Next]_vars
               PROVE  OfferSound' /\ (StorageWorks => ClipSound)'
    OBVIOUS
  <2>1. CASE Next
    BY <2>1, OfferStep, ClipStep DEF ClipIInv, StorageWorks
  <2>2. CASE UNCHANGED vars
    BY <2>2 DEF OfferSound, OfferedIsDurable, ClipSound, OfClip, ClipOf, SaveOps,
                StorageWorks, vars, nvs, list, screen, clip, ghosts
  <2> QED
    BY <2>1, <2>2
<1>3. IInv /\ OfferSound /\ (StorageWorks => ClipSound)
      => (StorageWorks => ClipMatchesNote)
  <2> SUFFICES ASSUME IInv, OfferSound, ClipSound, NEW id \in Listed,
                      Readable(id), Matches(NoText, id)
               PROVE  note[Slot(id)].origin = info.text
    BY DEF ClipMatchesNote
  <2>1. id \in Nat \ {0} /\ Slot(id) \in Slots
    BY SlotType DEF IInv, TypeOK, Listed
  <2>2. header = info /\ header.id = id /\ header # NoClip
    BY NoClipAssumption DEF Matches, OfferSound, OfferedIsDurable, IInv, TypeOK
  <2> QED
    BY <2>1, <2>2 DEF ClipSound, OfClip, Readable
<1> QED
  BY Invariance, <1>1, <1>2, <1>3, PTL DEF Spec

=============================================================================
