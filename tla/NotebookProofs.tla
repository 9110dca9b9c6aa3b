----------------------------- MODULE NotebookProofs -----------------------------
(***************************************************************************)
(* NoteStore implements Notebook: for any ring size and any combination of *)
(* failing sets, erasures and commits, with a power cut possible at every  *)
(* step, the list of notes changes only as Notebook allows.                *)
(***************************************************************************)
EXTENDS NoteStoreProofs

Unsure == limbo \cup InTransit

(* What Flash may show a boot: nothing but listed notes and those the user *)
(* was told about.  A note removed from the list is off Flash by then, and *)
(* the id of a note being saved is not one that failed before.             *)
FlashIsListed ==
  \A s \in Slots : flashNote[s] # NoNote => flashNote[s].id \in Listed \cup Unsure
DoubtSound ==
  /\ op = "forget" => flashNote[Slot(r.id)] = NoNote
  /\ \A id \in limbo : id < nextId
  /\ op \in SaveOps => r.id \notin limbo

PromiseInv == IInv /\ FlashIsListed /\ DoubtSound

-----------------------------------------------------------------------------
(* The steps that the notebook does not see.                               *)

(* What is neither a save, a removal nor a reboot leaves the ids in doubt. *)
LEMMA UnsureFrame ==
  ASSUME IInv, Next, ~SaveWrite, ~DraftErase, ~Forget, ~PowerCut, ~DeleteNote,
         \A id \in Stored : ~HttpRemove(id)
  PROVE  Unsure' = Unsure
<1> USE DEF IInv
<1>1. CASE SaveCommit \/ RemoveCommit
  BY <1>1 DEF SaveCommit, RemoveCommit, Unsure, InTransit
<1>2. CASE Restore
  BY <1>2 DEF Restore, RecordInHand, Unsure, InTransit, ghosts
<1>3. CASE DraftCommit \/ SaveFlush \/ WriteCommit
  BY <1>3 DEF DraftCommit, SaveFlush, WriteCommit, Unsure, InTransit, ghosts
<1>4. CASE SyncAcked
  BY <1>4 DEF SyncAcked, SetRecord, Unsure, InTransit, ghosts
<1>5. ASSUME NEW id \in Listed, ToggleDone(id) PROVE Unsure' = Unsure
  BY <1>5 DEF ToggleDone, Idle, SetRecord, Unsure, InTransit, ghosts
<1>6. ASSUME NEW id \in Stored, NEW t \in Texts, NEW d \in BOOLEAN, HttpEdit(id, t, d)
      PROVE  Unsure' = Unsure
  BY <1>6 DEF HttpEdit, MayEdit, SetRecord, Unsure, InTransit, ghosts
<1> QED
  BY <1>1, <1>2, <1>3, <1>4, <1>5, <1>6, StoreFrame DEF Unsure

(* The durable records come from the visible ones or stay.                 *)
LEMMA FlashFrame ==
  ASSUME IInv, Next, ~PowerCut
  PROVE  \A s \in Slots : flashNote'[s] \in {note'[s], flashNote[s]}
<1> USE DEF IInv
<1>1. CASE DraftCommit \/ SaveCommit \/ SaveFlush \/ WriteCommit \/ RemoveCommit
  <2>1. (Commit \/ FailedCommit) /\ note' = note
    BY <1>1 DEF DraftCommit, SaveCommit, SaveFlush, WriteCommit, RemoveCommit
  <2> QED
    BY <2>1, CommitType
<1>2. CASE Restore
  <2>1. r \in Record /\ IsStore([note EXCEPT ![Slot(r.id)] = r])
        /\ draft \in Texts \cup {NoText}
    BY <1>2, StoreUpdate DEF Restore, RecordInHand, RemoveOps, TypeOK, IsStore
  <2>2. CASE /\ note' = [note EXCEPT ![Slot(r.id)] = r]
             /\ flashNote' = note' \/ Torn(note', draft)
    BY <2>1, <2>2, StoreTorn
  <2> QED
    BY <1>2, <2>2 DEF Restore
<1>3. CASE /\ ~DraftCommit /\ ~SaveCommit /\ ~SaveFlush /\ ~WriteCommit
           /\ ~RemoveCommit /\ ~Restore
  <2>1. flashNote' = flashNote
    BY <1>3 DEF Next, Worker, Http, LockHolder, nvs, RestoreDraft, OpenHistory,
       GoHome, OpenSettings, LeaveSettings, PortalClosed, PortalExpires,
       StartSession, EndSession, SaveWrite, BindErase, BindWrite, DraftErase,
       ToggleDone, OpenActions, CloseActions, SyncNote, SyncFails, SyncAcked,
       DeleteNote, HttpRemove, HttpEdit, Forget
  <2> QED
    BY <2>1
<1> QED
  BY <1>1, <1>2, <1>3

-----------------------------------------------------------------------------
(* The steps that it sees.                                                 *)

(* A save that reaches NVS asks for a place that fits.                     *)
LEMMA SaveAsks ==
  ASSUME IInv, SaveWrite
  PROVE  Promise!AskSave /\ limbo' = limbo /\ Listed' = Listed /\ Unsure \subseteq Unsure'
         /\ (op' \in SaveOps => r'.id >= nextId)
<1> USE DEF IInv
<1>1. PICK id \in Nat \ {0} :
         LET rec == [id |-> id, text |-> text, done |-> FALSE,
                     synced |-> FALSE, origin |-> text]
         IN  /\ rec \in Record
             /\ SetRecord(rec, "save_commit")
             /\ nextId <= id /\ nextId' = id + 1
             /\ ~Used(id)
  BY SaveWriteTakesFreeSlot
<1>2. /\ op = "none" /\ Len(ids) < History
      /\ UNCHANGED <<ids, limbo>>
  BY DEF SaveWrite, Idle, ghosts
<1>3. ids \in Seq(Nat \ {0}) /\ nextId \in Nat \ {0}
  BY DEF TypeOK
<1>4. nextId' \in Nat /\ nextId' > nextId /\ nextId' - 1 = id
  BY <1>1, <1>3
<1>5. Promise!Fits(id)
  BY <1>1, <1>2, <1>3 DEF Promise!Fits, Promise!Listed, ListSound, Used, Slot
<1>6. InTransit = {} /\ InTransit' \in {{}, {id}}
      /\ (op' \in SaveOps => r'.id = id)
  BY <1>1, <1>2 DEF SetRecord, InTransit, SaveOps
<1> QED
  BY <1>1, <1>2, <1>3, <1>4, <1>5, <1>6 DEF Promise!AskSave, Unsure, Listed

(* The note saved becomes the newest, and is no longer in doubt.           *)
LEMMA DraftEraseSaves ==
  ASSUME PromiseInv, DraftErase
  PROVE  Promise!Saved(r.id) /\ r.id \in Unsure /\ Unsure' = Unsure \ {r.id}
<1> USE DEF PromiseInv, IInv
<1>1. /\ op = "draft_erase" /\ op' = "save_flush" /\ ids' = <<r.id>> \o ids
      /\ UNCHANGED <<nextId, limbo>>
  BY DEF DraftErase, ghosts
<1>2. Unsure = limbo \cup {r.id} /\ Unsure' = limbo
  BY <1>1 DEF Unsure, InTransit
<1>3. r.id \notin limbo
  BY <1>1 DEF DoubtSound, SaveOps
<1>4. Promise!Fits(r.id)
  BY <1>1 DEF Promise!Fits, Promise!Listed, RecordInHand, SaveOps, Slot
<1> QED
  BY <1>1, <1>2, <1>3, <1>4 DEF Promise!Saved, Unsure

(* An erased record is the one of a listed note.                           *)
LEMMA EraseAsks ==
  ASSUME IInv, DeleteNote \/ \E id \in Stored : HttpRemove(id)
  PROVE  /\ \/ \E id \in Listed : Promise!AskRemove(id)
            \/ UNCHANGED Promise!vars
         /\ Unsure \subseteq Unsure' /\ limbo' = limbo
         /\ Listed' = Listed /\ op' \in {"none", "remove_commit"}
<1> USE DEF IInv
<1>1. PICK id \in Nat : /\ op = "none" /\ EraseRecord(id)
                        /\ UNCHANGED <<ids, nextId, limbo>>
  BY DEF DeleteNote, HttpRemove, MayEdit, Idle, Stored, TypeOK, Record, list, ghosts
<1>2. InTransit = {} /\ Listed' = Listed
  BY <1>1 DEF InTransit, Listed
<1>3. CASE op' = "none"
  <2>1. InTransit' = {}
    BY <1>3 DEF InTransit
  <2> QED
    BY <1>1, <1>2, <1>3, <2>1 DEF Promise!vars, Unsure
<1>4. CASE op' # "none"
  <2>1. id \in Listed /\ r'.id = id /\ op' = "remove_commit"
    BY <1>1, <1>4, EraseRecordHand
  <2>2. InTransit' = {id}
    BY <2>1 DEF InTransit
  <2> QED
    BY <1>1, <1>2, <2>1, <2>2 DEF Promise!AskRemove, Promise!Listed, Listed, Unsure
<1> QED
  BY <1>3, <1>4

(* The note whose erasure is durable goes, and no other.                   *)
LEMMA ForgetRemoves ==
  ASSUME IInv, Forget
  PROVE  /\ \E k \in DOMAIN ids : Promise!Removed(k)
         /\ Unsure = limbo \cup {r.id} /\ Unsure' = Unsure \ {r.id}
         /\ limbo' = limbo \ {r.id}
<1>1. op = "forget" /\ op' = "none" /\ limbo' = limbo \ {r.id} /\ nextId' = nextId
  BY DEF Forget
<1>2. Unsure = limbo \cup {r.id} /\ Unsure' = Unsure \ {r.id}
  BY <1>1 DEF Unsure, InTransit
<1> QED
  BY <1>1, <1>2 DEF Forget, Promise!Removed, Unsure

(* A boot lists what is durable: every note not in doubt, and at most      *)
(* those in doubt beside them.                                             *)
LEMMA PowerCutReboots ==
  ASSUME PromiseInv, PowerCut
  PROVE  Promise!Reboot /\ Unsure' = {}
<1> USE DEF PromiseInv, IInv
<1>1. /\ IsStore(flashNote')
      /\ Listed' = {flashNote'[s].id : s \in {x \in Slots : flashNote'[x] # NoNote}}
  BY BootType
<1>2. /\ nextId' = IF ids' = <<>> THEN 1 ELSE ids'[1] + 1
      /\ limbo' = {} /\ op' = "none" /\ Torn(note, draft)
  BY DEF PowerCut, BootFrom
<1>3. Unsure' = {}
  BY <1>2 DEF Unsure, InTransit
<1>4. \A s \in Slots : flashNote'[s] \in {note[s], flashNote[s]}
  <2>1. IsStore(note) /\ draft \in Texts \cup {NoText}
    BY DEF TypeOK, IsStore
  <2> QED
    BY <1>2, <2>1, StoreTorn
<1>5. Listed' \subseteq Listed \cup Unsure
  BY <1>1, <1>4 DEF StoreMirrorsList, FlashIsListed, Unsure
<1>6. Listed \ Unsure \subseteq Listed'
  <2>1. SUFFICES ASSUME NEW id \in Listed \ Unsure PROVE id \in Listed'
    OBVIOUS
  <2>2. Slot(id) \in Slots
    BY SlotType DEF Listed, TypeOK
  <2>3. flashNote'[Slot(id)] # NoNote /\ flashNote'[Slot(id)].id = id
    BY <1>4, <2>2 DEF StoreMirrorsList, Readable, Unsure
  <2> QED
    BY <1>1, <2>2, <2>3
<1>7. Promise!Sound(ids')
  <2>1. ListSound'
    BY ListStep DEF Next
  <2> QED
    BY <2>1 DEF ListSound, Promise!Sound, Slot
<1> QED
  BY <1>2, <1>3, <1>5, <1>6, <1>7 DEF Promise!Reboot, Promise!Listed, Listed, Unsure

-----------------------------------------------------------------------------
(* The invariant.                                                          *)

(* Every step keeps Flash within what the user was told.                   *)
LEMMA FlashStep == PromiseInv /\ Next => FlashIsListed'
<1> SUFFICES ASSUME PromiseInv, Next PROVE FlashIsListed'
  OBVIOUS
<1> USE DEF PromiseInv
<1>1. CASE Forget
  <2>1. /\ Unsure = limbo \cup {r.id} /\ Unsure' = Unsure \ {r.id}
        /\ Listed' = Listed \ {r.id}
        /\ flashNote' = flashNote /\ flashNote[Slot(r.id)] = NoNote
    BY <1>1, ForgetRemoves, ForgetListed DEF Forget, nvs, DoubtSound
  <2>2. \A s \in Slots : flashNote[s] # NoNote => flashNote[s].id # r.id
    BY <2>1 DEF IInv, TypeOK
  <2> QED
    BY <2>1, <2>2 DEF FlashIsListed
<1>2. CASE PowerCut
  BY <1>2, BootType DEF IInv, FlashIsListed
<1>3. CASE ~Forget /\ ~PowerCut
  <2>1. StoreMirrorsList'
    BY StoreStep
  <2>2. \A s \in Slots : flashNote'[s] \in {note'[s], flashNote[s]}
    BY <1>3, FlashFrame
  <2>3. Listed \cup Unsure \subseteq Listed' \cup Unsure'
    <3>1. CASE SaveWrite
      BY <3>1, SaveAsks
    <3>2. CASE DraftErase
      BY <3>2, DraftEraseSaves, DraftEraseListed
    <3>3. CASE DeleteNote \/ \E id \in Stored : HttpRemove(id)
      BY <3>3, EraseAsks
    <3>4. CASE /\ ~SaveWrite /\ ~DraftErase /\ ~DeleteNote
               /\ \A id \in Stored : ~HttpRemove(id)
      BY <1>3, <3>4, ListFrame, UnsureFrame DEF list, Listed
    <3> QED
      BY <3>1, <3>2, <3>3, <3>4
  <2> QED
    BY <2>1, <2>2, <2>3 DEF StoreMirrorsList, FlashIsListed, Unsure
<1> QED
  BY <1>1, <1>2, <1>3

(* Every step keeps what is known of the ids in doubt.                     *)
LEMMA DoubtStep == PromiseInv /\ Next => DoubtSound'
<1> SUFFICES ASSUME PromiseInv, Next PROVE DoubtSound'
  OBVIOUS
<1> USE DEF PromiseInv
<1>1. CASE Forget
  BY <1>1 DEF Forget, DoubtSound, SaveOps
<1>2. CASE PowerCut
  BY <1>2 DEF PowerCut, BootFrom, DoubtSound, SaveOps
<1>3. CASE SaveWrite
  <2>1. /\ nextId \in Nat /\ limbo \in SUBSET Nat /\ op' # "forget"
        /\ Promise!AskSave /\ limbo' = limbo
        /\ op' \in SaveOps => r'.id >= nextId
    BY <1>3, SaveAsks DEF IInv, TypeOK, SaveWrite, SetRecord
  <2>2. nextId' \in Nat /\ nextId' > nextId
    BY <2>1 DEF Promise!AskSave
  <2>3. op' \in SaveOps => \A id \in limbo : id # r'.id
    <3>1. SUFFICES ASSUME op' \in SaveOps, NEW id \in limbo, id = r'.id PROVE FALSE
      OBVIOUS
    <3>2. id < nextId /\ id >= nextId /\ id \in Nat
      BY <2>1, <3>1 DEF DoubtSound
    <3> QED
      BY <2>1, <3>2
  <2>4. \A id \in limbo' : id < nextId'
    BY <2>1, <2>2 DEF DoubtSound
  <2> QED
    BY <2>1, <2>3, <2>4 DEF DoubtSound
<1>4. CASE SaveCommit
  BY <1>4 DEF SaveCommit, DoubtSound, SaveOps, RecordInHand, IInv, list
<1>5. CASE RemoveCommit
  <2>1. /\ op = "remove_commit" /\ op' \in {"forget", "restore"}
        /\ r' = r /\ note' = note /\ nextId' = nextId
        /\ limbo' \subseteq limbo \cup {r.id}
        /\ op' = "forget" => flashNote' = note
    BY <1>5 DEF RemoveCommit, Commit, list
  <2>2. r.id \in Listed /\ note[Slot(r.id)] = NoNote
    BY <2>1 DEF IInv, RecordInHand, RemoveOps
  <2>3. r.id < nextId
    BY <2>2 DEF IInv, ListSound, Listed
  <2>4. op' = "forget" => flashNote'[Slot(r'.id)] = NoNote
    BY <2>1, <2>2 DEF Slot
  <2> QED
    BY <2>1, <2>3, <2>4 DEF DoubtSound, SaveOps
<1>6. CASE BindErase \/ BindWrite \/ DraftErase
  BY <1>6 DEF BindErase, BindWrite, DraftErase, DoubtSound, SaveOps, list, ghosts
<1>7. CASE DeleteNote \/ \E id \in Stored : HttpRemove(id)
  <2>1. nextId' = nextId
    BY <1>7 DEF DeleteNote, HttpRemove, list
  <2> QED
    BY <1>7, <2>1, EraseAsks DEF DoubtSound, SaveOps
<1>8. CASE /\ ~Forget /\ ~PowerCut /\ ~SaveWrite /\ ~SaveCommit /\ ~RemoveCommit
           /\ ~BindErase /\ ~BindWrite /\ ~DraftErase /\ ~DeleteNote
           /\ \A id \in Stored : ~HttpRemove(id)
  <2>1. op' \notin SaveOps \cup {"forget"}
    BY <1>8, HandFrame DEF RemoveOps
  <2>2. nextId' = nextId
    BY <1>8, ListFrame DEF list
  <2>3. limbo' = limbo
    BY <1>8 DEF Next, Worker, Http, LockHolder, ghosts, RestoreDraft, OpenHistory,
       GoHome, OpenSettings, LeaveSettings, PortalClosed, PortalExpires,
       StartSession, EndSession, DraftCommit, SaveFlush, WriteCommit, ToggleDone,
       OpenActions, CloseActions, SyncNote, SyncFails, SyncAcked, HttpEdit, Restore
  <2> QED
    BY <2>1, <2>2, <2>3 DEF DoubtSound
<1> QED
  BY <1>1, <1>2, <1>3, <1>4, <1>5, <1>6, <1>7, <1>8

LEMMA PromiseInvariance == Spec => []PromiseInv
<1>1. Init => PromiseInv
  <2>1. SUFFICES ASSUME Init PROVE FlashIsListed /\ DoubtSound
    BY InitIInv DEF PromiseInv
  <2> QED
    BY <2>1 DEF Init, FlashIsListed, DoubtSound, SaveOps
<1>2. PromiseInv /\ UNCHANGED vars => PromiseInv'
  BY StutterIInv
     DEF PromiseInv, FlashIsListed, DoubtSound, Unsure, Listed, InTransit, Slot,
         vars, nvs, list, ghosts
<1>3. PromiseInv /\ [Next]_vars => PromiseInv'
  <2>1. PromiseInv /\ Next => IInv'
    BY TypeStep, ListStep, ControlStep, HandStep, DraftStep, SentStep, StoreStep
       DEF IInv, PromiseInv
  <2> QED
    BY <1>2, <2>1, FlashStep, DoubtStep DEF PromiseInv
<1> QED
  BY <1>1, <1>3, PTL DEF Spec

-----------------------------------------------------------------------------
(* The refinement.                                                         *)

(* Every step of the store is a step of the notebook or invisible to it.   *)
LEMMA PromiseStep == PromiseInv /\ [Next]_vars => [Promise!Next]_(Promise!vars)
<1> SUFFICES ASSUME PromiseInv, [Next]_vars
             PROVE  Promise!Next \/ UNCHANGED Promise!vars
  OBVIOUS
<1>1. CASE UNCHANGED vars
  BY <1>1 DEF vars, list, ghosts, InTransit, Promise!vars
<1>2. CASE SaveWrite
  BY <1>2, SaveAsks DEF PromiseInv, Promise!Next
<1>3. CASE DraftErase
  BY <1>3, DraftEraseSaves DEF Promise!Next, Unsure
<1>4. CASE DeleteNote \/ \E id \in Stored : HttpRemove(id)
  BY <1>4, EraseAsks DEF PromiseInv, Promise!Next, Promise!Listed, Listed
<1>5. CASE Forget
  BY <1>5, ForgetRemoves DEF PromiseInv, Promise!Next
<1>6. CASE PowerCut
  BY <1>6, PowerCutReboots DEF Promise!Next
<1>7. CASE /\ Next /\ ~SaveWrite /\ ~DraftErase /\ ~Forget /\ ~PowerCut
           /\ ~DeleteNote /\ \A id \in Stored : ~HttpRemove(id)
  <2>1. UNCHANGED list /\ Unsure' = Unsure
    BY <1>7, ListFrame, UnsureFrame DEF PromiseInv
  <2> QED
    BY <2>1 DEF list, Promise!vars, Unsure
<1> QED
  BY <1>1, <1>2, <1>3, <1>4, <1>5, <1>6, <1>7

(* What the ring of NVS keys does, save by save, deletion by deletion and  *)
(* reboot by reboot, is what the notebook allows: no save evicts a note,   *)
(* no deleted note comes back, and no reboot loses one, except notes whose *)
(* save or deletion was under way or was reported failed.                  *)
THEOREM StoreKeepsPromise == Spec => KeepsPromise
<1>1. Init => Promise!Init
  BY DEF Init, Promise!Init, InTransit
<1>2. PromiseInv /\ [Next]_vars => [Promise!Next]_(Promise!vars)
  BY PromiseStep
<1> QED
  BY <1>1, <1>2, PromiseInvariance, PTL DEF Spec, Promise!Spec, KeepsPromise
=============================================================================
