-------------------------------- MODULE Notebook --------------------------------
(***************************************************************************)
(* What the user of main/memo_app.c is promised of the list of notes: a    *)
(* note enters it once it was asked for and found a place, as the newest;  *)
(* it leaves only after its deletion was asked for; and a reboot shows     *)
(* every other note again (docs/usage.md: nothing is silently evicted).    *)
(* About a note whose save or deletion is under way, or was reported       *)
(* failed, nothing is promised across a reboot.  NoteStore implements this *)
(* with a ring of NVS keys, each written and committed on its own, that    *)
(* errors and power cuts interrupt.                                        *)
(***************************************************************************)
EXTENDS Integers, Sequences

CONSTANT History   \* the most notes kept, and the slots they are kept in

VARIABLES
  ids,      \* the notes shown, newest first
  nextId,   \* no note gets an id below this one before the next reboot
  unsure    \* ids a reboot may bring back or take away

vars == <<ids, nextId, unsure>>

Listed == {ids[i] : i \in DOMAIN ids}

(* There is room for a note id beside the listed ones, and it is newer.    *)
Fits(id) == /\ Len(ids) < History
            /\ \A other \in Listed : other < id /\ other % History # id % History

(* A list that a boot may show.                                            *)
Sound(list) ==
  /\ Len(list) <= History
  /\ \A i, j \in DOMAIN list : i < j => list[i] > list[j]
  /\ \A i, j \in DOMAIN list : list[i] % History = list[j] % History => i = j

Init == ids = <<>> /\ nextId = 1 /\ unsure = {}

(* The store is asked to keep a new note, whose id is not below nextId; a  *)
(* save that fails at once has used up the id and nothing else.            *)
AskSave ==
  /\ nextId' \in Nat /\ nextId' > nextId
  /\ LET id == nextId' - 1 IN
     /\ Fits(id)
     /\ unsure' \in {unsure, unsure \cup {id}}
  /\ UNCHANGED ids

Saved(id) ==
  /\ id \in unsure /\ Fits(id)
  /\ ids' = <<id>> \o ids
  /\ unsure' = unsure \ {id}
  /\ UNCHANGED nextId

AskRemove(id) ==
  /\ id \in Listed
  /\ unsure' = unsure \cup {id}
  /\ UNCHANGED <<ids, nextId>>

(* The note in place k goes; the others close up.                          *)
Removed(k) ==
  /\ ids[k] \in unsure
  /\ ids' = [i \in 1 .. Len(ids) - 1 |-> ids[IF i < k THEN i ELSE i + 1]]
  /\ unsure' = unsure \ {ids[k]}
  /\ UNCHANGED nextId

Reboot ==
  /\ unsure' = {}
  /\ nextId' = IF ids' = <<>> THEN 1 ELSE ids'[1] + 1
  /\ Listed \ unsure \subseteq Listed'
  /\ Listed' \subseteq Listed \cup unsure
  /\ Sound(ids')

Next ==
  \/ AskSave
  \/ \E id \in unsure : Saved(id)
  \/ \E id \in Listed : AskRemove(id)
  \/ \E k \in DOMAIN ids : Removed(k)
  \/ Reboot

Spec == Init /\ [][Next]_vars
=============================================================================
