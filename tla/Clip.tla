--------------------------------- MODULE Clip ---------------------------------
(***************************************************************************)
(* What the application may rely on about the one recording that           *)
(* main/memo_replay.c keeps: it is absent, or a whole clip of one          *)
(* recording with the text transcribed from it.  A clip is published once, *)
(* gets a note's id at most once, is withdrawn at any time, and comes back *)
(* only by a reboot, as what is durable.  ReplayCache implements this with *)
(* erases and writes of Flash pages that power cuts and errors interrupt.  *)
(***************************************************************************)
EXTENDS Naturals

CONSTANTS
  Texts,    \* what a recording is transcribed to
  Ids,      \* ids of notes; a clip that belongs to none has id 0
  NoClip

VARIABLES
  takes,    \* recordings started so far
  held,     \* the clip memo_replay.c works on, NoClip between begin and finish
  durable,  \* the clip a reboot would find
  offered   \* the clip that can be played or streamed now

vars == <<takes, held, durable, offered>>

Init ==
  /\ takes = 0
  /\ held = NoClip
  /\ durable = NoClip
  /\ offered = NoClip

(* A recording starts: nothing is offered until it has been finished.      *)
Begin ==
  /\ takes' = takes + 1
  /\ held' = NoClip
  /\ offered' = NoClip
  /\ UNCHANGED durable

Finish(t) ==
  /\ held = NoClip /\ durable = NoClip /\ takes > 0
  /\ held' = [take |-> takes, text |-> t, id |-> 0]
  /\ UNCHANGED <<takes, durable, offered>>

(* The text has been saved as note i.                                      *)
Assign(i) ==
  /\ offered # NoClip /\ offered.id = 0
  /\ held' = [offered EXCEPT !.id = i]
  /\ offered' = NoClip
  /\ UNCHANGED <<takes, durable>>

(* Only the clip in hand is ever written, and never over another.          *)
Write ==
  /\ held # NoClip /\ durable = NoClip /\ offered = NoClip
  /\ durable' = held
  /\ offered' \in {NoClip, held}
  /\ UNCHANGED <<takes, held>>

Withdraw ==
  /\ offered' = NoClip
  /\ UNCHANGED <<takes, held, durable>>

Erase ==
  /\ offered = NoClip
  /\ durable' = NoClip
  /\ UNCHANGED <<takes, held, offered>>

(* A reboot may complete or undo the erase or write it interrupts.         *)
Reboot ==
  /\ durable' \in {durable, NoClip} \cup
                  (IF durable = NoClip /\ offered = NoClip THEN {held} ELSE {})
  /\ held' = durable'
  /\ offered' = durable'
  /\ UNCHANGED takes

Next ==
  \/ Begin
  \/ \E t \in Texts : Finish(t)
  \/ \E i \in Ids : Assign(i)
  \/ Write \/ Withdraw \/ Erase \/ Reboot

Spec == Init /\ [][Next]_vars
=============================================================================
