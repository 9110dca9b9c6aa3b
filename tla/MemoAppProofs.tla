---------------------------- MODULE MemoAppProofs ----------------------------
(***************************************************************************)
(* Theorems about MemoApp, for any length of the list and of the queue.    *)
(***************************************************************************)
EXTENDS MemoApp, SequenceTheorems, TLAPS

-----------------------------------------------------------------------------
(* What the list page shows: a position of the list and the note there, or *)
(* nothing.                                                                *)
ListShown ==
    /\ selected \in 1 .. Len(ids) \/ (ids = <<>> /\ selected = 0)
    /\ text = selectedId
    /\ selectedId # 0 => selectedId = ids[selected]

(* Which page goes with what the worker is in.                             *)
Control ==
    /\ pc = "session" <=> page = "session"
    /\ pc \in {"review", "history"} <=> page = "playback"
    /\ pc = "sync" => page = "history"
    /\ pc = "leaving" => page = "home"

(* The list stays shown while a recording is played from it, and the menu  *)
(* acts on the note that is shown.                                         *)
Shown ==
    /\ page \in {"history", "actions"} \/ pc = "history" => ListShown
    /\ page = "actions" => menu.record = selectedId /\ selectedId # 0

IInv == TypeOK /\ Control /\ Shown

-----------------------------------------------------------------------------
(* The smaller of two numbers.                                             *)
LEMMA MinOfTwo ==
    ASSUME NEW a \in Int, NEW b \in Int
    PROVE  Min({a, b}) = IF a <= b THEN a ELSE b
<1>1. \E x \in {a, b} : \A y \in {a, b} : x =< y
  BY SMT
<1>2. Min({a, b}) \in {a, b} /\ \A y \in {a, b} : Min({a, b}) =< y
  BY <1>1 DEF Min
<1> QED BY <1>2, SMT

(* A sequence without its i-th element: one shorter, with the elements     *)
(* before and after it.                                                    *)
LEMMA Removed ==
    ASSUME NEW S, NEW s \in Seq(S), NEW i \in 1 .. Len(s)
    PROVE  /\ RemoveAt(s, i) \in Seq(S)
           /\ Len(RemoveAt(s, i)) = Len(s) - 1
           /\ \A j \in 1 .. Len(s) - 1 :
                 RemoveAt(s, i)[j] = IF j < i THEN s[j] ELSE s[j + 1]
<1> DEFINE a == SubSeq(s, 1, i - 1)
           b == SubSeq(s, i + 1, Len(s))
<1>0. Len(s) \in Nat
  BY LenProperties
<1>1. a \in Seq(S) /\ Len(a) = i - 1 /\ \A j \in 1 .. i - 1 : a[j] = s[j]
  BY <1>0, SubSeqProperties, SMT
<1>2. b \in Seq(S) /\ Len(b) = Len(s) - i /\ \A j \in 1 .. Len(s) - i : b[j] = s[i + j]
  BY <1>0, SubSeqProperties, SMT
<1>3. /\ a \o b \in Seq(S) /\ Len(a \o b) = Len(a) + Len(b)
      /\ \A j \in 1 .. Len(a) + Len(b) : (a \o b)[j] = IF j <= Len(a) THEN a[j] ELSE b[j - Len(a)]
  BY <1>1, <1>2, ConcatProperties
<1> HIDE DEF a, b
<1>4. \A j \in 1 .. Len(s) - 1 : (a \o b)[j] = IF j < i THEN s[j] ELSE s[j + 1]
  <2> TAKE j \in 1 .. Len(s) - 1
  <2>1. CASE j < i
    BY <2>1, <1>0, <1>1, <1>2, <1>3, SMT
  <2>2. CASE ~(j < i)
    <3>1. j - (i - 1) \in 1 .. Len(s) - i /\ i + (j - (i - 1)) = j + 1
      BY <2>2, <1>0, SMT
    <3>2. b[j - (i - 1)] = s[j + 1]
      BY <3>1, <1>2
    <3>3. (a \o b)[j] = b[j - Len(a)]
      BY <2>2, <3>1, <1>0, <1>1, <1>2, <1>3, SMT
    <3> QED BY <2>2, <3>2, <3>3, <1>1
  <2> QED BY <2>1, <2>2
<1>5. RemoveAt(s, i) = a \o b
  BY DEF RemoveAt, a, b
<1>6. Len(a \o b) = Len(s) - 1
  BY <1>0, <1>1, <1>2, <1>3, SMT
<1> QED BY <1>3, <1>4, <1>5, <1>6

(* Everything but the removed note stays in the list.                      *)
LEMMA OthersStay ==
    ASSUME NEW S, NEW s \in Seq(S), NEW i \in 1 .. Len(s)
    PROVE  Range(s) \ Range(RemoveAt(s, i)) \subseteq {s[i]}
<1> DEFINE q == RemoveAt(s, i)
<1>1. /\ q \in Seq(S) /\ Len(q) = Len(s) - 1 /\ Len(s) \in Nat
      /\ \A j \in 1 .. Len(s) - 1 : q[j] = IF j < i THEN s[j] ELSE s[j + 1]
  BY Removed, LenProperties
<1> HIDE DEF q
<1>2. DOMAIN s = 1 .. Len(s) /\ DOMAIN q = 1 .. Len(q)
  BY <1>1, LenProperties
<1>3. ASSUME NEW j \in 1 .. Len(s), j # i
      PROVE  s[j] \in Range(q)
  <2>1. CASE j < i
    BY <2>1, <1>1, <1>2, SMT DEF Range
  <2>2. CASE j > i
    <3>1. j - 1 \in 1 .. Len(s) - 1 /\ ~(j - 1 < i) /\ (j - 1) + 1 = j
      BY <2>2, <1>1, SMT
    <3>2. q[j - 1] = s[j]
      BY <3>1, <1>1
    <3> QED BY <3>1, <3>2, <1>1, <1>2 DEF Range
  <2> QED BY <1>3, <2>1, <2>2, <1>1, SMT
<1> QED BY <1>2, <1>3 DEF Range, q

-----------------------------------------------------------------------------
USE DEF vars

Flow == /\ page \in Pages
        /\ pc \in {"idle", "session", "sync", "leaving", "review", "history"}
        /\ draft \in BOOLEAN /\ unreviewed \in BOOLEAN
        /\ Control

(* The page and what the worker is in go together after every step.        *)
LEMMA FlowStep ==
    ASSUME Flow, Next
    PROVE  Flow'
<1> USE DEF Flow, Pages, Control
<1>1. ASSUME NEW k \in Keys, Press(k)
      PROVE  Flow'
  BY <1>1, ZenonT(60) DEF Press
<1>2. CASE MenuStep \/ MenuDone \/ MenuIgnores
  BY <1>2, ZenonT(60) DEF MenuStep, MenuDone, MenuIgnores, Take
<1>3. CASE OpenSettings \/ StartPlayback \/ HomeDraft \/ HomeStart \/ HomeHistory
  BY <1>3, ZenonT(60) DEF OpenSettings, StartPlayback, HomeDraft, HomeStart, HomeHistory, Take
<1>4. CASE SaveCurrent \/ ReviewHome \/ HistoryHome \/ HistoryMove \/ HistoryToggle
  BY <1>4, ZenonT(60) DEF SaveCurrent, ReviewHome, HistoryHome, HistoryMove, HistoryToggle, Take
<1>5. CASE OpenMenu \/ LeaveSettings \/ Ignored
  BY <1>5, ZenonT(60) DEF OpenMenu, LeaveSettings, Ignored, Take
<1>6. CASE Ends
  BY <1>6, ZenonT(60) DEF Ends, EndPlayback, EndSession, EndSync, PortalStopped
<1>7. CASE PortalRemove
  BY <1>7, ZenonT(60) DEF PortalRemove
<1> HIDE DEF Flow, Pages, Control
<1> QED BY <1>1, <1>2, <1>3, <1>4, <1>5, <1>6, <1>7 DEF Next, Process

KeyRecord == [key : Keys, unseen : BOOLEAN]
Queue == keys \in Seq(KeyRecord) /\ Len(keys) <= QueueSize

(* The queue keeps to its size: a key is dropped, taken or left alone.     *)
LEMMA QueueStep ==
    ASSUME Queue, Next
    PROVE  Queue'
<1>1. ASSUME NEW k \in Keys, Press(k)
      PROVE  Queue'
  <2> DEFINE e == [key |-> k, unseen |-> pc = "sync"]
  <2>1. e \in KeyRecord
    BY ZenonT(30) DEF KeyRecord
  <2> HIDE DEF e
  <2>2. keys' = Append(keys, e) /\ Len(keys) < QueueSize
    BY <1>1 DEF Press, e
  <2>3. Append(keys, e) \in Seq(KeyRecord) /\ Len(Append(keys, e)) = Len(keys) + 1
    BY <2>1, AppendProperties DEF Queue
  <2> QED BY <2>2, <2>3, LenProperties, AppAssumption, SMT DEF Queue
<1>2. keys # <<>> /\ keys' = Tail(keys) => Queue'
  <2> SUFFICES ASSUME keys # <<>>, keys' = Tail(keys)
               PROVE  Queue'
    OBVIOUS
  <2>1. Tail(keys) \in Seq(KeyRecord) /\ Len(Tail(keys)) = Len(keys) - 1
    BY HeadTailProperties DEF Queue
  <2> QED BY <2>1, LenProperties, AppAssumption, SMT DEF Queue
<1>3. keys' = keys => Queue'
  BY DEF Queue
<1>4. CASE Process
  <2>1. keys # <<>> /\ keys' = Tail(keys)
    BY <1>4, ZenonT(60) DEF Process, MenuStep, MenuDone, MenuIgnores, OpenSettings,
       StartPlayback, HomeDraft, HomeStart, HomeHistory, SaveCurrent, ReviewHome, HistoryHome,
       HistoryMove, HistoryToggle, OpenMenu, LeaveSettings, Ignored, Take
  <2> QED BY <1>2, <2>1
<1>5. CASE Ends \/ PortalRemove
  BY <1>3, <1>5, ZenonT(30) DEF Ends, EndPlayback, EndSession, EndSync, PortalStopped, PortalRemove
<1> QED BY <1>1, <1>4, <1>5 DEF Next

Menu == [record : Ids \cup {0}, confirm : BOOLEAN, selected : 0 .. 2]

(* The menu's selection stays one of its options.                          *)
LEMMA MenuStepType ==
    ASSUME menu \in Menu, selectedId \in Ids \cup {0}, Next
    PROVE  menu' \in Menu
<1>1. NoMenu \in Menu
  BY SMT DEF NoMenu, Menu
<1>2. CASE MenuStep
  <2>1. MenuMove(Key) \in 0 .. 2
    <3>1. menu.selected \in 0 .. 2
      BY DEF Menu
    <3>2. Options \in {2, 3}
      BY DEF Options
    <3>3. \A m \in 0 .. 2, o \in {2, 3} : (m + (o - 1)) % o \in 0 .. 2 /\ (m + 1) % o \in 0 .. 2
      BY SMT
    <3> QED BY <3>1, <3>2, <3>3, ZenonT(30) DEF MenuMove
  <2>2. [menu EXCEPT !.confirm = TRUE, !.selected = 0] \in Menu
    <3> DEFINE asked == [menu EXCEPT !.confirm = TRUE]
    <3>1. asked \in Menu
      BY ZenonT(30) DEF Menu
    <3>2. [asked EXCEPT !.selected = 0] \in Menu
      <4> HIDE DEF asked
      <4>1. 0 \in 0 .. 2
        BY SMT
      <4> QED BY <3>1, <4>1, ZenonT(30) DEF Menu
    <3>3. [menu EXCEPT !.confirm = TRUE, !.selected = 0] = [asked EXCEPT !.selected = 0]
      BY SMT DEF Menu
    <3> QED BY <3>2, <3>3
  <2>3. [menu EXCEPT !.selected = MenuMove(Key)] \in Menu
    <3> DEFINE m == MenuMove(Key)
    <3>1. m \in 0 .. 2
      BY <2>1
    <3> HIDE DEF m
    <3> QED BY <3>1, ZenonT(30) DEF Menu, m
  <2> QED BY <1>2, <2>2, <2>3 DEF MenuStep
<1>3. CASE OpenMenu
  <2>1. [NoMenu EXCEPT !.record = selectedId] \in Menu
    <3> HIDE DEF NoMenu
    <3> QED BY <1>1, ZenonT(30) DEF Menu
  <2> QED BY <1>3, <2>1, ZenonT(30) DEF OpenMenu
<1>4. CASE Process /\ ~MenuStep /\ ~OpenMenu
  <2>1. menu' = NoMenu \/ menu' = menu
    BY <1>4, ZenonT(60) DEF Process, MenuDone, MenuIgnores, OpenSettings,
       StartPlayback, HomeDraft, HomeStart, HomeHistory, SaveCurrent, ReviewHome, HistoryHome,
       HistoryMove, HistoryToggle, LeaveSettings, Ignored
  <2> QED BY <1>1, <2>1
<1>5. CASE Ends \/ PortalRemove \/ \E k \in Keys : Press(k)
  BY <1>5, ZenonT(30) DEF Ends, EndPlayback, EndSession, EndSync, PortalStopped, PortalRemove, Press
<1> QED BY <1>2, <1>3, <1>4, <1>5 DEF Next

TextValues == Ids \cup {NoText, Transcript, Draft}
List == /\ ids \in Seq(Ids) /\ Len(ids) <= History /\ nextId \in 1 .. (IdBound + 1)
        /\ selected \in 0 .. History /\ selectedId \in Ids \cup {0}
        /\ text \in TextValues

(* The position of the selection once a note has been removed.             *)
LEMMA SelectionKept ==
    ASSUME List, NEW index \in 1 .. Len(ids)
    PROVE  /\ SelectionAfter(index) \in 0 .. Len(ids) - 1
           /\ selected \in 1 .. Len(ids) => (\/ SelectionAfter(index) \in 1 .. Len(ids) - 1
                                             \/ Len(ids) = 1 /\ SelectionAfter(index) = 0)
<1> DEFINE i == IF selected > index THEN selected - 1 ELSE selected
           n == Len(ids)
<1>1. n \in Nat /\ index \in 1 .. n /\ selected \in Nat
  BY LenProperties, AppAssumption, SMT DEF List
<1>2. i \in Int /\ i >= 0 /\ (selected >= 1 => i >= 1)
  BY <1>1, SMT
<1>3. SelectionAfter(index) = Min({i, n - 1})
  BY DEF SelectionAfter
<1> HIDE DEF i, n
<1>4. Min({i, n - 1}) = IF i <= n - 1 THEN i ELSE n - 1
  BY <1>1, <1>2, MinOfTwo, SMT
<1>5. /\ SelectionAfter(index) \in 0 .. n - 1
      /\ selected \in 1 .. n => (\/ SelectionAfter(index) \in 1 .. n - 1
                                 \/ n = 1 /\ SelectionAfter(index) = 0)
  BY <1>1, <1>2, <1>3, <1>4, SMT
<1> QED BY <1>5 DEF n

(* select_record shows the note at a position, or nothing.                 *)
LEMMA SelectShows ==
    ASSUME NEW list \in Seq(Ids), Len(list) <= History, ids' = list,
           NEW i, i \in 1 .. Len(list) \/ (list = <<>> /\ i = 0),
           SelectRecord(list, i)
    PROVE  /\ ListShown' /\ selected' \in 0 .. History
           /\ selectedId' \in Ids \cup {0} /\ text' \in TextValues
<1>1. Len(list) \in Nat
  BY LenProperties
<1>2. PICK readable \in BOOLEAN :
         /\ text' = IF list # <<>> /\ readable THEN list[i] ELSE NoText
         /\ selectedId' = IF list # <<>> /\ readable THEN list[i] ELSE 0
  BY DEF SelectRecord
<1>3. selected' = i
  BY DEF SelectRecord
<1>4. selected' \in 0 .. History
  BY <1>1, <1>3, AppAssumption, SMT
<1>5. i \in 1 .. Len(list) => list[i] \in Ids
  BY ElementOfSeq
<1>6. (text' = 0 /\ selectedId' = 0) \/ (list # <<>> /\ text' = list[i] /\ selectedId' = list[i])
  BY <1>2 DEF NoText
<1>7. selectedId' \in Ids \cup {0} /\ text' \in TextValues
  BY <1>5, <1>6 DEF TextValues, NoText
<1>8. ListShown'
  BY <1>3, <1>6 DEF ListShown
<1> QED BY <1>4, <1>7, <1>8

(* A note taken out of the list leaves a list that is shown.               *)
LEMMA RemoveShows ==
    ASSUME List, NEW index \in 1 .. Len(ids), ids' = RemoveAt(ids, index),
           selected \in 1 .. Len(ids) => SelectRecord(ids', SelectionAfter(index)),
           ListShown
    PROVE  /\ ids' \in Seq(Ids) /\ Len(ids') <= History
           /\ ListShown' /\ selected' \in 0 .. History
           /\ selectedId' \in Ids \cup {0} /\ text' \in TextValues
<1>1. Len(ids) \in Nat /\ Len(ids) >= 1
  BY LenProperties, SMT DEF List
<1>2. ids' \in Seq(Ids) /\ Len(ids') = Len(ids) - 1
  BY Removed DEF List
<1>3. Len(ids') <= History
  BY <1>1, <1>2, AppAssumption, SMT DEF List
<1>4. ids # <<>>
  BY <1>1, EmptySeq, SMT
<1>5. selected \in 1 .. Len(ids)
  BY <1>4 DEF ListShown
<1>6. SelectionAfter(index) \in 1 .. Len(ids') \/ (ids' = <<>> /\ SelectionAfter(index) = 0)
  <2>1. Len(ids) = 1 => ids' = <<>>
    BY <1>2, EmptySeq, SMT
  <2> QED BY <1>2, <1>5, <2>1, SelectionKept
<1> QED BY <1>2, <1>3, <1>5, <1>6, SelectShows

(* The menu returns to a list that is shown, whether it removed a note or  *)
(* not.                                                                    *)
LEMMA MenuDoneShows ==
    ASSUME IInv, MenuDone
    PROVE  List' /\ Shown'
<1>1. page = "actions" /\ page' = "history" /\ nextId' = nextId
  BY DEF MenuDone
<1>2. List /\ ListShown
  BY <1>1 DEF IInv, TypeOK, Shown, List, TextValues
<1>3. CASE ids' = ids /\ SelectRecord(ids, selected)
  <2>1. ids \in Seq(Ids) /\ Len(ids) <= History
    BY <1>2 DEF List
  <2>2. selected \in 1 .. Len(ids) \/ (ids = <<>> /\ selected = 0)
    BY <1>2 DEF ListShown
  <2>3. /\ ListShown' /\ selected' \in 0 .. History
        /\ selectedId' \in Ids \cup {0} /\ text' \in TextValues
    BY <1>3, <2>1, <2>2, SelectShows
  <2> QED BY <1>1, <1>2, <1>3, <2>3 DEF List, Shown
<1>4. CASE /\ menu.record \in Range(ids)
           /\ LET index == CHOOSE i \in 1 .. Len(ids) : ids[i] = menu.record
              IN  /\ ids' = RemoveAt(ids, index)
                  /\ SelectRecord(ids', SelectionAfter(index))
  <2> DEFINE index == CHOOSE i \in 1 .. Len(ids) : ids[i] = menu.record
  <2>1. \E i \in 1 .. Len(ids) : ids[i] = menu.record
    BY <1>2, <1>4, LenProperties DEF Range, List
  <2>2. index \in 1 .. Len(ids)
    BY <2>1
  <2>3. ids' = RemoveAt(ids, index) /\ SelectRecord(ids', SelectionAfter(index))
    BY <1>4
  <2> HIDE DEF index
  <2>4. /\ ids' \in Seq(Ids) /\ Len(ids') <= History
        /\ ListShown' /\ selected' \in 0 .. History
        /\ selectedId' \in Ids \cup {0} /\ text' \in TextValues
    BY <1>2, <2>2, <2>3, RemoveShows
  <2> QED BY <1>1, <1>2, <2>4 DEF List, Shown
<1> QED BY <1>3, <1>4 DEF MenuDone

(* So does every action that selects a note of the list.                   *)
LEMMA SelectingShows ==
    ASSUME IInv, HomeHistory \/ HistoryMove \/ HistoryToggle \/ EndSync
    PROVE  List' /\ Shown'
<1>1. page' = "history" /\ nextId' = nextId /\ ids' = ids
  BY DEF IInv, Control, HomeHistory, HistoryMove, HistoryToggle, EndSync
<1>2. List
  BY DEF IInv, TypeOK, List, TextValues
<1>3. ids \in Seq(Ids) /\ Len(ids) <= History /\ Len(ids) \in Nat /\ (Len(ids) = 0 => ids = <<>>)
  BY <1>2, LenProperties, EmptySeq DEF List
<1>4. HistoryMove \/ HistoryToggle \/ EndSync => ListShown
  BY DEF IInv, Shown, Control, HistoryMove, HistoryToggle, EndSync
<1>5. ASSUME NEW i, i \in 1 .. Len(ids) \/ (ids = <<>> /\ i = 0), SelectRecord(ids, i)
      PROVE  List' /\ Shown'
  <2>1. /\ ListShown' /\ selected' \in 0 .. History
        /\ selectedId' \in Ids \cup {0} /\ text' \in TextValues
    BY <1>1, <1>3, <1>5, SelectShows
  <2> QED BY <1>1, <1>2, <2>1 DEF List, Shown
<1>6. ASSUME ListShown, text' = text, selected' = selected, selectedId' = selectedId
      PROVE  List' /\ Shown'
  BY <1>1, <1>2, <1>6 DEF List, Shown, ListShown
<1>7. CASE HomeHistory
  <2> DEFINE i == IF ids = <<>> THEN 0 ELSE 1
  <2>1. i \in 1 .. Len(ids) \/ (ids = <<>> /\ i = 0)
    BY <1>3, SMT
  <2>2. SelectRecord(ids, i)
    BY <1>7 DEF HomeHistory
  <2> QED BY <1>5, <2>1, <2>2
<1>8. CASE HistoryMove
  <2> DEFINE i == IF Key = "UP" THEN ((selected + Len(ids) - 2) % Len(ids)) + 1
                                ELSE (selected % Len(ids)) + 1
  <2>1. CASE ids = <<>>
    BY <1>4, <1>6, <1>8, <2>1 DEF HistoryMove
  <2>2. CASE ids # <<>>
    <3>1. Len(ids) \in Nat \ {0} /\ selected \in Nat
      BY <1>2, <1>3, <2>2, AppAssumption, SMT DEF List
    <3>2. \A n \in Nat \ {0}, s \in Nat : ((s + n - 2) % n) + 1 \in 1 .. n /\ (s % n) + 1 \in 1 .. n
      BY SMT
    <3>3. i \in 1 .. Len(ids)
      BY <3>1, <3>2
    <3>4. SelectRecord(ids, i)
      BY <1>8, <2>2 DEF HistoryMove
    <3> QED BY <1>5, <3>3, <3>4
  <2> QED BY <2>1, <2>2
<1>9. CASE HistoryToggle \/ EndSync
  <2>1. ListShown
    BY <1>4, <1>9
  <2>2. SelectRecord(ids, selected) \/ (text' = text /\ selected' = selected /\ selectedId' = selectedId)
    BY <1>9 DEF HistoryToggle, EndSync
  <2> QED BY <1>5, <1>6, <2>1, <2>2 DEF ListShown
<1> QED BY <1>7, <1>8, <1>9

(* Saving puts the new note first and selects it, or changes nothing.      *)
LEMMA SaveShows ==
    ASSUME IInv, SaveCurrent
    PROVE  List' /\ Shown'
<1>1. List /\ page = "review" /\ pc # "history" /\ IdBound \in Nat /\ History \in Nat
  BY AppAssumption DEF IInv, TypeOK, List, TextValues, Control, SaveCurrent
<1>2. CASE /\ Len(ids) < History /\ nextId <= IdBound
           /\ ids' = <<nextId>> \o ids /\ nextId' = nextId + 1
           /\ page' = "history" /\ SelectRecord(ids', 1) /\ pc' # "history"
  <2> DEFINE new == <<nextId>>
             list == new \o ids
  <2>1. nextId \in Ids /\ nextId' \in 1 .. (IdBound + 1)
    BY <1>1, <1>2, SMT DEF List, Ids
  <2>2. new \in Seq(Ids) /\ Len(new) = 1
    BY <2>1, SMT
  <2>3. Len(ids) \in Nat /\ Len(ids) < History /\ ids \in Seq(Ids)
    BY <1>1, <1>2, LenProperties DEF List
  <2> HIDE DEF new
  <2>4. list \in Seq(Ids) /\ Len(list) = 1 + Len(ids)
    BY <2>2, <2>3, ConcatProperties
  <2>5. ids' = list /\ SelectRecord(list, 1)
    BY <1>2 DEF new
  <2> HIDE DEF list
  <2>6. Len(list) <= History /\ 1 \in 1 .. Len(list)
    BY <1>1, <2>3, <2>4, SMT
  <2>7. /\ ListShown' /\ selected' \in 0 .. History
        /\ selectedId' \in Ids \cup {0} /\ text' \in TextValues
    BY <2>4, <2>5, <2>6, SelectShows
  <2> QED BY <1>2, <2>1, <2>4, <2>5, <2>6, <2>7 DEF List, Shown
<1>3. CASE UNCHANGED <<text, selected, selectedId, ids, nextId, draft, page, pc, unreviewed>>
  BY <1>1, <1>3 DEF List, Shown
<1> QED BY <1>2, <1>3 DEF SaveCurrent

(* The portal takes notes out only while the list is not on the screen.    *)
LEMMA PortalRemoveShows ==
    ASSUME IInv, PortalRemove
    PROVE  List' /\ Shown'
<1>1. List /\ page \notin {"history", "actions"} /\ pc # "history"
  BY DEF IInv, TypeOK, List, TextValues, Control, PortalRemove
<1>2. UNCHANGED <<page, text, selectedId, nextId, pc>>
  BY DEF PortalRemove
<1>3. PICK index \in 1 .. Len(ids) : ids' = RemoveAt(ids, index) /\ selected' = SelectionAfter(index)
  BY DEF PortalRemove
<1>4. ids' \in Seq(Ids) /\ Len(ids') = Len(ids) - 1 /\ Len(ids) \in Nat /\ Len(ids) <= History
  BY <1>1, <1>3, Removed, LenProperties DEF List
<1>5. Len(ids') <= History /\ selected' \in 0 .. History
  BY <1>1, <1>3, <1>4, SelectionKept, AppAssumption, SMT
<1> QED BY <1>1, <1>2, <1>4, <1>5 DEF List, Shown

Leaving == HomeDraft \/ HomeStart \/ EndSession \/ HistoryHome

(* Everything else leaves the list and its selection alone, and reaches    *)
(* the list or its menu only from there, or from a playback begun there.   *)
LEMMA OthersShow ==
    ASSUME IInv, Next, ~MenuDone, ~(HomeHistory \/ HistoryMove \/ HistoryToggle \/ EndSync),
           ~SaveCurrent, ~PortalRemove
    PROVE  List' /\ Shown'
<1>1. List
  BY DEF IInv, TypeOK, List, TextValues
<1>2. UNCHANGED <<ids, nextId, selected, selectedId>>
  BY ZenonT(60) DEF Next, Process, Ends, Press, MenuStep, MenuIgnores, OpenSettings, StartPlayback,
     HomeDraft, HomeStart, ReviewHome, HistoryHome, OpenMenu, LeaveSettings, Ignored,
     EndPlayback, EndSession, PortalStopped
<1>3. CASE Leaving
  <2>1. text' \in {NoText, Transcript, Draft, text}
    BY <1>3, ZenonT(30) DEF Leaving, HomeDraft, HomeStart, EndSession, HistoryHome
  <2>2. page' \notin {"history", "actions"} /\ pc' # "history"
    BY <1>3, ZenonT(60) DEF IInv, Control, Leaving, HomeDraft, HomeStart, EndSession, HistoryHome
  <2> QED BY <1>1, <1>2, <2>1, <2>2 DEF List, Shown, TextValues
<1>4. CASE ~Leaving
  <2>1. text' = text
    BY <1>4, ZenonT(60) DEF Next, Process, Ends, Press, MenuStep, MenuIgnores, OpenSettings,
       StartPlayback, ReviewHome, OpenMenu, LeaveSettings, Ignored, EndPlayback, PortalStopped,
       Leaving
  <2>2. page' \in {"history", "actions"} \/ pc' = "history"
           => page \in {"history", "actions"} \/ pc = "history"
    BY <1>4, ZenonT(60) DEF Next, Process, Ends, Press, MenuStep, MenuIgnores, OpenSettings,
       StartPlayback, ReviewHome, OpenMenu, LeaveSettings, Ignored, EndPlayback, PortalStopped,
       Leaving, IInv, Control
  <2>3. page' = "actions" => menu'.record = selectedId /\ selectedId # 0
    <3>1. CASE OpenMenu
      BY <3>1, ZenonT(30) DEF OpenMenu, NoMenu
    <3>2. CASE MenuStep
      <4>1. menu' = [menu EXCEPT !.confirm = TRUE, !.selected = 0]
            \/ menu' = [menu EXCEPT !.selected = MenuMove(Key)]
        BY <3>2 DEF MenuStep
      <4>2. menu'.record = menu.record
        <5>1. menu \in Menu
          BY DEF IInv, TypeOK, Menu
        <5>2. \A q : [menu EXCEPT !.selected = q].record = menu.record
          BY <5>1, SMT DEF Menu
        <5>3. [menu EXCEPT !.confirm = TRUE, !.selected = 0].record = menu.record
          BY <5>1, SMT DEF Menu
        <5> QED BY <4>1, <5>2, <5>3
      <4> QED BY <3>2, <4>2 DEF IInv, Shown, MenuStep
    <3>3. CASE ~OpenMenu /\ ~MenuStep
      <4>1. page' = "actions" => page = "actions" /\ menu' = menu
        BY <1>4, <3>3, ZenonT(60) DEF Next, Process, Ends, Press, MenuIgnores, OpenSettings,
           StartPlayback, ReviewHome, LeaveSettings, Ignored, EndPlayback, PortalStopped,
           Leaving, IInv, Control
      <4> QED BY <4>1 DEF IInv, Shown
    <3> QED BY <3>1, <3>2, <3>3
  <2>4. ListShown => ListShown'
    BY <1>2, <2>1 DEF ListShown
  <2>5. List'
    BY <1>1, <1>2, <2>1 DEF List
  <2>6. page \in {"history", "actions"} \/ pc = "history" => ListShown
    BY DEF IInv, Shown
  <2>7. Shown'
    BY <1>2, <2>2, <2>3, <2>4, <2>6, ZenonT(30) DEF Shown
  <2> QED BY <2>5, <2>7
<1> QED BY <1>3, <1>4

-----------------------------------------------------------------------------
(* The strengthened invariant holds at the start.                          *)
LEMMA InitIInv == Init => IInv
<1> SUFFICES ASSUME Init PROVE IInv
  OBVIOUS
<1>1. Flow
  BY ZenonT(30) DEF Init, Flow, Pages, Control
<1>2. Queue
  BY EmptySeq, AppAssumption, SMT DEF Init, Queue
<1>3. menu \in Menu
  BY SMT DEF Init, NoMenu, Menu
<1>4. List
  <2>1. ids \in Seq(Ids) /\ Len(ids) <= History
    BY EmptySeq, AppAssumption, SMT DEF Init
  <2>2. nextId \in 1 .. (IdBound + 1) /\ selected \in 0 .. History
    BY AppAssumption, SMT DEF Init
  <2>3. selectedId \in Ids \cup {0} /\ text \in TextValues
    BY DEF Init, TextValues, NoText, Draft
  <2> QED BY <2>1, <2>2, <2>3 DEF List
<1>5. Shown
  BY ZenonT(30) DEF Init, Shown
<1> QED BY <1>1, <1>2, <1>3, <1>4, <1>5, ZenonT(30)
       DEF IInv, TypeOK, Flow, Queue, KeyRecord, Menu, List, TextValues

(* A step that changes nothing keeps it.                                   *)
LEMMA StutterIInv == IInv /\ UNCHANGED vars => IInv'
BY DEF IInv, TypeOK, Control, Shown, ListShown

(* Every step keeps it.                                                    *)
LEMMA StepIInv == IInv /\ [Next]_vars => IInv'
<1> SUFFICES ASSUME IInv, Next PROVE IInv'
  BY StutterIInv
<1>1. Flow /\ Queue /\ menu \in Menu /\ selectedId \in Ids \cup {0}
  BY ZenonT(30) DEF IInv, TypeOK, Flow, Queue, KeyRecord, Menu
<1>2. Flow' /\ Queue' /\ menu' \in Menu
  BY <1>1, FlowStep, QueueStep, MenuStepType
<1>3. List' /\ Shown'
  BY MenuDoneShows, SelectingShows, SaveShows, PortalRemoveShows, OthersShow
<1> QED BY <1>2, <1>3, ZenonT(30)
       DEF IInv, TypeOK, Flow, Queue, KeyRecord, Menu, List, TextValues

(* So it always holds.                                                     *)
LEMMA Invariance == Spec => []IInv
BY InitIInv, StepIInv, PTL DEF Spec

(* The pages, the list, the queue and the menu keep to their ranges for    *)
(* every length of the list and of the queue.                              *)
THEOREM TypeCorrect == Spec => []TypeOK
<1>1. IInv => TypeOK
  BY DEF IInv
<1> QED BY Invariance, <1>1, PTL

(* The list and its menu show the note that is selected, whatever the      *)
(* portal and the menu have removed meanwhile.                             *)
THEOREM SelectionIsShown == Spec => []ShownIsSelected
<1>1. IInv => ShownIsSelected
  BY DEF IInv, Shown, ListShown, ShownIsSelected
<1> QED BY Invariance, <1>1, PTL

(* Nothing but the portal, and Confirm on the question about the note on   *)
(* the screen, takes a note out of the list.                               *)
THEOREM DeletionIsAsked == Spec => DeletesWhatIsShown
<1> DEFINE Deletes ==
      \A id \in Range(ids) \ Range(ids') :
          \/ page = "settings" \/ pc = "leaving"
          \/ page = "actions" /\ menu.confirm /\ menu.selected = 1 /\ id = text
<1>1. IInv /\ [Next]_vars => Deletes
  <2> SUFFICES ASSUME IInv, [Next]_vars PROVE Deletes
    OBVIOUS
  <2>1. ids \in Seq(Ids)
    BY DEF IInv, TypeOK
  <2>2. CASE ids' = ids
    BY <2>2
  <2>3. CASE PortalRemove
    BY <2>3 DEF PortalRemove
  <2>4. CASE SaveCurrent /\ ids' # ids
    <3>1. ids' = <<nextId>> \o ids /\ nextId <= IdBound
      BY <2>4 DEF SaveCurrent
    <3>2. Range(ids) \subseteq Range(ids')
      <4>1. nextId \in Ids
        BY <3>1, AppAssumption, SMT DEF IInv, TypeOK, Ids
      <4>2. <<nextId>> \in Seq(Ids) /\ Len(<<nextId>>) = 1
        BY <4>1, SMT
      <4>3. Len(ids) \in Nat /\ DOMAIN ids = 1 .. Len(ids)
        BY <2>1, LenProperties
      <4> DEFINE new == <<nextId>>
      <4> HIDE DEF new
      <4>4. /\ new \o ids \in Seq(Ids) /\ Len(new \o ids) = 1 + Len(ids)
            /\ \A j \in 1 .. 1 + Len(ids) : (new \o ids)[j] = IF j <= 1 THEN new[j] ELSE ids[j - 1]
        BY <2>1, <4>2, <4>3, ConcatProperties DEF new
      <4>5. ids' = new \o ids
        BY <3>1 DEF new
      <4>6. DOMAIN ids' = 1 .. 1 + Len(ids)
        BY <4>4, <4>5, LenProperties
      <4>7. ASSUME NEW i \in 1 .. Len(ids)
            PROVE  ids[i] \in Range(ids')
        <5>1. i + 1 \in 1 .. 1 + Len(ids) /\ ~(i + 1 <= 1) /\ (i + 1) - 1 = i
          BY <4>3, SMT
        <5> QED BY <4>4, <4>5, <4>6, <5>1 DEF Range
      <4> QED BY <4>3, <4>7 DEF Range
    <3> QED BY <3>2
  <2>5. CASE MenuDone /\ ids' # ids
    <3> DEFINE index == CHOOSE i \in 1 .. Len(ids) : ids[i] = menu.record
    <3>1. /\ page = "actions" /\ MenuKey(Key) = "delete"
          /\ menu.record \in Range(ids) /\ ids' = RemoveAt(ids, index)
      BY <2>5 DEF MenuDone
    <3>2. \E i \in 1 .. Len(ids) : ids[i] = menu.record
      BY <2>1, <3>1, LenProperties DEF Range
    <3>3. index \in 1 .. Len(ids) /\ ids[index] = menu.record
      BY <3>2
    <3> HIDE DEF index
    <3>4. Range(ids) \ Range(ids') \subseteq {menu.record}
      BY <2>1, <3>1, <3>3, OthersStay
    <3>5. menu.confirm /\ menu.selected = 1
      BY <3>1, ZenonT(30) DEF MenuKey
    <3>6. menu.record = text
      BY <3>1 DEF IInv, Shown, ListShown
    <3> QED BY <3>1, <3>4, <3>5, <3>6
  <2>6. ids' = ids \/ PortalRemove \/ SaveCurrent \/ MenuDone
    BY ZenonT(60) DEF Next, Process, Ends, Press, MenuStep, MenuIgnores, OpenSettings, StartPlayback,
       HomeDraft, HomeStart, HomeHistory, ReviewHome, HistoryHome, HistoryMove, HistoryToggle,
       OpenMenu, LeaveSettings, Ignored, EndPlayback, EndSession, EndSync, PortalStopped
  <2> QED BY <2>2, <2>3, <2>4, <2>5, <2>6
<1> QED BY Invariance, <1>1, PTL DEF Spec, DeletesWhatIsShown

=============================================================================
