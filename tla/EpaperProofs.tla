---------------------------- MODULE EpaperProofs ----------------------------
(***************************************************************************)
(* Theorems about Epaper and the passport link it serves, for any number   *)
(* of challenges, waiting requests, keys and notes.                        *)
(***************************************************************************)
EXTENDS Epaper, SequenceTheorems, FiniteSetTheorems, TLAPS

-----------------------------------------------------------------------------
(* The panel: while the frame is valid, it is on the glass, and the glass  *)
(* carries as many partial refreshes as the board has counted.             *)
Panel ==
    /\ frameValid \in BOOLEAN
    /\ streak \in 0 .. MaxPartials /\ ghosts \in 0 .. MaxPartials
    /\ frameValid => frame = glass /\ ghosts = streak

(* A refresh keeps it, whether it succeeds, fails or is not needed.        *)
LEMMA RenderPanel ==
    ASSUME Panel, Render
    PROVE  Panel'
<1>1. MaxPartials \in Nat \ {0}
  BY PanelAssumption
<1>2. PICK large \in BOOLEAN :
         LET image == Screen(page)
             mode  == Choose(image, force, large)
         IN  \/ mode = "skip" /\ Skipped
             \/ mode = "full" /\ (FullRefresh(image) \/ FullFailed(image))
             \/ mode = "partial" /\ (PartialRefresh(image) \/ PartialFailed(image))
  BY DEF Render
<1> DEFINE image == Screen(page)
           mode  == Choose(image, force, large)
<1>3. mode = "partial" => frameValid /\ streak < MaxPartials
  <2>1. mode = "partial" => frameValid /\ ~(streak >= MaxPartials)
    BY ZenonT(30) DEF Choose
  <2> QED BY <1>1, <2>1, SMT DEF Panel
<1> HIDE DEF image, mode
<1>4. CASE Skipped
  BY <1>4 DEF Skipped, panelVars, Panel
<1>5. CASE FullRefresh(image)
  BY <1>1, <1>5, SMT DEF FullRefresh, Panel
<1>6. CASE FullFailed(image)
  BY <1>6 DEF FullFailed, Invalidate, Panel
<1>7. CASE mode = "partial" /\ PartialRefresh(image)
  <2>1. frame = glass /\ ghosts = streak /\ streak + 1 \in 0 .. MaxPartials
    BY <1>1, <1>3, <1>7, SMT DEF Panel
  <2>2. frame' = image /\ frameValid' = TRUE /\ streak' = streak + 1 /\ glass' = image
        /\ ghosts' = ghosts + 1
    BY <1>7, <2>1 DEF PartialRefresh
  <2> QED BY <2>1, <2>2 DEF Panel
<1>8. CASE mode = "partial" /\ PartialFailed(image)
  <2>1. ghosts + 1 \in 0 .. MaxPartials
    BY <1>1, <1>3, <1>8, SMT DEF Panel
  <2>2. ghosts' = ghosts + 1 /\ frameValid' = FALSE /\ streak' = streak
    BY <1>8 DEF PartialFailed, Invalidate
  <2> QED BY <2>1, <2>2 DEF Panel
<1> QED BY <1>2, <1>4, <1>5, <1>6, <1>7, <1>8 DEF image, mode

(* So does every other step: it leaves the panel alone, or gives the frame *)
(* up.                                                                     *)
LEMMA PanelStep ==
    ASSUME Panel, Next
    PROVE  Panel'
<1>1. CASE Show
  BY <1>1, RenderPanel DEF Show
<1>2. CASE Key
  <2>1. UNCHANGED <<frame, glass, streak, ghosts>> /\ frameValid' \in {frameValid, FALSE}
    BY <1>2, ZenonT(30) DEF Key, Go, RequestFullRefresh, CheckChanges, TogglePartial, Reinit
  <2>2. CASE frameValid' = frameValid
    BY <2>1, <2>2 DEF Panel
  <2>3. CASE frameValid' = FALSE
    BY <2>1, <2>3 DEF Panel
  <2> QED BY <2>1, <2>2, <2>3
<1>3. CASE Restart
  <2>1. 0 \in 0 .. MaxPartials
    BY PanelAssumption, SMT
  <2> QED BY <1>3, <2>1 DEF Restart, Panel
<1>4. CASE Diagnostics \/ NothingToShow \/ Tick \/ Phone \/ News \/ Elsewhere
  <2>1. UNCHANGED <<frame, frameValid, streak, glass, ghosts>>
    BY <1>4, ZenonT(30) DEF Diagnostics, NothingToShow, Tick, Phone, News, Elsewhere, panelVars
  <2> QED BY <2>1 DEF Panel
<1> QED BY <1>1, <1>2, <1>3, <1>4 DEF Next

-----------------------------------------------------------------------------
(* What else the loop keeps.  A request of the phone or of the passport is *)
(* looked at in the turn of the loop in which it was served.               *)
Loop ==
    /\ at \in {"input", "network", "phone", "news"} /\ page \in Pages
    /\ {pending, force, partialEnabled, partialFault, paused, hasImage, imageRequested}
         \subseteq BOOLEAN
    /\ taken \in {"none", "note", "image"}
    /\ minute \in 0 .. 1
    /\ events \in 0 .. EventBound

Handed ==
    /\ at \in {"input", "network"} => noteRequested = FALSE
    /\ at # "news" => imageRequested = FALSE

(* It keeps to its ranges.                                                 *)
LEMMA LoopStep ==
    ASSUME Loop, noteRequested \in BOOLEAN, noteRequested' \in BOOLEAN, Next
    PROVE  Loop'
<1>1. events' \in 0 .. EventBound
  <2>1. Event \/ Quiet
    BY ZenonT(60) DEF Next, Key, Diagnostics, Show, NothingToShow, Tick, Phone, News, Restart,
       Elsewhere, Render, Skipped, FullRefresh, FullFailed, PartialRefresh, PartialFailed
  <2> QED BY <2>1, PanelAssumption, SMT DEF Event, Quiet, Loop
<1>2. minute' \in 0 .. 1
  <2>1. minute' = minute \/ minute' = 1 - minute
    BY ZenonT(60) DEF Next, Key, Diagnostics, Show, NothingToShow, Tick, Phone, News,
       ApplyNetworkChanges, Restart, Elsewhere, pageVars
  <2> QED BY <2>1, SMT DEF Loop
<1>3. at' \in {"input", "network", "phone", "news"}
  BY ZenonT(60) DEF Loop, Next, Key, Diagnostics, Show, NothingToShow, Tick, Phone, News, Restart,
     Elsewhere, pageVars
<1>4. page' \in Pages
  BY ZenonT(60) DEF Loop, Next, Key, Go, RequestFullRefresh, CheckChanges, TogglePartial, Reinit,
     Diagnostics, Show, NothingToShow, Tick, Phone, News, ApplyNetworkChanges, Turned, Restart,
     Elsewhere, pageVars, Pages
<1>5. partialEnabled' \in BOOLEAN /\ partialFault' \in BOOLEAN
  BY ZenonT(60) DEF Loop, Next, Key, Go, RequestFullRefresh, CheckChanges, TogglePartial, Reinit,
     Diagnostics, Show, Render, Skipped, FullRefresh, FullFailed, PartialRefresh, PartialFailed,
     NothingToShow, Tick, Phone, News, Restart, Elsewhere, pageVars, panelVars
<1>6. pending' \in BOOLEAN
  BY ZenonT(60) DEF Loop, Next, Key, Go, RequestFullRefresh, CheckChanges, TogglePartial, Reinit,
     Diagnostics, Show, Render, Skipped, FullRefresh, FullFailed, PartialRefresh, PartialFailed,
     NothingToShow, Tick, Phone, News, ApplyNetworkChanges, Restart, Elsewhere, pageVars
<1>7. force' \in BOOLEAN
  BY ZenonT(60) DEF Loop, Next, Key, Go, RequestFullRefresh, CheckChanges, TogglePartial, Reinit,
     Diagnostics, Show, Render, Skipped, FullRefresh, FullFailed, PartialRefresh, PartialFailed,
     NothingToShow, Tick, Phone, News, Restart, Elsewhere, pageVars
<1>8. taken' \in {"none", "note", "image"}
  BY ZenonT(60) DEF Loop, Next, Key, Go, RequestFullRefresh, CheckChanges, TogglePartial, Reinit,
     Diagnostics, Show, Render, Skipped, FullRefresh, FullFailed, PartialRefresh, PartialFailed,
     NothingToShow, Tick, Phone, News, Restart, Elsewhere, pageVars
<1>9. paused' \in BOOLEAN /\ hasImage' \in BOOLEAN /\ imageRequested' \in BOOLEAN
  BY ZenonT(60) DEF Loop, Next, Key, Diagnostics, Show, NothingToShow, Tick, Phone, PhonePicture,
     News, ApplyNetworkChanges, Restart, Elsewhere, pageVars, imageVars
<1> QED BY <1>1, <1>2, <1>3, <1>4, <1>5, <1>6, <1>7, <1>8, <1>9 DEF Loop

(* No request is left when the keys are looked at again.                   *)
LEMMA HandedStep ==
    ASSUME Handed, Loop, Next
    PROVE  Handed'
<1>1. CASE Key \/ Diagnostics
  BY <1>1, ZenonT(30) DEF Key, Diagnostics, linkVars, boardVars, imageVars, Handed
<1>2. CASE Show \/ NothingToShow
  BY <1>2, ZenonT(30) DEF Show, NothingToShow, linkVars, boardVars, imageVars, Handed
<1>3. CASE Tick
  BY <1>3 DEF Tick, imageVars, Handed
<1>4. CASE Phone
  BY <1>4 DEF Phone, Handed
<1>5. CASE News
  BY <1>5 DEF News, ApplyNetworkChanges, Handed
<1>6. CASE Restart
  BY <1>6 DEF Restart, BoardRestart, Handed
<1>7. CASE Elsewhere
  BY <1>7, ZenonT(30) DEF Elsewhere, SyncRecord, Age, EnterKey, GiveUp, boardVars, imageVars,
     pageVars, Handed
<1> QED BY <1>1, <1>2, <1>3, <1>4, <1>5, <1>6, <1>7 DEF Next

-----------------------------------------------------------------------------
(***************************************************************************)
(* The link                                                                *)
(***************************************************************************)
Slots   == [nonce : Nonces, young : BOOLEAN]
Asking  == [step : {"challenge"}, note : NewNotes]
Writing == [step : {"memo"}, note : NewNotes, nonce : Nonces]

LinkType ==
    /\ key \in Keys /\ passportKey \in Keys
    /\ slots \in [1 .. SlotCount -> Slots] /\ slot \in 1 .. SlotCount
    /\ backlog \in Seq(Requests) /\ Len(backlog) <= BacklogBound
    /\ note \in Notes \cup {NoNote} /\ settled \in Notes \cup {NoNote}
    /\ noteRequested \in BOOLEAN /\ waiting \in BOOLEAN
    /\ IF waiting THEN exchange \in Asking \cup Writing ELSE exchange = Idle

NoMemo == \A i \in 1 .. Len(backlog) : backlog[i].op = "challenge"

(* A receipt the passport believes is kept, and no write that could undo   *)
(* it is on its way.                                                       *)
Kept == flashNote = note /\ (settled # NoNote => note = settled /\ NoMemo)

(* The newest request is the one the passport waits for.                   *)
Asked == waiting /\ exchange \in Asking /\ backlog # <<>> => backlog[Len(backlog)].op = "challenge"

(* The write it waits for is alone, and its challenge is in the ring while *)
(* the keys agree.                                                         *)
Live ==
    waiting /\ exchange \in Writing /\ backlog # <<>> =>
       /\ Len(backlog) = 1
       /\ backlog[1] \in [op : {"memo"}, note : {exchange.note}, nonce : {exchange.nonce}, key : Keys]
       /\ backlog[1].key = key => Matching(exchange.nonce) # {}

Link == LinkType /\ Kept /\ Asked /\ Live

(* Nonces enough for the ring, the waiting requests and the passport.      *)
LEMMA FreshIsUnused ==
    ASSUME LinkType
    PROVE  Fresh \in Nonces
<1> DEFINE inSlots == {slots[i].nonce : i \in 1 .. SlotCount}
           memos   == {j \in 1 .. Len(backlog) : backlog[j].op = "memo"}
           inMemos == {backlog[i].nonce : i \in memos}
           asked   == IF exchange.step = "memo" THEN {exchange.nonce} ELSE {}
<1>1. SlotCount \in Nat \ {0} /\ BacklogBound \in Nat \ {0}
  BY LinkAssumption
<1>2. IsFiniteSet(inSlots) /\ Cardinality(inSlots) <= SlotCount /\ Cardinality(inSlots) \in Nat
  <2> DEFINE f == [i \in 1 .. SlotCount |-> slots[i].nonce]
  <2>1. f \in Surjection(1 .. SlotCount, inSlots)
    BY DEF Surjection
  <2>2. IsFiniteSet(1 .. SlotCount) /\ Cardinality(1 .. SlotCount) = SlotCount
    BY <1>1, FS_Interval, SMT
  <2> HIDE DEF f, inSlots
  <2> QED BY <2>1, <2>2, FS_Surjection, FS_CardinalityType
<1>3. IsFiniteSet(inMemos) /\ Cardinality(inMemos) <= BacklogBound /\ Cardinality(inMemos) \in Nat
  <2>1. Len(backlog) \in Nat /\ Len(backlog) <= BacklogBound
    BY LenProperties DEF LinkType
  <2>2. IsFiniteSet(1 .. Len(backlog)) /\ Cardinality(1 .. Len(backlog)) = Len(backlog)
    BY <2>1, FS_Interval, SMTT(30)
  <2>3. IsFiniteSet(memos) /\ Cardinality(memos) <= Len(backlog) /\ Cardinality(memos) \in Nat
    <3>1. memos \in SUBSET (1 .. Len(backlog))
      OBVIOUS
    <3> HIDE DEF memos
    <3> QED BY <2>2, <3>1, FS_Subset, FS_CardinalityType
  <2> DEFINE g == [i \in memos |-> backlog[i].nonce]
  <2>4. g \in Surjection(memos, inMemos)
    <3> HIDE DEF memos
    <3> QED BY DEF Surjection
  <2> HIDE DEF g, memos, inMemos
  <2>5. IsFiniteSet(inMemos) /\ Cardinality(inMemos) <= Cardinality(memos) /\ Cardinality(inMemos) \in Nat
    BY <2>3, <2>4, FS_Surjection, FS_CardinalityType
  <2> QED BY <1>1, <2>1, <2>3, <2>5, SMT
<1>4. IsFiniteSet(asked) /\ Cardinality(asked) <= 1 /\ Cardinality(asked) \in Nat
  <2>1. asked = {} \/ asked = {exchange.nonce}
    OBVIOUS
  <2> HIDE DEF asked
  <2>2. IsFiniteSet({}) /\ Cardinality({}) = 0
    BY FS_EmptySet
  <2>3. IsFiniteSet({exchange.nonce}) /\ Cardinality({exchange.nonce}) = 1
    BY FS_Singleton
  <2> QED BY <2>1, <2>2, <2>3, SMT
<1>5. Used = ((inSlots \cup inMemos) \cup {0}) \cup asked
  BY DEF Used
<1> HIDE DEF inSlots, inMemos, asked
<1>6. IsFiniteSet(Used) /\ Cardinality(Used) <= SlotCount + BacklogBound + 2
  <2>1. /\ IsFiniteSet(inSlots \cup inMemos) /\ Cardinality(inSlots \cup inMemos) \in Nat
        /\ Cardinality(inSlots \cup inMemos) <= Cardinality(inSlots) + Cardinality(inMemos)
    <3>1. IsFiniteSet(inSlots \cap inMemos)
      BY <1>2, FS_Intersection
    <3> QED BY <1>2, <1>3, <3>1, FS_Union, FS_CardinalityType, SMT
  <2> DEFINE u == inSlots \cup inMemos
             v == u \cup {0}
  <2> HIDE DEF u
  <2>2. IsFiniteSet(v) /\ Cardinality(v) \in Nat /\ Cardinality(v) <= Cardinality(u) + 1
    <3>1. IsFiniteSet(u) /\ Cardinality(u) \in Nat
      BY <2>1 DEF u
    <3> QED BY <3>1, FS_AddElement, FS_CardinalityType, SMT
  <2> HIDE DEF v
  <2>3. IsFiniteSet(v \cup asked) /\ Cardinality(v \cup asked) <= Cardinality(v) + Cardinality(asked)
    <3>1. IsFiniteSet(v \cap asked)
      BY <1>4, FS_Intersection
    <3>2. /\ IsFiniteSet(v \cup asked)
          /\ Cardinality(v \cup asked) = Cardinality(v) + Cardinality(asked) - Cardinality(v \cap asked)
      BY <1>4, <2>2, FS_Union
    <3>3. Cardinality(v \cap asked) \in Nat
      BY <3>1, FS_CardinalityType
    <3> QED BY <1>4, <2>2, <3>2, <3>3, SMT
  <2>4. IsFiniteSet(v \cup asked) /\ Cardinality(v \cup asked) \in Nat
    BY <2>3, FS_CardinalityType
  <2>5. Used = v \cup asked
    BY <1>5 DEF u, v
  <2>6. Cardinality(u) <= Cardinality(inSlots) + Cardinality(inMemos) /\ Cardinality(u) \in Nat
    BY <2>1 DEF u
  <2> QED BY <1>1, <1>2, <1>3, <1>4, <2>2, <2>3, <2>4, <2>5, <2>6, SMT
<1>7. IsFiniteSet(Nonces) /\ Cardinality(Nonces) = SlotCount + BacklogBound + 3
  BY <1>1, FS_Interval, SMT DEF Nonces
<1>8. ~(Nonces \subseteq Used)
  <2> SUFFICES ASSUME Nonces \subseteq Used PROVE FALSE
    OBVIOUS
  <2>1. Cardinality(Nonces) <= Cardinality(Used) /\ Cardinality(Used) \in Nat
    BY <1>6, FS_Subset, FS_CardinalityType
  <2> QED BY <1>1, <1>6, <1>7, <2>1, SMT
<1> QED BY <1>8 DEF Fresh

(* The backlog without the request that has been served.                   *)
LEMMA Served ==
    ASSUME Link, backlog # <<>>
    PROVE  /\ Len(backlog) \in Nat \ {0} /\ Head(backlog) = backlog[1] /\ backlog[1] \in Requests
           /\ Tail(backlog) \in Seq(Requests) /\ Len(Tail(backlog)) = Len(backlog) - 1
           /\ \A i \in 1 .. Len(Tail(backlog)) : Tail(backlog)[i] = backlog[i + 1]
           /\ Len(backlog) = 1 => Tail(backlog) = <<>>
           /\ Tail(backlog) # <<>> => Len(backlog) - 1 \in Nat \ {0}
           /\ backlog' = Tail(backlog) /\ NoMemo => NoMemo'
           /\ (backlog' = Tail(backlog) /\ UNCHANGED <<exchange, waiting>>) => Asked' /\ Live'
<1>1. backlog \in Seq(Requests)
  BY DEF Link, LinkType
<1>2. Len(backlog) \in Nat \ {0} /\ Head(backlog) = backlog[1] /\ backlog[1] \in Requests
  <2>1. Len(backlog) \in Nat \ {0}
    BY <1>1, EmptySeq
  <2> QED BY <1>1, <2>1, ElementOfSeq, SMT
<1>3. /\ Tail(backlog) \in Seq(Requests) /\ Len(Tail(backlog)) = Len(backlog) - 1
      /\ \A i \in 1 .. Len(Tail(backlog)) : Tail(backlog)[i] = backlog[i + 1]
  BY <1>1, HeadTailProperties
<1>4. /\ Len(backlog) = 1 => Tail(backlog) = <<>>
      /\ Tail(backlog) # <<>> => Len(backlog) - 1 \in Nat \ {0}
  BY <1>2, <1>3, EmptySeq, SMT
<1>5. backlog' = Tail(backlog) /\ NoMemo => NoMemo'
  <2> SUFFICES ASSUME backlog' = Tail(backlog), NoMemo, NEW i \in 1 .. Len(backlog')
               PROVE  backlog'[i].op = "challenge"
    BY DEF NoMemo
  <2>1. i + 1 \in 1 .. Len(backlog) /\ i \in 1 .. Len(Tail(backlog))
    BY <1>2, <1>3, SMT
  <2> QED BY <1>3, <2>1 DEF NoMemo
<1>6. ASSUME backlog' = Tail(backlog), UNCHANGED <<exchange, waiting>>
      PROVE  Asked' /\ Live'
  <2>1. Asked'
    <3> SUFFICES ASSUME waiting, exchange \in Asking, Tail(backlog) # <<>>
                 PROVE  Tail(backlog)[Len(Tail(backlog))].op = "challenge"
      BY <1>6 DEF Asked, Asking
    <3>1. Len(backlog) - 1 \in 1 .. Len(Tail(backlog)) /\ (Len(backlog) - 1) + 1 = Len(backlog)
      BY <1>2, <1>3, <1>4, SMT
    <3>2. Tail(backlog)[Len(Tail(backlog))] = backlog[Len(backlog)]
      BY <1>3, <3>1
    <3> QED BY <3>2 DEF Link, Asked
  <2>2. waiting /\ exchange \in Writing => Tail(backlog) = <<>>
    BY <1>4 DEF Link, Live
  <2> QED BY <1>6, <2>1, <2>2 DEF Live, Writing
<1> QED BY <1>2, <1>3, <1>4, <1>5, <1>6

-----------------------------------------------------------------------------
(* A challenge: the passport signs the fresh one, which is in the ring.    *)
LEMMA ServeChallengeLink ==
    ASSUME Link, backlog # <<>>, NEW delivered \in BOOLEAN, NEW sent \in BOOLEAN,
           ServeChallenge(delivered, sent), UNCHANGED <<key, passportKey>>
    PROVE  Link'
<1> DEFINE nonce == Fresh
           n == Len(backlog)
           at1 == Advance(slot)
<1>1. nonce \in Nonces
  BY FreshIsUnused DEF Link
<1>2. at1 \in 1 .. SlotCount
  BY LinkAssumption, SMT DEF Link, LinkType, Advance
<1>3. slot' = at1 /\ slots' = [slots EXCEPT ![at1] = [nonce |-> nonce, young |-> TRUE]]
  BY DEF ServeChallenge, Issue
<1>4. Head(backlog).op = "challenge" /\ UNCHANGED <<note, flashNote, noteRequested, key, passportKey>>
  BY DEF ServeChallenge
<1>5. \/ waiting /\ n = 1 /\ delivered /\ OnChallenge(nonce, sent)
      \/ backlog' = Tail(backlog) /\ UNCHANGED <<exchange, waiting, settled>>
  BY DEF ServeChallenge
<1> HIDE DEF nonce, n, at1
<1>6. slots \in [1 .. SlotCount -> Slots]
  BY DEF Link, LinkType
<1>7. [nonce |-> nonce, young |-> TRUE] \in Slots
  BY <1>1, ZenonT(30) DEF Slots
<1>8. slots' \in [1 .. SlotCount -> Slots] /\ slots'[at1] = [nonce |-> nonce, young |-> TRUE]
  BY <1>2, <1>3, <1>6, <1>7
<1>9. backlog[1].op = "challenge" /\ n \in Nat \ {0} /\ n <= BacklogBound
  BY <1>4, Served DEF n, Link, LinkType
<1>10. CASE backlog' = Tail(backlog) /\ UNCHANGED <<exchange, waiting, settled>>
  <2>1. backlog' \in Seq(Requests) /\ Len(backlog') <= BacklogBound /\ Asked' /\ Live' /\ (NoMemo => NoMemo')
    <3>1. backlog' \in Seq(Requests) /\ Len(backlog') = n - 1 /\ Asked' /\ Live' /\ (NoMemo => NoMemo')
      BY <1>10, Served DEF n
    <3> QED BY <1>9, <3>1, LinkAssumption, SMT
  <2> QED BY <1>2, <1>3, <1>4, <1>8, <1>10, <2>1 DEF Link, LinkType, Kept
<1>11. CASE waiting /\ n = 1 /\ delivered /\ OnChallenge(nonce, sent)
  <2>1. exchange \in Asking
    <3>1. exchange \in Writing => backlog[1].op = "memo"
      BY <1>11 DEF Link, Live
    <3> QED BY <1>9, <1>11, <3>1 DEF Link, LinkType
  <2>2. exchange' = [step |-> "memo", note |-> exchange.note, nonce |-> nonce] /\ waiting' = TRUE /\ settled' = NoNote
    BY <1>11 DEF OnChallenge
  <2>3. exchange' \in Writing /\ exchange'.note = exchange.note /\ exchange'.nonce = nonce /\ exchange' \notin Asking
    <3>1. exchange.note \in NewNotes
      BY <2>1 DEF Asking
    <3>2. exchange' \in Writing
      BY <1>1, <2>2, <3>1, ZenonT(30) DEF Writing
    <3>3. exchange'.step = "memo" /\ exchange'.note = exchange.note /\ exchange'.nonce = nonce
      BY <2>2, ZenonT(30)
    <3> QED BY <3>2, <3>3 DEF Asking
  <2> DEFINE m == MemoRequest(exchange.note, nonce, passportKey)
  <2>4. m \in [op : {"memo"}, note : {exchange.note}, nonce : {nonce}, key : Keys] /\ m \in Requests
    <3>1. exchange.note \in NewNotes /\ passportKey \in Keys
      BY <2>1 DEF Asking, Link, LinkType
    <3> QED BY <1>1, <3>1, ZenonT(30) DEF MemoRequest, Requests
  <2>5. backlog' = <<>> \/ backlog' = <<m>>
    <3>1. Tail(backlog) = <<>>
      BY <1>11, Served DEF n
    <3>2. backlog' = <<>> \o (IF sent THEN <<m>> ELSE <<>>)
      BY <1>11, <3>1 DEF OnChallenge
    <3> HIDE DEF m
    <3> QED BY <2>4, <3>2, SMT
  <2>6. Matching(exchange.nonce)' # {}
    <3>1. at1 \in Matching(exchange.nonce)'
      BY <1>2, <1>8, <2>3 DEF Matching
    <3> QED BY <3>1
  <2> HIDE DEF m
  <2>7. backlog' \in Seq(Requests) /\ Len(backlog') <= BacklogBound
    <3>1. <<>> \in Seq(Requests) /\ Len(<<>>) = 0
      BY EmptySeq
    <3>2. <<m>> \in Seq(Requests) /\ Len(<<m>>) = 1
      BY <2>4, SMT
    <3>3. 0 <= BacklogBound /\ 1 <= BacklogBound
      BY LinkAssumption, SMT
    <3> QED BY <2>5, <3>1, <3>2, <3>3
  <2>8. backlog' # <<>> => Len(backlog') = 1 /\ backlog'[1] = m
    BY <2>4, <2>5, SMT
  <2>9. Live'
    BY <2>3, <2>4, <2>6, <2>8 DEF Live
  <2>10. Asked' /\ Kept'
    BY <1>4, <2>2, <2>3 DEF Asked, Kept, Link
  <2>11. LinkType'
    BY <1>2, <1>3, <1>4, <1>8, <2>2, <2>3, <2>7 DEF Link, LinkType
  <2> QED BY <2>9, <2>10, <2>11 DEF Link
<1> QED BY <1>5, <1>10, <1>11

(* What the board stores is a note it may hold.                            *)
LEMMA NormalizedType == \A n \in NewNotes : Normalized(n) \in Notes
<1> SUFFICES ASSUME NEW n \in NewNotes PROVE Normalized(n) \in Notes
  OBVIOUS
<1>1. n \in [id : {0, 1}, body : Bodies, form : {"raw", "control"}]
  BY ZenonT(30) DEF NewNotes
<1> QED BY <1>1, ZenonT(30) DEF Normalized, Notes

(* A write: when the passport reads its receipt, what it asked for is what *)
(* is stored.                                                              *)
LEMMA ServeMemoLink ==
    ASSUME Link, backlog # <<>>, NEW written \in BOOLEAN, NEW delivered \in BOOLEAN,
           ServeMemo(written, delivered), UNCHANGED <<key, passportKey>>
    PROVE  Link'
<1> DEFINE r == Head(backlog)
           matching == Matching(r.nonce)
           good == ~Refused(r.note) /\ matching # {} /\ r.key = key
           saved == good /\ (written \/ Identical(Normalized(r.note)))
           n == Len(backlog)
           new == Normalized(r.note)
<1>1. /\ r.op = "memo"
      /\ IF saved THEN Save(new) /\ Consume(Min(matching))
                  ELSE UNCHANGED <<note, flashNote, noteRequested, slots>>
      /\ Reply(saved, OnReceipt, delivered)
      /\ backlog' = Tail(backlog)
      /\ slot' = slot
  BY DEF ServeMemo
<1>2. n \in Nat \ {0} /\ n <= BacklogBound /\ r = backlog[1] /\ r \in Requests
  BY Served DEF Link, LinkType
<1>3. new \in Notes
  <2>1. r.note \in NewNotes
    BY <1>1, <1>2 DEF Requests, ChallengeRequest
  <2> QED BY <2>1, NormalizedType
<1> HIDE DEF r, matching, n, saved, new
<1>4. settled = NoNote
  BY <1>1, <1>2 DEF Link, Kept, NoMemo, n
<1>5. /\ backlog' \in Seq(Requests) /\ Len(backlog') <= BacklogBound
      /\ n = 1 => backlog' = <<>>
      /\ UNCHANGED <<exchange, waiting>> => Asked' /\ Live'
  <2>1. backlog' \in Seq(Requests) /\ Len(backlog') = n - 1 /\ (n = 1 => backlog' = <<>>)
    BY <1>1, Served DEF n
  <2>2. UNCHANGED <<exchange, waiting>> => Asked' /\ Live'
    BY <1>1, Served
  <2> QED BY <1>2, <2>1, <2>2, LinkAssumption, SMT
<1>6. /\ note' \in Notes \cup {NoNote} /\ flashNote' = note' /\ noteRequested' \in BOOLEAN
      /\ saved => note' = new
  <2>1. CASE saved
    BY <1>1, <1>3, <2>1 DEF Save, Identical, Link, LinkType, Kept
  <2>2. CASE ~saved
    BY <1>1, <2>2 DEF Link, LinkType, Kept
  <2> QED BY <2>1, <2>2
<1>7. slots' \in [1 .. SlotCount -> Slots]
  <2>1. Empty \in Slots
    BY LinkAssumption, SMT DEF Empty, Slots, Nonces
  <2>2. CASE saved
    <3> DEFINE i == Min(matching)
    <3>1. slots' = [slots EXCEPT ![i] = Empty]
      BY <1>1, <2>2 DEF Consume
    <3> HIDE DEF i
    <3> QED BY <2>1, <3>1 DEF Link, LinkType
  <2>3. CASE ~saved
    BY <1>1, <2>3 DEF Link, LinkType
  <2> QED BY <2>2, <2>3
<1>8. CASE UNCHANGED <<exchange, waiting, settled>>
  BY <1>1, <1>4, <1>5, <1>6, <1>7, <1>8 DEF Link, LinkType, Kept
<1>9. CASE waiting /\ n = 1 /\ saved /\ OnReceipt
  <2>1. exchange \in Writing
    <3>1. exchange \in Asking => r.op = "challenge"
      BY <1>2, <1>9 DEF Link, Asked, n
    <3> QED BY <1>1, <1>9, <3>1 DEF Link, LinkType
  <2>2. r.note = exchange.note
    BY <1>2, <1>9, <2>1 DEF Link, Live
  <2>3. exchange' = Idle /\ waiting' = FALSE /\ settled' = note'
    BY <1>6, <1>9, <2>2 DEF OnReceipt, new
  <2>4. NoMemo'
    BY <1>5, <1>9, SMT DEF NoMemo
  <2> QED BY <1>1, <1>5, <1>6, <1>7, <2>3, <2>4 DEF Link, LinkType, Kept, Asked, Live
<1>10. CASE exchange' = Idle /\ waiting' = FALSE /\ settled' = settled
  BY <1>1, <1>4, <1>5, <1>6, <1>7, <1>10 DEF Link, LinkType, Kept, Asked, Live
<1>11. \/ UNCHANGED <<exchange, waiting, settled>>
       \/ waiting /\ n = 1 /\ saved /\ OnReceipt
       \/ exchange' = Idle /\ waiting' = FALSE /\ settled' = settled
  BY <1>1 DEF Reply, n
<1> QED BY <1>8, <1>9, <1>10, <1>11

-----------------------------------------------------------------------------
(* The board's other steps.                                                *)
LEMMA BoardLink ==
    ASSUME Link, Disconnected \/ Pair \/ Unpair \/ PhoneEdit \/ Age \/ BoardRestart
    PROVE  Link'
<1>1. Empty \in Slots /\ NoSlots \in [1 .. SlotCount -> Slots] /\ SlotCount \in 1 .. SlotCount
  <2>1. Empty \in Slots /\ SlotCount \in 1 .. SlotCount
    BY LinkAssumption, SMT DEF Empty, Slots, Nonces
  <2> QED BY <2>1 DEF NoSlots
<1>2. <<>> \in Seq(Requests) /\ Len(<<>>) = 0 /\ 0 <= BacklogBound /\ 1 .. 0 = {}
  BY EmptySeq, LinkAssumption, SMT
<1>3. CASE Disconnected
  BY <1>2, <1>3 DEF Disconnected, passportVars, Link, LinkType, Kept, NoMemo, Asked, Live
<1>4. CASE Unpair
  <2>1. 0 \in Keys
    BY LinkAssumption, SMT DEF Keys
  <2> QED BY <1>2, <1>4, <2>1 DEF Unpair, passportVars, Link, LinkType, Kept, NoMemo, Asked, Live
<1>5. CASE BoardRestart
  BY <1>1, <1>2, <1>5 DEF BoardRestart, passportVars, Link, LinkType, Kept, NoMemo, Asked, Live
<1>6. CASE Pair
  <2>1. PICK k \in 1 .. KeyBound :
           /\ \A i \in 1 .. Len(backlog) : backlog[i].op = "memo" => backlog[i].key # k
           /\ key' = k
    BY <1>6 DEF Pair
  <2>2. /\ slots' = NoSlots
        /\ UNCHANGED <<slot, backlog, note, flashNote, noteRequested, passportKey, exchange,
                       waiting, settled>>
    BY <1>6 DEF Pair, passportVars
  <2>3. k \in Keys
    BY LinkAssumption, SMT DEF Keys
  <2>4. LinkType' /\ Kept' /\ Asked'
    BY <1>1, <2>1, <2>2, <2>3 DEF Link, LinkType, Kept, NoMemo, Asked
  <2>5. Live'
    <3> SUFFICES ASSUME waiting, exchange \in Writing, backlog # <<>>
                 PROVE  Live'
      BY <2>2 DEF Live
    <3>1. /\ Len(backlog) = 1
          /\ backlog[1] \in [op : {"memo"}, note : {exchange.note}, nonce : {exchange.nonce}, key : Keys]
      BY DEF Link, Live
    <3>2. backlog[1].key # k
      <4>1. 1 \in 1 .. Len(backlog)
        BY <3>1, SMT
      <4> QED BY <2>1, <3>1, <4>1
    <3> QED BY <2>1, <2>2, <3>1, <3>2 DEF Live
  <2> QED BY <2>4, <2>5 DEF Link
<1>7. CASE PhoneEdit
  <2>1. PICK b \in Bodies : note' = [id |-> 0, body |-> b, form |-> "plain"] /\ flashNote' = note'
    BY <1>7 DEF PhoneEdit
  <2>2. note' \in Notes
    BY <2>1, ZenonT(30) DEF Notes
  <2>3. /\ noteRequested' = TRUE /\ settled' = NoNote
        /\ UNCHANGED <<key, slots, slot, backlog, passportKey, exchange, waiting>>
    BY <1>7 DEF PhoneEdit
  <2>4. Live'
    <3>1. Matching(exchange.nonce)' = Matching(exchange.nonce)
      BY <2>3 DEF Matching
    <3> QED BY <2>3, <3>1 DEF Link, Live
  <2> QED BY <2>1, <2>2, <2>3, <2>4 DEF Link, LinkType, Kept, Asked
<1>8. CASE Age
  <2>1. PICK i \in 1 .. SlotCount :
           /\ exchange.step = "memo" => slots[i].nonce # exchange.nonce
           /\ slots' = [slots EXCEPT ![i].young = ~@]
    BY <1>8 DEF Age
  <2>2. UNCHANGED <<key, slot, backlog, note, flashNote, noteRequested, passportKey, exchange,
                   waiting, settled>>
    BY <1>8 DEF Age, passportVars
  <2>3. slots \in [1 .. SlotCount -> Slots]
    BY DEF Link, LinkType
  <2>4. slots'[i] \in Slots /\ \A j \in 1 .. SlotCount : j # i => slots'[j] = slots[j]
    <3>1. [slots[i] EXCEPT !.young = ~slots[i].young] \in Slots
      <4>1. slots[i] \in Slots
        BY <2>3
      <4> QED BY <4>1, ZenonT(30) DEF Slots
    <3> QED BY <2>1, <2>3, <3>1
  <2>5. slots' \in [1 .. SlotCount -> Slots]
    BY <2>1, <2>3, <2>4
  <2>6. exchange \in Writing => Matching(exchange.nonce) \subseteq Matching(exchange.nonce)'
    BY <2>1, <2>2, <2>4 DEF Matching, Writing
  <2>7. Live'
    BY <2>2, <2>6 DEF Link, Live
  <2> QED BY <2>2, <2>5, <2>7 DEF Link, LinkType, Kept, NoMemo, Asked
<1> QED BY <1>3, <1>4, <1>5, <1>6, <1>7, <1>8

(* The passport's steps.                                                   *)
LEMMA PassportLinkStep ==
    ASSUME Link, EnterKey \/ SyncRecord \/ GiveUp
    PROVE  Link'
<1>1. CASE EnterKey
  <2>1. /\ passportKey' = key /\ ~waiting
        /\ UNCHANGED <<key, slots, slot, backlog, note, flashNote, noteRequested, exchange, waiting, settled>>
    BY <1>1 DEF EnterKey, boardVars
  <2> QED BY <2>1 DEF Link, LinkType, Kept, NoMemo, Asked, Live
<1>2. CASE SyncRecord
  <2>1. PICK n \in NewNotes : exchange' = [step |-> "challenge", note |-> n]
    BY <1>2 DEF SyncRecord
  <2>2. /\ waiting' = TRUE /\ backlog' = Append(backlog, ChallengeRequest)
        /\ Len(backlog) < BacklogBound
        /\ UNCHANGED <<key, slots, slot, note, flashNote, noteRequested, passportKey, settled>>
    BY <1>2 DEF SyncRecord
  <2>3. exchange' \in Asking /\ exchange' \notin Writing
    <3>1. exchange' \in Asking
      BY <2>1, ZenonT(30) DEF Asking
    <3> QED BY <3>1 DEF Asking, Writing
  <2>4. ChallengeRequest \in Requests /\ ChallengeRequest.op = "challenge"
    BY DEF Requests, ChallengeRequest
  <2> DEFINE n0 == Len(backlog)
             c  == ChallengeRequest
  <2>5. /\ n0 \in Nat /\ backlog' \in Seq(Requests) /\ Len(backlog') = n0 + 1
        /\ \A i \in 1 .. n0 : backlog'[i] = backlog[i]
        /\ backlog'[n0 + 1] = c
    BY <2>2, <2>4, AppendProperties, LenProperties DEF Link, LinkType
  <2>6. Len(backlog') <= BacklogBound
    BY <2>2, <2>5, LinkAssumption, SMT
  <2>7. NoMemo => NoMemo'
    <3> SUFFICES ASSUME NoMemo, NEW i \in 1 .. n0 + 1
                 PROVE  backlog'[i].op = "challenge"
      BY <2>5 DEF NoMemo
    <3>1. i \in 1 .. n0 \/ i = n0 + 1
      BY <2>5, SMT
    <3> QED BY <2>4, <2>5, <3>1 DEF NoMemo
  <2>8. Asked' /\ Live'
    BY <2>3, <2>4, <2>5 DEF Asked, Live
  <2> QED BY <2>2, <2>3, <2>5, <2>6, <2>7, <2>8 DEF Link, LinkType, Kept
<1>3. CASE GiveUp
  <2>1. /\ waiting' = FALSE /\ exchange' = Idle
        /\ UNCHANGED <<key, slots, slot, note, flashNote, noteRequested, passportKey, settled>>
    BY <1>3 DEF GiveUp
  <2>2. backlog' = backlog \/ (backlog # <<>> /\ backlog' = Front(backlog))
    BY <1>3 DEF GiveUp
  <2>3. backlog' \in Seq(Requests) /\ Len(backlog') <= BacklogBound /\ (NoMemo => NoMemo')
    <3>1. CASE backlog' = backlog
      BY <3>1 DEF Link, LinkType, NoMemo
    <3>2. CASE backlog # <<>> /\ backlog' = SubSeq(backlog, 1, Len(backlog) - 1)
      <4> DEFINE n0 == Len(backlog)
      <4>1. n0 \in Nat \ {0} /\ n0 <= BacklogBound /\ backlog \in Seq(Requests)
        BY <3>2, EmptySeq DEF Link, LinkType
      <4>2. \A i \in 1 .. n0 - 1 : backlog[i] \in Requests /\ i \in 1 .. n0
        BY <4>1, ElementOfSeq, SMT
      <4>3. /\ backlog' \in Seq(Requests) /\ Len(backlog') = IF 1 <= n0 - 1 THEN (n0 - 1) - 1 + 1 ELSE 0
            /\ \A i \in 1 .. (n0 - 1) - 1 + 1 : backlog'[i] = backlog[1 + i - 1]
        <5>1. n0 - 1 \in Int /\ 1 \in Int
          BY <4>1, SMT
        <5> QED BY <3>2, <4>2, <5>1, SubSeqProperties
      <4> HIDE DEF n0
      <4>4. Len(backlog') = n0 - 1 /\ \A i \in 1 .. n0 - 1 : i \in 1 .. n0 /\ backlog'[i] = backlog[i]
        <5>1. Len(backlog') = n0 - 1
          BY <4>1, <4>3, SMT
        <5>2. \A i \in 1 .. n0 - 1 : i \in 1 .. n0 /\ i \in 1 .. (n0 - 1) - 1 + 1 /\ 1 + i - 1 = i
          BY <4>1, SMT
        <5> QED BY <4>3, <5>1, <5>2
      <4>5. NoMemo => NoMemo'
        BY <4>4 DEF NoMemo, n0
      <4> QED BY <4>1, <4>3, <4>4, <4>5, LinkAssumption, SMT
    <3> QED BY <2>2, <3>1, <3>2 DEF Front
  <2> QED BY <2>1, <2>3 DEF Link, LinkType, Kept, Asked, Live
<1> QED BY <1>1, <1>2, <1>3

(* Every step of the loop keeps the link.                                  *)
LEMMA LinkStep ==
    ASSUME Link, Next
    PROVE  Link'
<1>1. UNCHANGED linkVars => Link'
  BY DEF linkVars, boardVars, passportVars, Link, LinkType, Kept, NoMemo, Asked, Live, Matching
<1>2. CASE Serve
  <2>1. PICK delivered \in BOOLEAN, second \in BOOLEAN :
           ServeChallenge(delivered, second) \/ ServeMemo(second, delivered)
    BY <1>2 DEF Serve
  <2> QED BY <1>2, <2>1, ServeChallengeLink, ServeMemoLink DEF Serve
<1>3. CASE Key \/ Diagnostics \/ Show \/ NothingToShow
  BY <1>1, <1>3 DEF Key, Diagnostics, Show, NothingToShow
<1>4. CASE Tick \/ Phone
  <2>1. Serve \/ PhoneEdit \/ Pair \/ Unpair \/ Disconnected \/ UNCHANGED linkVars
    BY <1>4, ZenonT(30) DEF Tick, Phone, PhonePicture
  <2> QED BY <1>1, <1>2, <2>1, BoardLink
<1>5. CASE News
  <2>1. /\ noteRequested' = FALSE
        /\ UNCHANGED <<key, slots, slot, backlog, note, flashNote, passportKey, exchange, waiting, settled>>
    BY <1>5 DEF News, ApplyNetworkChanges, passportVars
  <2> QED BY <2>1 DEF Link, LinkType, Kept, NoMemo, Asked, Live, Matching
<1>6. CASE Restart
  BY <1>6, BoardLink DEF Restart
<1>7. CASE Elsewhere
  BY <1>7, BoardLink, PassportLinkStep DEF Elsewhere
<1> QED BY <1>3, <1>4, <1>5, <1>6, <1>7 DEF Next

-----------------------------------------------------------------------------
IInv == Panel /\ Loop /\ Handed /\ Link

(* The strengthened invariant holds at the start.                          *)
LEMMA InitIInv == Init => IInv
<1> SUFFICES ASSUME Init PROVE IInv
  OBVIOUS
<1>1. Panel
  <2>1. 0 \in 0 .. MaxPartials
    BY PanelAssumption, SMT
  <2> QED BY <2>1 DEF Init, Panel
<1>2. Loop
  <2>1. 0 \in 0 .. 1 /\ 0 \in 0 .. EventBound
    BY PanelAssumption, SMT
  <2> QED BY <2>1, ZenonT(30) DEF Init, Loop, Pages
<1>3. Link
  <2>1. Empty \in Slots /\ SlotCount \in 1 .. SlotCount /\ 1 \in Keys
    BY LinkAssumption, SMT DEF Empty, Slots, Nonces, Keys
  <2>2. NoSlots \in [1 .. SlotCount -> Slots]
    BY <2>1 DEF NoSlots
  <2>3. <<>> \in Seq(Requests) /\ Len(<<>>) = 0 /\ 0 <= BacklogBound
    BY EmptySeq, LinkAssumption, SMT
  <2> QED BY <2>1, <2>2, <2>3 DEF Init, LinkInit, Link, LinkType, Kept, Asked, Live
<1>4. Handed
  BY DEF Init, LinkInit, Handed
<1> QED BY <1>1, <1>2, <1>3, <1>4 DEF IInv

(* A step that changes nothing keeps it.                                   *)
LEMMA StutterIInv == IInv /\ UNCHANGED vars => IInv'
BY DEF vars, linkVars, boardVars, passportVars, panelVars, imageVars, pageVars,
       IInv, Panel, Loop, Handed, Link, LinkType, Kept, NoMemo, Asked, Live, Matching

(* Every step keeps it.                                                    *)
LEMMA StepIInv == IInv /\ [Next]_vars => IInv'
<1> SUFFICES ASSUME IInv, Next PROVE IInv'
  BY StutterIInv
<1>1. Panel' /\ Link'
  BY PanelStep, LinkStep DEF IInv
<1>2. Loop'
  BY <1>1, LoopStep DEF IInv, Link, LinkType
<1>3. Handed'
  BY HandedStep DEF IInv
<1> QED BY <1>1, <1>2, <1>3 DEF IInv

(* So it always holds.                                                     *)
LEMMA Invariance == Spec => []IInv
BY InitIInv, StepIInv, PTL DEF Spec

(* The board's and the passport's variables keep to their ranges, for any  *)
(* number of challenges, requests and keys.                                *)
THEOREM TypeCorrect == Spec => []TypeOK
<1>1. IInv => TypeOK
  BY ZenonT(30) DEF IInv, Panel, Loop, Link, LinkType, Kept, TypeOK, Slots
<1> QED BY Invariance, <1>1, PTL

(* A receipt the passport has read stays true, whatever is lost, late or   *)
(* restarted.                                                              *)
THEOREM ReceiptsAreDurable == Spec => []ReceiptIsDurable
<1>1. IInv => ReceiptIsDurable
  BY DEF IInv, Link, Kept, ReceiptIsDurable
<1> QED BY Invariance, <1>1, PTL

(* The write the passport waits for finds its challenge in a ring of any   *)
(* size.                                                                   *)
THEOREM ChallengesAreKept == Spec => []LiveChallengeKept
<1>1. IInv => LiveChallengeKept
  <2> SUFFICES ASSUME IInv, waiting, exchange.step = "memo", backlog # <<>>
               PROVE  LET r == backlog[Len(backlog)]
                      IN  r.op = "memo" /\ r.key = key => Matching(r.nonce) # {}
    BY DEF LiveChallengeKept, Last
  <2>1. exchange \in Writing
    BY DEF IInv, Link, LinkType, Asking
  <2>2. Len(backlog) = 1 /\ backlog[1].nonce = exchange.nonce
        /\ (backlog[1].key = key => Matching(exchange.nonce) # {})
    BY <2>1 DEF IInv, Link, Live
  <2> QED BY <2>2
<1> QED BY Invariance, <1>1, PTL

(* The frame the board takes for valid is on the glass.                    *)
THEOREM FrameIsOnGlass == Spec => []FrameIsGlass
<1>1. IInv => FrameIsGlass
  BY DEF IInv, Panel, FrameIsGlass
<1> QED BY Invariance, <1>1, PTL

(* The glass carries no more partial refreshes than it is rated for.       *)
THEOREM GhostingIsBounded == Spec => []GhostingBounded
<1>1. IInv => GhostingBounded
  BY PanelAssumption, SMT DEF IInv, Panel, GhostingBounded
<1> QED BY Invariance, <1>1, PTL

-----------------------------------------------------------------------------
(***************************************************************************)
(* What was handed to the display, on its way to the glass: what           *)
(* NoteIsShown promises in the end depends on no step forgetting it.       *)
(***************************************************************************)
Turning(p) == page = p /\ (pending \/ (frameValid /\ frame = Screen(p)))

TakenOnItsWay ==
    /\ taken = "note" => ~imageRequested /\ (noteRequested \/ Turning("note"))
    /\ taken = "image" => imageRequested \/ (~noteRequested /\ Turning("image"))

(* One attempt at a refresh is enough.                                     *)
RefreshShowsTaken ==
    Show /\ taken # "none" => glass' = Screen(taken) \/ taken' = "none"

(* What may come between: a later note or picture in its place, a key that *)
(* turns the page, a restart, or a full refresh that fails.                *)
GivenUpFor ==
    taken # "none" /\ taken' # taken =>
       \/ taken' = "note" /\ noteRequested'
       \/ taken' = "image" /\ imageRequested'
       \/ \E p \in Pages : Go(p)
       \/ Restart
       \/ Show /\ ~frameValid'

(* An attempt while it is the page: it is drawn in full or is there.       *)
LEMMA RenderTaken ==
    ASSUME Panel, NEW p \in {"note", "image"}, page = p, Render
    PROVE  \/ taken' = "none"
           \/ /\ frameValid' /\ frame' = Screen(p) /\ glass' = Screen(p)
              /\ taken' = taken
<1> DEFINE image == Screen(page)
<1>1. image = Screen(p)
  OBVIOUS
<1>2. PICK large \in BOOLEAN :
         \/ Choose(image, force, large) = "skip" /\ Skipped
         \/ Choose(image, force, large) = "full" /\ (FullRefresh(image) \/ FullFailed(image))
         \/ Choose(image, force, large) = "partial" /\ (PartialRefresh(image) \/ PartialFailed(image))
  BY DEF Render
<1> HIDE DEF image
<1>3. Choose(image, force, large) # "partial"
  <2>1. ~PartialPage(page)
    BY DEF PartialPage
  <2> QED BY <2>1, ZenonT(30) DEF Choose
<1>4. CASE Choose(image, force, large) = "skip" /\ Skipped
  <2>1. frameValid /\ image = frame
    BY <1>4, ZenonT(30) DEF Choose
  <2>2. frame = glass /\ UNCHANGED <<frame, frameValid, glass, taken>>
    BY <1>4, <2>1 DEF Skipped, panelVars, Panel
  <2> QED BY <1>1, <2>1, <2>2
<1>5. CASE FullRefresh(image)
  BY <1>1, <1>5 DEF FullRefresh
<1>6. CASE FullFailed(image)
  BY <1>6 DEF FullFailed
<1> QED BY <1>2, <1>3, <1>4, <1>5, <1>6

(* What a page shows stands while its variables do.                        *)
LEMMA SameScreen ==
    ASSUME NEW p \in {"note", "image"}, p = "note" => note' = note,
           p = "image" => hasImage' = hasImage
    PROVE  Screen(p)' = Screen(p)
<1>1. CASE p = "note"
  BY <1>1 DEF Screen
<1>2. CASE p = "image"
  BY <1>2 DEF Screen
<1> QED BY <1>1, <1>2

(* So a page that is being turned to stays so.                             *)
LEMMA SameTurning ==
    ASSUME NEW p \in {"note", "image"}, Turning(p), Screen(p)' = Screen(p), page' = page,
           pending' = TRUE \/ ((pending => pending' = TRUE) /\ UNCHANGED <<frame, frameValid>>)
    PROVE  Turning(p)'
BY ZenonT(30) DEF Turning

(* No step of the board, of the phone or of the passport forgets it.       *)
LEMMA TakenStep ==
    ASSUME IInv, TakenOnItsWay, Next
    PROVE  TakenOnItsWay' /\ RefreshShowsTaken
<1>0. Handed /\ taken \in {"none", "note", "image"} /\ Panel
  BY DEF IInv, Loop
<1>1. CASE Show
  <2>1. /\ UNCHANGED <<page, note, noteRequested, hasImage, imageRequested>> /\ pending /\ Render
        /\ noteRequested = FALSE /\ imageRequested = FALSE
    BY <1>0, <1>1, ZenonT(30) DEF Show, linkVars, boardVars, imageVars, Handed
  <2>2. taken' = taken \/ taken' = "none"
    BY <2>1, ZenonT(30) DEF Render, Skipped, FullRefresh, FullFailed, PartialRefresh, PartialFailed
  <2>3. ASSUME NEW p \in {"note", "image"}, taken = p
        PROVE  taken' = "none" \/ (Turning(p)' /\ glass' = Screen(p) /\ taken' = p)
    <3>1. page = p
      BY <2>1, <2>3 DEF TakenOnItsWay, Turning
    <3>2. Screen(p)' = Screen(p)
      BY <2>1, SameScreen
    <3> QED BY <1>0, <2>1, <2>3, <3>1, <3>2, RenderTaken DEF Turning
  <2> QED BY <1>0, <2>1, <2>2, <2>3 DEF TakenOnItsWay, RefreshShowsTaken
<1> SUFFICES ASSUME ~Show PROVE TakenOnItsWay'
  BY <1>1 DEF RefreshShowsTaken
<1>a. ASSUME UNCHANGED <<taken, page, note, noteRequested, hasImage, imageRequested>>,
             pending' = TRUE \/ ((pending => pending' = TRUE) /\ UNCHANGED <<frame, frameValid>>)
      PROVE  TakenOnItsWay'
  <2>1. \A p \in {"note", "image"} : Turning(p) => Turning(p)'
    BY <1>a, SameScreen, SameTurning
  <2> QED BY <1>a, <2>1, ZenonT(30) DEF TakenOnItsWay
<1>2. CASE Key
  <2>1. UNCHANGED <<note, noteRequested, hasImage, imageRequested>> /\ pending' = TRUE
    BY <1>2, ZenonT(30) DEF Key, Go, RequestFullRefresh, CheckChanges, TogglePartial, Reinit,
       linkVars, boardVars, imageVars
  <2>2. taken' = "none" \/ UNCHANGED <<page, taken>>
    BY <1>2, ZenonT(30) DEF Key, Go, RequestFullRefresh, CheckChanges, TogglePartial, Reinit
  <2>3. CASE taken' = "none"
    BY <2>3 DEF TakenOnItsWay
  <2>4. CASE UNCHANGED <<page, taken>>
    BY <1>a, <2>1, <2>4
  <2> QED BY <2>2, <2>3, <2>4
<1>3. CASE Diagnostics
  <2>1. /\ UNCHANGED <<taken, page, note, noteRequested, hasImage, imageRequested, frame, frameValid>>
        /\ pending => pending' = TRUE
    <3>1. pending' = pending \/ pending' = TRUE
      BY <1>3, ZenonT(30) DEF Diagnostics
    <3>2. pending \in BOOLEAN
      BY DEF IInv, Loop
    <3> QED BY <1>3, <3>1, <3>2, ZenonT(30) DEF Diagnostics, linkVars, boardVars, imageVars, panelVars
  <2> QED BY <1>a, <2>1
<1>4. CASE Tick
  <2>1. /\ UNCHANGED <<page, pending, frame, frameValid, hasImage>>
        /\ imageRequested = FALSE /\ imageRequested' = FALSE /\ noteRequested = FALSE
        /\ taken' = IF noteRequested' THEN "note" ELSE taken
    BY <1>0, <1>4, ZenonT(30) DEF Tick, panelVars, imageVars, Handed
  <2>2. noteRequested' = TRUE \/ UNCHANGED <<note, noteRequested>>
    BY <1>4, ZenonT(60) DEF Tick, Serve, ServeChallenge, ServeMemo, Save, Disconnected,
       linkVars, boardVars
  <2>3. CASE noteRequested' = TRUE
    BY <2>1, <2>3 DEF TakenOnItsWay
  <2>4. CASE UNCHANGED <<note, noteRequested>>
    BY <1>a, <2>1, <2>4
  <2> QED BY <2>2, <2>3, <2>4
<1>5. CASE Phone
  <2>1. /\ UNCHANGED <<page, pending, frame, frameValid>> /\ imageRequested = FALSE
        /\ taken' = CASE imageRequested'                    -> "image"
                      [] noteRequested' /\ ~imageRequested' -> "note"
                      [] OTHER                              -> taken
    BY <1>0, <1>5, ZenonT(30) DEF Phone, panelVars, Handed
  <2>2. \/ imageRequested' = TRUE
        \/ imageRequested' = FALSE /\ noteRequested' = TRUE
        \/ imageRequested' = FALSE /\ UNCHANGED <<note, noteRequested, hasImage, imageRequested>>
    BY <1>5, <2>1, ZenonT(60) DEF Phone, PhonePicture, PhoneEdit, Pair, Unpair, linkVars, boardVars,
       imageVars
  <2>3. CASE imageRequested' = TRUE
    BY <2>1, <2>3 DEF TakenOnItsWay
  <2>4. CASE imageRequested' = FALSE /\ noteRequested' = TRUE
    BY <2>1, <2>4 DEF TakenOnItsWay
  <2>5. CASE imageRequested' = FALSE /\ ~noteRequested' /\ UNCHANGED <<note, noteRequested, hasImage, imageRequested>>
    <3>1. taken' = taken
      BY <2>1, <2>5
    <3> QED BY <1>a, <2>1, <2>5, <3>1
  <2> QED BY <2>2, <2>3, <2>4, <2>5
<1>6. CASE News
  <2>1. /\ UNCHANGED <<note, hasImage, frame, frameValid, taken>>
        /\ noteRequested' = FALSE /\ imageRequested' = FALSE
    BY <1>6 DEF News, ApplyNetworkChanges, panelVars
  <2>2. /\ imageRequested => page' = "image" /\ pending' = TRUE
        /\ noteRequested /\ ~imageRequested => page' = "note" /\ pending' = TRUE
        /\ ~noteRequested /\ ~imageRequested => page' = page /\ (pending => pending' = TRUE)
    <3>1. /\ page' = Turned
          /\ pending \/ noteRequested \/ imageRequested => pending' = TRUE
      BY <1>6, ZenonT(30) DEF News, ApplyNetworkChanges
    <3> QED BY <3>1 DEF Turned
  <2>3. \A p \in {"note", "image"} : Screen(p)' = Screen(p)
    BY <2>1, SameScreen
  <2>4. ASSUME taken = "note" PROVE Turning("note")'
    <3>1. CASE noteRequested
      BY <2>2, <2>4, <3>1 DEF TakenOnItsWay, Turning
    <3>2. CASE ~noteRequested
      BY <2>1, <2>2, <2>3, <2>4, <3>2, SameTurning DEF TakenOnItsWay
    <3> QED BY <3>1, <3>2
  <2>5. ASSUME taken = "image" PROVE Turning("image")'
    <3>1. CASE imageRequested
      BY <2>2, <3>1 DEF Turning
    <3>2. CASE ~imageRequested
      BY <2>1, <2>2, <2>3, <2>5, <3>2, SameTurning DEF TakenOnItsWay
    <3> QED BY <3>1, <3>2
  <2> QED BY <2>1, <2>4, <2>5 DEF TakenOnItsWay
<1>7. CASE Restart
  BY <1>7 DEF Restart, TakenOnItsWay
<1>8. CASE NothingToShow
  <2>1. /\ UNCHANGED <<taken, page, pending, note, noteRequested, hasImage, imageRequested, frame, frameValid>>
    BY <1>8, ZenonT(30) DEF NothingToShow, panelVars, linkVars, boardVars, imageVars
  <2> QED BY <1>a, <2>1
<1>9. CASE Elsewhere
  <2>1. UNCHANGED <<page, pending, frame, frameValid, taken, hasImage, imageRequested>>
    BY <1>9 DEF Elsewhere, panelVars, pageVars, imageVars
  <2>2. UNCHANGED <<note, noteRequested>>
    BY <1>9 DEF Elsewhere, SyncRecord, Age, EnterKey, GiveUp, boardVars
  <2> QED BY <1>a, <2>1, <2>2
<1> QED BY <1>2, <1>3, <1>4, <1>5, <1>6, <1>7, <1>8, <1>9 DEF Next

(* Nothing else gives it up.                                               *)
LEMMA GivenUpStep ==
    ASSUME IInv, Next
    PROVE  GivenUpFor
<1>1. CASE Key
  <2>1. (\E p \in Pages : Go(p)) \/ taken' = taken
    BY <1>1, ZenonT(30) DEF Key, RequestFullRefresh, CheckChanges, TogglePartial, Reinit
  <2> QED BY <2>1 DEF GivenUpFor
<1>2. CASE Show
  <2>1. taken' = taken \/ frameValid' = FALSE
    BY <1>2, ZenonT(30) DEF Show, Render, Skipped, FullRefresh, FullFailed, PartialRefresh,
       PartialFailed, Invalidate
  <2> QED BY <1>2, <2>1 DEF GivenUpFor
<1>3. CASE Tick
  <2>1. taken' = IF noteRequested' THEN "note" ELSE taken
    BY <1>3 DEF Tick
  <2> QED BY <2>1 DEF GivenUpFor
<1>4. CASE Phone
  <2>1. taken' = CASE imageRequested'                    -> "image"
                   [] noteRequested' /\ ~imageRequested' -> "note"
                   [] OTHER                              -> taken
    BY <1>4 DEF Phone
  <2> QED BY <2>1 DEF GivenUpFor
<1>5. CASE Restart
  BY <1>5 DEF GivenUpFor
<1>6. CASE Diagnostics \/ NothingToShow \/ News \/ Elsewhere
  <2>1. taken' = taken
    BY <1>6, ZenonT(30) DEF Diagnostics, NothingToShow, News, Elsewhere, pageVars
  <2> QED BY <2>1 DEF GivenUpFor
<1> QED BY <1>1, <1>2, <1>3, <1>4, <1>5, <1>6 DEF Next

(* The note or the picture that the display was handed last is not         *)
(* forgotten before it is shown (applyNetworkChanges, 413-437, and         *)
(* render): its page is to be turned, or is turned and to be drawn, or is  *)
(* drawn, however keys, commands, failures and a pause come between, and   *)
(* the first refresh that the panel does not refuse draws it.  Only a      *)
(* later note or picture, which is then in its place, a key that turns the *)
(* page or the sheet, a restart or a failed full refresh gives it up.      *)
THEOREM TakenNoteIsNotForgotten ==
    Spec => []TakenOnItsWay /\ [][RefreshShowsTaken /\ GivenUpFor]_vars
<1>1. Init => TakenOnItsWay
  BY DEF Init, TakenOnItsWay
<1>2. IInv /\ TakenOnItsWay /\ [Next]_vars =>
         TakenOnItsWay' /\ [RefreshShowsTaken /\ GivenUpFor]_vars
  <2>1. ASSUME UNCHANGED vars, TakenOnItsWay PROVE TakenOnItsWay'
    BY <2>1 DEF vars, linkVars, boardVars, panelVars, imageVars, pageVars, TakenOnItsWay, Turning, Screen
  <2> QED BY <2>1, TakenStep, GivenUpStep
<1> QED BY <1>1, <1>2, Invariance, PTL DEF Spec

=============================================================================
