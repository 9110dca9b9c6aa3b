---------------------------- MODULE PassportLink ----------------------------
(***************************************************************************)
(* The link by which the passport copies one note to the EE04 e-paper      *)
(* board: memo_sync_record of src/main/memo_network.c on the passport, and *)
(* PassportLink.h, PassportProtocol.h and the note of NetworkDemo.h on the *)
(* board.                                                                  *)
(*                                                                         *)
(* A write takes two HTTP requests, one for a one-time challenge and one   *)
(* signed with it.  The passport gives each request 3.5 seconds; the board *)
(* serves one request in a turn of its loop, which a panel refresh or a    *)
(* weather download may hold up for longer, so the board also serves       *)
(* requests nobody waits for any more.  A request may be lost, a reply may *)
(* be lost, and either side may restart.                                   *)
(*                                                                         *)
(* A signature is modelled by what it signs and the key it was made with:  *)
(* a request carries its key, and the board compares it with its own.      *)
(***************************************************************************)
EXTENDS Integers, Sequences, SequencesExt, FiniteSetsExt

CONSTANTS
    Bodies,         \* what a note says
    SlotCount,      \* challenges the board keeps; PassportChallenges has 4
    KeyBound,       \* distinct pairing keys
    BacklogBound    \* requests waiting at the board's port

ASSUME LinkAssumption ==
    /\ Bodies # {}
    /\ SlotCount \in Nat \ {0}
    /\ KeyBound \in Nat \ {0}
    /\ BacklogBound \in Nat \ {0}

VARIABLES
    key,            \* the board's pairing key, 0 when it is not paired
    slots,          \* the ring of challenges, each [nonce, young]; nonce 0 is empty
    slot,           \* the ring's newest position
    backlog,        \* connections at the port, served in order of arrival
    note,           \* the board's note in RAM
    flashNote,      \* ... and in its preferences
    noteRequested,  \* the display has still to turn to the note
    passportKey,    \* the key entered in the passport's settings
    exchange,       \* the passport's attempt: its step, note and challenge
    waiting,        \* the passport waits for the answer to its last request
    settled         \* history: the note the passport may believe stored

boardVars    == <<key, slots, slot, backlog, note, flashNote, noteRequested>>
passportVars == <<passportKey, exchange, waiting, settled>>
linkVars     == <<boardVars, passportVars>>

(***************************************************************************)
(* A note is its id, what it says and how it is written.  The passport     *)
(* sends it "raw", to be stored as "plain" with its line ends and tabs     *)
(* rewritten if it has any, or with control characters the board refuses.  *)
(* The id is 0 for a note typed on the phone.                              *)
(***************************************************************************)
NewNotes == [id : {1}, body : Bodies, form : {"raw", "control"}]
Notes    == [id : {0, 1}, body : Bodies, form : {"plain"}]
NoNote   == [id |-> 0, body |-> "", form |-> "plain"]

Refused(n)    == n.form = "control"
Normalized(n) == [n EXCEPT !.form = "plain"]

Keys   == 0 .. KeyBound
Nonces == 0 .. (SlotCount + BacklogBound + 2)

ChallengeRequest == [op |-> "challenge"]
MemoRequest(n, nonce, k) == [op |-> "memo", note |-> n, nonce |-> nonce, key |-> k]
Idle == [step |-> "idle"]

-----------------------------------------------------------------------------
(***************************************************************************)
(* The challenges of the board.  A challenge is young for 30 seconds; the  *)
(* age is a 32-bit difference of milliseconds, so that one nobody consumed *)
(* grows young again after 49.7 days.                                      *)
(***************************************************************************)
Empty   == [nonce |-> 0, young |-> FALSE]
NoSlots == [i \in 1 .. SlotCount |-> Empty]

(* Mutant: the ring grows past its last position. *)
Advance_OffByOne(i) == i + 1

Advance(i) == (i % SlotCount) + 1

(* esp_random makes a nonce nothing else holds. *)
Used  == {slots[i].nonce : i \in 1 .. SlotCount}
            \cup {backlog[i].nonce : i \in {j \in 1 .. Len(backlog) : backlog[j].op = "memo"}}
            \cup {0}
            \cup (IF exchange.step = "memo" THEN {exchange.nonce} ELSE {})
Fresh == CHOOSE nonce \in Nonces : nonce \notin Used

(* Mutant: a ring with no free position keeps the challenges it has. *)
Issue_KeepsFull(nonce) ==
    LET free == {i \in 1 .. SlotCount : slots[i].nonce = 0}
    IN  IF free = {} THEN UNCHANGED <<slot, slots>>
        ELSE /\ slot' = Min(free)
             /\ slots' = [slots EXCEPT ![Min(free)] = [nonce |-> nonce, young |-> TRUE]]

Issue(nonce) ==
    /\ slot' = Advance(slot)
    /\ slots' = [slots EXCEPT ![Advance(slot)] = [nonce |-> nonce, young |-> TRUE]]

Matching(nonce) == {i \in 1 .. SlotCount : slots[i].nonce = nonce /\ slots[i].young}

Consume(i) == slots' = [slots EXCEPT ![i] = Empty]

-----------------------------------------------------------------------------
(***************************************************************************)
(* The board                                                               *)
(***************************************************************************)
(* The reply to the request at the head of the backlog.  The passport sees *)
(* it if it still waits for that request and the network delivers it.      *)
Reply(answer, onAnswer, delivered) ==
    IF waiting /\ Len(backlog) = 1 /\ delivered
    THEN IF answer THEN onAnswer
         ELSE exchange' = Idle /\ waiting' = FALSE /\ settled' = settled
    ELSE UNCHANGED <<exchange, waiting, settled>>

(* The passport reads the challenge and sends the signed note at once; the *)
(* note may be lost on its way.                                            *)
OnChallenge(nonce, sent) ==
    /\ exchange' = [step |-> "memo", note |-> exchange.note, nonce |-> nonce]
    /\ backlog' = Tail(backlog) \o
         (IF sent THEN <<MemoRequest(exchange.note, nonce, passportKey)>> ELSE <<>>)
    /\ waiting' = TRUE
    /\ settled' = NoNote

ServeChallenge(delivered, sent) ==
    /\ Head(backlog).op = "challenge"
    /\ Issue(Fresh)
    /\ \/ /\ waiting /\ Len(backlog) = 1 /\ delivered
          /\ OnChallenge(Fresh, sent)
       \/ /\ ~(waiting /\ Len(backlog) = 1 /\ delivered)
          /\ backlog' = Tail(backlog)
          /\ UNCHANGED <<exchange, waiting, settled>>
    /\ UNCHANGED <<note, flashNote, noteRequested>>

(* Mutant: a note with the id of the stored one is taken for identical. *)
Identical_SameId(n) == note.id = n.id

(* The save callback: an identical note is not written again.              *)
Identical(n) == note = n

Save(n) ==
    /\ IF Identical(n) THEN UNCHANGED <<note, flashNote>>
                       ELSE note' = n /\ flashNote' = n
    /\ noteRequested' = TRUE

OnReceipt ==
    /\ exchange' = Idle
    /\ waiting' = FALSE
    /\ settled' = Normalized(exchange.note)

(* Receive: the note and its signature are good and the preferences take   *)
(* it, or it is answered with an error and the challenge remains.          *)
ServeMemo(written, delivered) ==
    LET r == Head(backlog)
        matching == Matching(r.nonce)
        good == ~Refused(r.note) /\ matching # {} /\ r.key = key
        saved == good /\ (written \/ Identical(Normalized(r.note)))
    IN  /\ r.op = "memo"
        /\ IF saved
           THEN Save(Normalized(r.note)) /\ Consume(Min(matching))
           ELSE UNCHANGED <<note, flashNote, noteRequested, slots>>
        /\ Reply(saved, OnReceipt, delivered)
        /\ backlog' = Tail(backlog)
        /\ slot' = slot

(* One turn of the server: the oldest connection, if there is one.         *)
Serve ==
    /\ key # 0 /\ backlog # <<>>
    /\ \E delivered, second \in BOOLEAN :
          ServeChallenge(delivered, second) \/ ServeMemo(second, delivered)
    /\ UNCHANGED <<key, passportKey>>

(* The board is off the network, and the server is stopped: the waiting    *)
(* connections are closed.                                                 *)
Disconnected ==
    /\ backlog' = <<>>
    /\ UNCHANGED <<key, slots, slot, note, flashNote, noteRequested, passportVars>>

(* The phone enables the link: a key never used before, and no challenge.  *)
(* An attempt to store the key that fails changes nothing.                 *)
Pair ==
    /\ \E k \in 1 .. KeyBound :
          /\ k \notin {key, passportKey}
          /\ \A i \in 1 .. Len(backlog) : backlog[i].op = "memo" => backlog[i].key # k
          /\ key' = k
    /\ slots' = NoSlots
    /\ UNCHANGED <<slot, backlog, note, flashNote, noteRequested, passportVars>>

(* The phone disables the link: the server is stopped, the challenges stay.*)
Unpair ==
    /\ key # 0
    /\ key' = 0
    /\ backlog' = <<>>
    /\ UNCHANGED <<slots, slot, note, flashNote, noteRequested, passportVars>>

(* The phone's editor saves a note of its own over the passport's.  When   *)
(* the preferences refuse it, nothing changes.                             *)
PhoneEdit ==
    /\ \E b \in Bodies :
          LET n == [id |-> 0, body |-> b, form |-> "plain"]
          IN  /\ note' = n
              /\ flashNote' = n
    /\ noteRequested' = TRUE
    /\ settled' = NoNote
    /\ UNCHANGED <<key, slots, slot, backlog, passportKey, exchange, waiting>>

(* Time passes for a challenge of an attempt that is over.                 *)
Age ==
    \E i \in 1 .. SlotCount :
       /\ slots[i].nonce # 0
       /\ exchange.step = "memo" => slots[i].nonce # exchange.nonce
       /\ slots' = [slots EXCEPT ![i].young = ~@]
       /\ UNCHANGED <<key, slot, backlog, note, flashNote, noteRequested, passportVars>>

(* The board restarts: the note is read back from the preferences.         *)
BoardRestart ==
    /\ slots' = NoSlots
    /\ slot' = SlotCount
    /\ backlog' = <<>>
    /\ note' = flashNote
    /\ noteRequested' = FALSE
    /\ UNCHANGED <<key, flashNote, passportVars>>

-----------------------------------------------------------------------------
(***************************************************************************)
(* The passport                                                            *)
(***************************************************************************)
(* The user enters the key the board shows.                                *)
EnterKey ==
    /\ ~waiting
    /\ key \notin {0, passportKey}
    /\ passportKey' = key
    /\ UNCHANGED <<boardVars, exchange, waiting, settled>>

(* memo_sync_record: ask for a challenge; a refused connection is a failed *)
(* attempt that leaves no trace.                                           *)
SyncRecord ==
    /\ ~waiting
    /\ passportKey # 0
    /\ Len(backlog) < BacklogBound
    /\ \E n \in NewNotes : exchange' = [step |-> "challenge", note |-> n]
    /\ waiting' = TRUE
    /\ backlog' = Append(backlog, ChallengeRequest)
    /\ UNCHANGED <<key, slots, slot, note, flashNote, noteRequested, passportKey, settled>>

(* 3.5 seconds pass, or the passport restarts: the attempt is over.  The   *)
(* request is still in the board's backlog unless it was lost.             *)
GiveUp ==
    /\ waiting
    /\ waiting' = FALSE
    /\ exchange' = Idle
    /\ \E kept \in BOOLEAN :
          backlog' = IF kept \/ backlog = <<>> THEN backlog ELSE Front(backlog)
    /\ UNCHANGED <<key, slots, slot, note, flashNote, noteRequested, passportKey, settled>>

-----------------------------------------------------------------------------
(* The two have been paired; the model may still unpair and pair them anew.*)
LinkInit ==
    /\ key = 1
    /\ slots = NoSlots
    /\ slot = SlotCount
    /\ backlog = <<>>
    /\ note = NoNote
    /\ flashNote = NoNote
    /\ noteRequested = FALSE
    /\ passportKey = 1
    /\ exchange = Idle
    /\ waiting = FALSE
    /\ settled = NoNote

=============================================================================
