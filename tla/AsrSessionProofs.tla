--------------------------- MODULE AsrSessionProofs ----------------------------
(***************************************************************************)
(* Theorems about AsrSession, for any queue, any batch size and any length *)
(* of a recording.                                                         *)
(***************************************************************************)
EXTENDS AsrSession, SequenceTheorems, TLAPS

-----------------------------------------------------------------------------
(* The inductive invariant: what each task's place says about the others.  *)

Uploading == {"upload", "receive", "send", "receive_timeout", "verdict", "finishing",
              "await_final"}
Closing == {"cleanup", "join", "close", "free"}
Preparing == {None, "init", "await_go", "headers", "warm_up", "announce"}
Working == {"headers", "warm_up", "announce", "loop", "frame", "enqueue"}

(* The capture task lives from its creation to its join, and CAPTURE_DONE  *)
(* is its last word.                                                       *)
CaptureLife ==
  /\ worker = "create" => capture = None
  /\ capture = "dead" <=> "CAPTURE_DONE" \in bits
  /\ capture \notin {None, "dead"} =>
       worker \in {"await_encoder", "open", "connect", "request", "cleanup", "join"}
                  \cup Uploading

(* The client runs from its start to its stop, and only while it runs is   *)
(* there a result in its task's hand, or its task inside fail().           *)
SocketLife ==
  /\ socket = "running" =>
       worker \in {"connect", "request", "cleanup", "join", "close"} \cup Uploading
  /\ packet # <<>> \/ failing = "socket" => socket = "running"

(* Who can be inside fail(), and what a claim and a report leave.          *)
FailLife ==
  /\ failing = "worker" => worker \in {"cleanup", "verdict", "await_final"}
  /\ failing = "capture" => capture = "done"
  /\ failing # None => claimed
  /\ claimed /\ failing = None => failure
  /\ "FAILED" \in bits => claimed

(* Speech needs the go-ahead, the go-ahead needs the request.              *)
GoAhead ==
  notified = 1 \/ capture \in Working \/ frames > 0 \/ queue # <<>> \/ hand # <<>> =>
    accepted

(* A batch is in the worker's hand only on its way to the socket; nothing  *)
(* is counted before the microphone is read; batches end where the frames  *)
(* encoded so far end, at the latest.                                      *)
AudioShape ==
  /\ hand # <<>> <=> worker = "send"
  /\ capture \in Preparing => frames = 0
  /\ capture = "frame" /\ ~padding => frames < MaxFrames
  /\ \A i \in 1 .. Len(queue) : queue[i].to <= frames
  /\ hand # <<>> => hand[1].to <= frames

(* Why a session that is being closed, or is over, did not succeed.        *)
Cause == claimed \/ failure \/ pressed \/ limited
ClosedWithCause ==
  /\ cancel /\ worker \notin {"idle", "starting"} => pressed
  /\ worker \in Closing /\ ~successful => Cause
  /\ worker = "idle" /\ phase \in {"REVIEW", "ERROR"} /\ ~successful => Cause

IInv == TypeOK /\ CaptureLife /\ SocketLife /\ FailLife /\ GoAhead /\ AudioShape
        /\ PageSettles /\ StopHasCause /\ ClosedWithCause /\ AudioAccounted

-----------------------------------------------------------------------------
(* The type invariant in five parts, which different actions disturb.      *)

Places == {"idle", "starting", "create", "await_encoder", "open", "connect",
           "request", "upload", "receive", "send", "receive_timeout", "verdict",
           "finishing", "await_final", "cleanup", "join", "close", "free"}
Signals == {"CONNECTED", "FINAL", "FAILED", "CAPTURE_DONE", "ENCODER_READY"}

ControlType ==
  /\ worker \in Places
  /\ capture \in {None, "init", "await_go", "headers", "warm_up", "announce", "loop",
                  "frame", "enqueue", "done", "dead"}
  /\ socket \in {None, "running", "stopped"}
  /\ failing \in {None, "worker", "capture", "socket"}
  /\ notified \in {0, 1, 2}

PageType ==
  /\ bits \subseteq Signals
  /\ phase \in Active \cup {"HOME", "REVIEW", "ERROR"}
  /\ current \in Active

PacketType ==
  /\ packet \in Seq([showing : Active \cup {None}, final : BOOLEAN])
  /\ Len(packet) <= 1

FlagType ==
  /\ stop \in BOOLEAN /\ cancel \in BOOLEAN
  /\ claimed \in BOOLEAN /\ failure \in BOOLEAN
  /\ transcript \in BOOLEAN /\ limited \in BOOLEAN
  /\ padding \in BOOLEAN /\ accepted \in BOOLEAN /\ successful \in BOOLEAN
  /\ ended \in BOOLEAN /\ pressed \in BOOLEAN

AudioType ==
  /\ queue \in Seq(Batch) /\ Len(queue) <= QueueSize
  /\ hand \in Seq(Batch) /\ Len(hand) <= 1
  /\ frames \in 0 .. MaxFrames
  /\ from \in 0 .. frames
  /\ sent \in 0 .. frames

(* The parts make the whole.                                               *)
LEMMA TypeParts ==
  TypeOK <=> ControlType /\ PageType /\ PacketType /\ FlagType /\ AudioType
  BY DEF TypeOK, ControlType, PageType, PacketType, FlagType, AudioType,
         Places, Signals

(* The flags, one by one, as the provers want them.                        *)
LEMMA Flags ==
  ASSUME TypeOK
  PROVE  /\ stop \in BOOLEAN /\ cancel \in BOOLEAN
         /\ claimed \in BOOLEAN /\ failure \in BOOLEAN
         /\ transcript \in BOOLEAN /\ limited \in BOOLEAN
         /\ padding \in BOOLEAN /\ accepted \in BOOLEAN /\ successful \in BOOLEAN
         /\ ended \in BOOLEAN /\ pressed \in BOOLEAN
  BY TypeParts DEF FlagType

-----------------------------------------------------------------------------
(* The variables the actions name together, and the actions themselves:    *)
(* they are expanded where a case cites the task they belong to.           *)
USE DEF flags, fault, shown, result, upload, audio, request, ghosts, None
USE DEF StartSession, ClearFlags, Reset, CreateCapture, AwaitEncoder, OpenSocket,
        AwaitConnection, SendRequest, UploadCheck, Receive, SendBatch,
        ReceiveTimeout, Verdict, SendEnd, AwaitFinal, Cleanup, JoinCapture,
        CloseSocket, Finish, At, Goto
USE DEF OpenEncoder, AwaitGo, QueueHeaders, WarmUp, Announce, BeginFrame,
        EncodeFrame, QueueBatch, EndCapture, In, GiveUp, Enqueue
USE DEF Connected, ConnectionFails, ReceiveResult, PublishResult, Listening
USE DEF Fail, FailReported, PressStop

(* Where the tasks are, and the notification between them.                 *)
LEMMA ControlStep ==
  ASSUME ControlType, Next
  PROVE  ControlType'
<1>1. CASE Worker
  BY <1>1, ZenonT(60) DEF ControlType, Places, Worker
<1>2. CASE Capture
  BY <1>2, ZenonT(60) DEF ControlType, Places, Capture
<1>3. CASE Socket
  BY <1>3, ZenonT(60) DEF ControlType, Places, Socket
<1>4. CASE FailReported
  BY <1>4, ZenonT(60) DEF ControlType, Places
<1>5. CASE PressStop
  BY <1>5, ZenonT(60) DEF ControlType, Places
<1> QED
  BY <1>1, <1>2, <1>3, <1>4, <1>5 DEF Next

(* The events and the page take their values from a few.                   *)
LEMMA PageTypeStep ==
  ASSUME PageType, PacketType, Next
  PROVE  PageType'
<1>1. \/ bits' \in {bits, {}}
      \/ \E signal \in Signals : bits' = bits \cup {signal}
  BY ZenonT(60) DEF Next, Worker, Capture, Socket, Signals
<1>2. bits' \subseteq Signals
  BY <1>1 DEF PageType
<1>3. \/ phase' \in {phase, "CONNECTING", "RECORDING", "FINISHING", "REVIEW", "ERROR"}
      \/ packet # <<>> /\ phase' = packet[1].showing /\ packet[1].showing # None
  BY ZenonT(60) DEF Next, Worker, Capture, Socket
<1>4. packet # <<>> => packet[1].showing \in Active \cup {None}
  <2>1. CASE packet # <<>>
    <3> DEFINE Packet == [showing : Active \cup {None}, final : BOOLEAN]
    <3>1. packet \in Seq(Packet)
      BY DEF PacketType
    <3> HIDE DEF Packet
    <3>2. Len(packet) \in Nat \ {0}
      BY <2>1, <3>1, EmptySeq
    <3>3. packet[1] \in Packet
      BY <3>1, <3>2, ElementOfSeq
    <3> QED
      BY <3>3 DEF Packet
  <2> QED
    BY <2>1
<1>5. phase' \in Active \cup {"HOME", "REVIEW", "ERROR"}
  BY <1>3, <1>4 DEF PageType, Active
<1>6. current' \in {current, "CONNECTING", "RECORDING", "FINISHING"}
  BY ZenonT(60) DEF Next, Worker, Capture, Socket
<1>7. current' \in Active
  BY <1>6 DEF PageType, Active
<1> QED
  BY <1>2, <1>5, <1>7 DEF PageType

(* The result in the hand of the client's task.                            *)
LEMMA PacketStep ==
  ASSUME PageType, PacketType, Next
  PROVE  PacketType'
<1>1. \/ packet' \in {packet, <<>>}
      \/ \E final \in BOOLEAN, showing \in {current, None} :
           packet' = <<[showing |-> showing, final |-> final]>>
  BY ZenonT(60) DEF Next, Worker, Capture, Socket
<1>2. CASE packet' = packet
  BY <1>2 DEF PacketType
<1>3. CASE packet' = <<>>
  BY <1>3 DEF PacketType
<1>4. CASE \E final \in BOOLEAN, showing \in {current, None} :
             packet' = <<[showing |-> showing, final |-> final]>>
  BY <1>4 DEF PacketType, PageType, Active
<1> QED
  BY <1>1, <1>2, <1>3, <1>4

(* Every flag stays a flag.                                                *)
LEMMA FlagStep ==
  ASSUME FlagType, Next
  PROVE  FlagType'
<1>1. stop' \in BOOLEAN
  BY ZenonT(60) DEF FlagType, Next, Worker, Capture, Socket
<1>2. cancel' \in BOOLEAN
  BY ZenonT(60) DEF FlagType, Next, Worker, Capture, Socket
<1>3. claimed' \in BOOLEAN
  BY ZenonT(60) DEF FlagType, Next, Worker, Capture, Socket
<1>4. failure' \in BOOLEAN
  BY ZenonT(60) DEF FlagType, Next, Worker, Capture, Socket
<1>5. transcript' \in BOOLEAN
  BY ZenonT(60) DEF FlagType, Next, Worker, Capture, Socket
<1>6. limited' \in BOOLEAN
  BY ZenonT(60) DEF FlagType, Next, Worker, Capture, Socket
<1>7. padding' \in BOOLEAN
  BY ZenonT(60) DEF FlagType, Next, Worker, Capture, Socket
<1>8. accepted' \in BOOLEAN
  BY ZenonT(60) DEF FlagType, Next, Worker, Capture, Socket
<1>9. successful' \in BOOLEAN
  BY ZenonT(60) DEF FlagType, Next, Worker, Capture, Socket
<1>10. ended' \in BOOLEAN
  BY ZenonT(60) DEF FlagType, Next, Worker, Capture, Socket
<1>11. pressed' \in BOOLEAN
  BY ZenonT(60) DEF FlagType, Next, Worker, Capture, Socket
<1> QED
  BY <1>1, <1>2, <1>3, <1>4, <1>5, <1>6, <1>7, <1>8, <1>9, <1>10, <1>11 DEF FlagType

(* The life of the capture task.                                           *)
LEMMA CaptureStep ==
  ASSUME CaptureLife, SocketLife, FailLife, Next
  PROVE  CaptureLife'
<1>1. CASE Worker
  BY <1>1, ZenonT(60) DEF CaptureLife, SocketLife, FailLife, Uploading, Worker
<1>2. CASE Capture
  BY <1>2, ZenonT(60) DEF CaptureLife, SocketLife, FailLife, Uploading, Capture
<1>3. CASE Socket
  BY <1>3, ZenonT(60) DEF CaptureLife, SocketLife, FailLife, Uploading, Socket
<1>4. CASE FailReported
  BY <1>4, ZenonT(60) DEF CaptureLife, SocketLife, FailLife, Uploading
<1>5. CASE PressStop
  BY <1>5, ZenonT(60) DEF CaptureLife, SocketLife, FailLife, Uploading
<1> QED
  BY <1>1, <1>2, <1>3, <1>4, <1>5 DEF Next

(* The life of the client and of the results in its hand.                  *)
LEMMA SocketStep ==
  ASSUME IInv, Next
  PROVE  SocketLife'
<1> USE Flags DEF IInv, CaptureLife, SocketLife, FailLife, Uploading
<1>1. CASE StartSession \/ Reset \/ CreateCapture
  BY <1>1, SMTT(60)
<1>2. CASE AwaitEncoder \/ OpenSocket \/ AwaitConnection \/ SendRequest
  BY <1>2, SMTT(60)
<1>3. CASE UploadCheck \/ Receive \/ SendBatch \/ ReceiveTimeout
  BY <1>3, SMTT(60)
<1>4. CASE Verdict \/ SendEnd \/ AwaitFinal
  BY <1>4, SMTT(60)
<1>5. CASE Cleanup \/ JoinCapture \/ CloseSocket \/ Finish
  BY <1>5, SMTT(60)
<1>6. CASE OpenEncoder \/ AwaitGo \/ QueueHeaders \/ WarmUp \/ Announce
  BY <1>6, SMTT(60)
<1>7. CASE BeginFrame \/ EncodeFrame
  BY <1>7, SMTT(60)
<1>8. CASE QueueBatch \/ EndCapture
  BY <1>8, SMTT(60)
<1>9. CASE Connected \/ ConnectionFails
  BY <1>9, SMTT(60)
<1>10. CASE ReceiveResult
  BY <1>10, SMTT(60)
<1>11. CASE PublishResult
  BY <1>11, SMTT(60)
<1>12. CASE FailReported
  BY <1>12, SMTT(60)
<1>13. CASE PressStop
  BY <1>13, SMTT(60)
<1> QED
  BY <1>1, <1>2, <1>3, <1>4, <1>5, <1>6, <1>7, <1>8, <1>9, <1>10, <1>11, <1>12, <1>13
     DEF Next, Worker, Capture, Socket

(* Claims and reports of failures.                                         *)
LEMMA FailStep ==
  ASSUME IInv, Next
  PROVE  FailLife'
<1> USE Flags DEF IInv, CaptureLife, SocketLife, FailLife, Uploading
<1>1. CASE StartSession \/ Reset \/ CreateCapture
  BY <1>1, SMTT(60)
<1>2. CASE AwaitEncoder \/ OpenSocket \/ AwaitConnection \/ SendRequest
  BY <1>2, SMTT(60)
<1>3. CASE UploadCheck \/ Receive \/ SendBatch \/ ReceiveTimeout
  BY <1>3, SMTT(60)
<1>4. CASE Verdict \/ SendEnd \/ AwaitFinal
  BY <1>4, SMTT(60)
<1>5. CASE Cleanup \/ JoinCapture \/ CloseSocket \/ Finish
  BY <1>5, SMTT(60)
<1>6. CASE OpenEncoder \/ AwaitGo \/ QueueHeaders \/ WarmUp \/ Announce
  BY <1>6, SMTT(60)
<1>7. CASE BeginFrame \/ EncodeFrame
  BY <1>7, SMTT(60)
<1>8. CASE QueueBatch \/ EndCapture
  BY <1>8, SMTT(60)
<1>9. CASE Connected \/ ConnectionFails
  BY <1>9, SMTT(60)
<1>10. CASE ReceiveResult
  BY <1>10, SMTT(60)
<1>11. CASE PublishResult
  BY <1>11, SMTT(60)
<1>12. CASE FailReported
  BY <1>12, SMTT(60)
<1>13. CASE PressStop
  BY <1>13, SMTT(60)
<1> QED
  BY <1>1, <1>2, <1>3, <1>4, <1>5, <1>6, <1>7, <1>8, <1>9, <1>10, <1>11, <1>12, <1>13
     DEF Next, Worker, Capture, Socket

(* The go-ahead.                                                           *)
LEMMA GoAheadStep ==
  ASSUME IInv, Next
  PROVE  GoAhead'
<1> USE Flags DEF IInv, CaptureLife, GoAhead, Working, AudioShape
<1>1. CASE StartSession \/ Reset \/ CreateCapture
  BY <1>1, SMTT(60)
<1>2. CASE AwaitEncoder \/ OpenSocket \/ AwaitConnection \/ SendRequest
  BY <1>2, SMTT(60)
<1>3. CASE UploadCheck \/ Receive \/ SendBatch \/ ReceiveTimeout
  BY <1>3, SMTT(60)
<1>4. CASE Verdict \/ SendEnd \/ AwaitFinal
  BY <1>4, SMTT(60)
<1>5. CASE Cleanup \/ JoinCapture \/ CloseSocket \/ Finish
  BY <1>5, SMTT(60)
<1>6. CASE OpenEncoder \/ AwaitGo \/ QueueHeaders \/ WarmUp \/ Announce
  BY <1>6, SMTT(60)
<1>7. CASE BeginFrame \/ EncodeFrame
  BY <1>7, SMTT(60)
<1>8. CASE QueueBatch \/ EndCapture
  BY <1>8, SMTT(60)
<1>9. CASE Connected \/ ConnectionFails
  BY <1>9, SMTT(60)
<1>10. CASE ReceiveResult
  BY <1>10, SMTT(60)
<1>11. CASE PublishResult
  BY <1>11, SMTT(60)
<1>12. CASE FailReported
  BY <1>12, SMTT(60)
<1>13. CASE PressStop
  BY <1>13, SMTT(60)
<1> QED
  BY <1>1, <1>2, <1>3, <1>4, <1>5, <1>6, <1>7, <1>8, <1>9, <1>10, <1>11, <1>12, <1>13
     DEF Next, Worker, Capture, Socket

(* The page after a session.                                               *)
LEMMA PageStep ==
  ASSUME CaptureLife, SocketLife, FailLife, PageSettles, Next
  PROVE  PageSettles'
<1>1. CASE Worker
  BY <1>1, ZenonT(60)
     DEF CaptureLife, SocketLife, FailLife, Uploading, PageSettles, Active, Worker
<1>2. CASE Capture
  BY <1>2, ZenonT(60)
     DEF CaptureLife, SocketLife, FailLife, Uploading, PageSettles, Active, Capture
<1>3. CASE Socket
  BY <1>3, ZenonT(60)
     DEF CaptureLife, SocketLife, FailLife, Uploading, PageSettles, Active, Socket
<1>4. CASE FailReported
  BY <1>4, ZenonT(60)
     DEF CaptureLife, SocketLife, FailLife, Uploading, PageSettles, Active
<1>5. CASE PressStop
  BY <1>5, ZenonT(60)
     DEF CaptureLife, SocketLife, FailLife, Uploading, PageSettles, Active
<1> QED
  BY <1>1, <1>2, <1>3, <1>4, <1>5 DEF Next

(* The stop flag is set by those who give it its cause.                    *)
LEMMA StopStep ==
  ASSUME StopHasCause, FailLife, Next
  PROVE  StopHasCause'
<1>1. CASE Worker
  BY <1>1, ZenonT(60) DEF StopHasCause, FailLife, Worker
<1>2. CASE Capture
  BY <1>2, ZenonT(60) DEF StopHasCause, FailLife, Capture
<1>3. CASE Socket
  BY <1>3, ZenonT(60) DEF StopHasCause, FailLife, Socket
<1>4. CASE FailReported
  BY <1>4, ZenonT(60) DEF StopHasCause, FailLife
<1>5. CASE PressStop
  BY <1>5, ZenonT(60) DEF StopHasCause, FailLife
<1> QED
  BY <1>1, <1>2, <1>3, <1>4, <1>5 DEF Next

(* The reasons for an end.                                                 *)
LEMMA CauseStep ==
  ASSUME IInv, Next
  PROVE  ClosedWithCause'
<1> USE Flags DEF IInv, CaptureLife, SocketLife, FailLife, Uploading, StopHasCause,
        PageSettles, ClosedWithCause, Cause, Closing, Active
<1>1. CASE StartSession \/ Reset \/ CreateCapture
  BY <1>1, SMTT(60)
<1>2. CASE AwaitEncoder \/ OpenSocket \/ AwaitConnection \/ SendRequest
  BY <1>2, SMTT(60)
<1>3. CASE UploadCheck \/ Receive \/ SendBatch \/ ReceiveTimeout
  BY <1>3, SMTT(60)
<1>4. CASE Verdict \/ SendEnd
  BY <1>4, SMTT(60)
<1>5. CASE Cleanup \/ JoinCapture \/ CloseSocket \/ Finish
  BY <1>5, SMTT(60)
<1>6. CASE OpenEncoder \/ AwaitGo \/ QueueHeaders \/ WarmUp \/ Announce
  BY <1>6, SMTT(60)
<1>7. CASE BeginFrame \/ EncodeFrame
  BY <1>7, SMTT(60)
<1>8. CASE QueueBatch \/ EndCapture
  BY <1>8, SMTT(60)
<1>9. CASE Connected \/ ConnectionFails
  BY <1>9, SMTT(60)
<1>10. CASE ReceiveResult
  BY <1>10, SMTT(60)
<1>11. CASE PublishResult
  BY <1>11, SMTT(60)
<1>12. CASE FailReported
  BY <1>12, SMTT(60)
<1>13. CASE PressStop
  BY <1>13, SMTT(60)
<1>14. CASE AwaitFinal
  <2>1. worker' = "cleanup" /\ UNCHANGED <<cancel, pressed, limited>>
    BY <1>14
  <2>2. cancel' => pressed'
    BY <1>14, <2>1 DEF ClosedWithCause
  <2>3. claimed' = TRUE \/ claimed' = claimed
    BY <1>14
  <2>4. CASE "FAILED" \in bits
    <3>1. claimed = TRUE
      BY <2>4 DEF FailLife
    <3> QED
      BY <2>1, <2>2, <2>3, <3>1 DEF ClosedWithCause, Cause
  <2>5. CASE "FAILED" \notin bits
    <3>1. successful' = TRUE \/ claimed' = TRUE
      BY <1>14, <2>5
    <3> QED
      BY <2>1, <2>2, <3>1 DEF ClosedWithCause, Cause
  <2> QED
    BY <2>4, <2>5
<1> QED
  BY <1>1, <1>2, <1>3, <1>4, <1>5, <1>6, <1>7, <1>8, <1>9, <1>10, <1>11, <1>12,
     <1>13, <1>14
     DEF Next, Worker, Capture, Socket

-----------------------------------------------------------------------------
(* Six actions move audio.  The others leave the audio and its chunk       *)
(* alone, and a claimed failure stays claimed.                             *)
Quiet ==
  /\ UNCHANGED <<queue, hand, frames, from, sent>>
  /\ worker' = "send" <=> worker = "send"
  /\ claimed' = TRUE \/ claimed' = claimed
  /\ capture' \in Preparing => capture \in Preparing \/ worker = "create"
  /\ capture' = "frame" => \/ UNCHANGED <<capture, padding>>
                           \/ padding' = (stop \/ frames >= MaxFrames)

(* Every action is one of the six, or is quiet.                            *)
LEMMA AudioFrame ==
  ASSUME Next
  PROVE  Quiet \/ Reset \/ Receive \/ SendBatch \/ QueueHeaders \/ EncodeFrame
         \/ QueueBatch
<1>1. CASE StartSession \/ CreateCapture \/ AwaitEncoder \/ OpenSocket
  BY <1>1, ZenonT(60) DEF Quiet, Preparing
<1>2. CASE AwaitConnection \/ SendRequest \/ UploadCheck \/ ReceiveTimeout
  BY <1>2, ZenonT(60) DEF Quiet, Preparing
<1>3. CASE Verdict \/ SendEnd \/ AwaitFinal \/ Cleanup
  BY <1>3, ZenonT(60) DEF Quiet, Preparing
<1>4. CASE JoinCapture \/ CloseSocket \/ Finish
  BY <1>4, ZenonT(60) DEF Quiet, Preparing
<1>5. CASE OpenEncoder \/ AwaitGo \/ WarmUp \/ Announce
  BY <1>5, ZenonT(60) DEF Quiet, Preparing
<1>6. CASE BeginFrame \/ EndCapture
  BY <1>6, ZenonT(60) DEF Quiet, Preparing
<1>7. CASE Socket \/ FailReported \/ PressStop
  BY <1>7, ZenonT(60) DEF Quiet, Preparing, Socket
<1> QED
  BY <1>1, <1>2, <1>3, <1>4, <1>5, <1>6, <1>7 DEF Next, Worker, Capture

(* The assumption on the sizes, one by one.                                *)
LEMMA Sizes ==
  /\ QueueSize \in Nat \ {0}
  /\ BatchFrames \in Nat \ {0}
  /\ MaxFrames \in Nat \ {0}
  BY SizeAssumption

(* The batch in hand is a batch, and there is at most one.                 *)
LEMMA HandFacts ==
  ASSUME AudioType, hand # <<>>
  PROVE  /\ Len(hand) = 1
         /\ hand[1] \in Batch
         /\ hand[1].from \in Nat /\ hand[1].to \in Nat
<1>1. hand \in Seq(Batch)
  BY DEF AudioType
<1>2. Len(hand) \in Nat /\ Len(hand) # 0
  BY <1>1, EmptySeq, LenProperties
<1>3. Len(hand) = 1
  <2> DEFINE n == Len(hand)
  <2>1. n \in Nat /\ n # 0 /\ n <= 1
    BY <1>2 DEF AudioType
  <2> HIDE DEF n
  <2>2. n = 1
    BY <2>1
  <2> QED
    BY <2>2 DEF n
<1>4. hand[1] \in Batch
  BY <1>1, <1>3, ElementOfSeq
<1> QED
  BY <1>3, <1>4 DEF Batch

(* What Receive does to the queue.                                         *)
LEMMA HeadFacts ==
  ASSUME AudioType, queue # <<>>
  PROVE  /\ Head(queue) = queue[1]
         /\ Head(queue) \in Batch
         /\ Tail(queue) \in Seq(Batch)
         /\ Len(queue) \in Nat \ {0}
         /\ Len(Tail(queue)) = Len(queue) - 1
         /\ \A i \in 1 .. Len(queue) - 1 : Tail(queue)[i] = queue[i + 1]
<1>1. queue \in Seq(Batch)
  BY DEF AudioType
<1> QED
  BY <1>1, EmptySeq, HeadTailProperties

(* What a queued batch adds.                                               *)
LEMMA EnqueueFacts ==
  ASSUME NEW s \in Seq(Batch), NEW batch \in Batch
  PROVE  /\ Append(s, batch) \in Seq(Batch)
         /\ Len(s) \in Nat
         /\ Len(Append(s, batch)) = Len(s) + 1
         /\ \A i \in 1 .. Len(s) : Append(s, batch)[i] = s[i]
         /\ Append(s, batch)[Len(s) + 1] = batch
  BY AppendProperties, LenProperties

(* The audio stays well formed.                                            *)
LEMMA AudioTypeStep ==
  ASSUME AudioType, AudioShape, Next
  PROVE  AudioType'
<1> USE Sizes
<1>1. CASE Quiet
  BY <1>1 DEF AudioType, Quiet
<1>2. CASE Reset
  <2>1. /\ queue' = <<>> /\ hand' = <<>> /\ frames' = 0 /\ from' = 0 /\ sent' = 0
    BY <1>2
  <2> QED
    BY <2>1, EmptySeq DEF AudioType
<1>3. CASE Receive
  <2>1. /\ UNCHANGED <<frames, from, sent>>
        /\ \/ UNCHANGED <<queue, hand>>
           \/ queue # <<>> /\ hand' = <<Head(queue)>> /\ queue' = Tail(queue)
    BY <1>3
  <2>2. CASE UNCHANGED <<queue, hand>>
    BY <2>1, <2>2 DEF AudioType
  <2>3. CASE queue # <<>> /\ hand' = <<Head(queue)>> /\ queue' = Tail(queue)
    <3>1. queue' \in Seq(Batch) /\ Len(queue') <= QueueSize
      BY <2>3, HeadFacts DEF AudioType
    <3>2. hand' \in Seq(Batch) /\ Len(hand') = 1
      BY <2>3, HeadFacts
    <3> QED
      BY <2>1, <3>1, <3>2 DEF AudioType
  <2> QED
    BY <2>1, <2>2, <2>3
<1>4. CASE SendBatch
  <2>1. /\ UNCHANGED <<queue, frames, from>>
        /\ hand' = <<>>
        /\ sent' = hand[1].to \/ sent' = sent
        /\ worker = "send"
    BY <1>4
  <2>2. hand[1].to \in 0 .. frames
    BY <2>1, HandFacts DEF AudioShape, AudioType
  <2> QED
    BY <2>1, <2>2, EmptySeq DEF AudioType
<1>5. CASE QueueHeaders
  <2>1. /\ UNCHANGED <<hand, frames, from, sent>>
        /\ Len(queue) < QueueSize
        /\ queue' = Append(queue, [from |-> 0, to |-> 0])
    BY <1>5
  <2>2. [from |-> 0, to |-> 0] \in Batch
    BY DEF Batch
  <2>3. queue' \in Seq(Batch) /\ Len(queue') <= QueueSize
    BY <2>1, <2>2, EnqueueFacts DEF AudioType
  <2> QED
    BY <2>1, <2>3 DEF AudioType
<1>6. CASE EncodeFrame
  <2>1. /\ UNCHANGED <<queue, hand, from, sent>>
        /\ capture = "frame"
        /\ frames' = frames \/ (~padding /\ frames' = frames + 1)
    BY <1>6
  <2>2. frames' = frames \/ (frames < MaxFrames /\ frames' = frames + 1)
    BY <2>1 DEF AudioShape
  <2> QED
    BY <2>1, <2>2 DEF AudioType
<1>7. CASE QueueBatch
  <2>1. /\ UNCHANGED <<hand, frames, sent>>
        /\ \/ /\ Len(queue) < QueueSize
              /\ queue' = Append(queue, [from |-> from, to |-> frames])
              /\ from' = frames
           \/ UNCHANGED <<queue, from>>
    BY <1>7
  <2>2. CASE UNCHANGED <<queue, from>>
    BY <2>1, <2>2 DEF AudioType
  <2>3. CASE /\ Len(queue) < QueueSize
             /\ queue' = Append(queue, [from |-> from, to |-> frames])
             /\ from' = frames
    <3>1. [from |-> from, to |-> frames] \in Batch
      BY DEF AudioType, Batch
    <3>2. queue' \in Seq(Batch) /\ Len(queue') <= QueueSize
      BY <2>3, <3>1, EnqueueFacts DEF AudioType
    <3> QED
      BY <2>1, <2>3, <3>2 DEF AudioType
  <2> QED
    BY <2>1, <2>2, <2>3
<1> HIDE DEF Reset, Receive, SendBatch, QueueHeaders, EncodeFrame, QueueBatch
<1> QED
  BY <1>1, <1>2, <1>3, <1>4, <1>5, <1>6, <1>7, AudioFrame

(* Batches end where the frames end, at the latest.                        *)
LEMMA AudioShapeStep ==
  ASSUME AudioType, AudioShape, CaptureLife, Next
  PROVE  AudioShape'
<1> USE Sizes
<1>0. \A i \in 1 .. Len(queue) : queue[i].to \in Nat
  <2>1. queue \in Seq(Batch)
    BY DEF AudioType
  <2>2. \A i \in 1 .. Len(queue) : queue[i] \in Batch
    BY <2>1, ElementOfSeq
  <2> QED
    BY <2>2 DEF Batch
<1>1. CASE Quiet
  <2>1. capture' \in Preparing => frames' = 0
    BY <1>1 DEF Quiet, AudioShape, CaptureLife, Preparing
  <2>2. capture' = "frame" /\ ~padding' => frames' < MaxFrames
    <3>1. CASE UNCHANGED <<capture, padding>>
      BY <1>1, <3>1 DEF Quiet, AudioShape
    <3>2. CASE padding' = (stop \/ frames >= MaxFrames)
      <4>1. ~padding' => ~(frames >= MaxFrames)
        BY <3>2
      <4>2. frames \in Nat
        BY DEF AudioType
      <4> QED
        BY <1>1, <4>1, <4>2 DEF Quiet
    <3> QED
      BY <1>1, <3>1, <3>2 DEF Quiet
  <2> QED
    BY <1>1, <2>1, <2>2 DEF Quiet, AudioShape
<1>2. CASE Reset
  <2>1. /\ queue' = <<>> /\ hand' = <<>> /\ frames' = 0
        /\ capture' = None /\ worker' \in {"create", "cleanup"}
    BY <1>2
  <2> QED
    BY <2>1, EmptySeq DEF AudioShape
<1>3. CASE Receive
  <2>1. /\ UNCHANGED <<frames, capture, padding>>
        /\ worker = "receive"
        /\ \/ worker' = "receive_timeout" /\ UNCHANGED <<queue, hand>>
           \/ /\ queue # <<>> /\ hand' = <<Head(queue)>> /\ queue' = Tail(queue)
              /\ worker' = "send"
    BY <1>3
  <2>2. CASE worker' = "receive_timeout" /\ UNCHANGED <<queue, hand>>
    BY <2>1, <2>2 DEF AudioShape
  <2>3. CASE /\ queue # <<>> /\ hand' = <<Head(queue)>> /\ queue' = Tail(queue)
             /\ worker' = "send"
    <3>1. hand'[1] = queue[1] /\ hand' # <<>>
      BY <2>3, HeadFacts
    <3>2. hand'[1].to <= frames
      BY <3>1, <2>3, HeadFacts DEF AudioShape
    <3>3. \A i \in 1 .. Len(queue') : queue'[i].to <= frames
      <4> SUFFICES ASSUME NEW i \in 1 .. Len(queue')
                   PROVE  queue'[i].to <= frames
        OBVIOUS
      <4>1. i + 1 \in 1 .. Len(queue) /\ queue'[i] = queue[i + 1]
        BY <2>3, HeadFacts
      <4> QED
        BY <4>1 DEF AudioShape
    <3> QED
      BY <2>1, <2>3, <3>1, <3>2, <3>3 DEF AudioShape
  <2> QED
    BY <2>1, <2>2, <2>3
<1>4. CASE SendBatch
  <2>1. /\ UNCHANGED <<queue, frames, capture, padding>>
        /\ hand' = <<>> /\ worker' \in {"upload", "verdict"}
    BY <1>4
  <2> QED
    BY <2>1 DEF AudioShape
<1>5. CASE QueueHeaders
  <2> DEFINE headers == [from |-> 0, to |-> 0]
  <2>1. /\ UNCHANGED <<worker, hand, frames>>
        /\ queue' = Append(queue, headers)
        /\ capture = "headers" /\ capture' = "warm_up"
    BY <1>5
  <2>2. headers \in Batch /\ headers.to = 0
    BY DEF Batch
  <2>3. queue \in Seq(Batch) /\ frames \in Nat
    BY DEF AudioType
  <2>4. \A i \in 1 .. Len(queue') : queue'[i].to <= frames
    BY <2>1, <2>2, <2>3, EnqueueFacts DEF AudioShape
  <2> QED
    BY <2>1, <2>4 DEF AudioShape, Preparing
<1>6. CASE EncodeFrame
  <2>1. /\ UNCHANGED <<worker, queue, hand>>
        /\ capture' \in {"enqueue", "loop", "done"}
        /\ frames' \in {frames, frames + 1}
    BY <1>6
  <2>2. frames \in Nat /\ frames' \in Nat /\ frames <= frames'
    BY <2>1 DEF AudioType
  <2>3. \A i \in 1 .. Len(queue') : queue'[i].to <= frames'
    BY <2>1, <2>2, <1>0 DEF AudioShape
  <2>4. hand' # <<>> => hand'[1].to <= frames'
    BY <2>1, <2>2, HandFacts DEF AudioShape
  <2> QED
    BY <2>1, <2>3, <2>4 DEF AudioShape, Preparing
<1>7. CASE QueueBatch
  <2> DEFINE batch == [from |-> from, to |-> frames]
  <2>1. /\ UNCHANGED <<worker, hand, frames>>
        /\ capture' \in {"done", "loop"}
        /\ queue' \in {queue, Append(queue, batch)}
    BY <1>7
  <2>2. batch \in Batch /\ batch.to = frames
    BY DEF AudioType, Batch
  <2>3. queue \in Seq(Batch) /\ frames \in Nat
    BY DEF AudioType
  <2> HIDE DEF batch
  <2>4. \A i \in 1 .. Len(queue') : queue'[i].to <= frames
    BY <2>1, <2>2, <2>3, EnqueueFacts, SMTT(30) DEF AudioShape
  <2> QED
    BY <2>1, <2>4 DEF AudioShape, Preparing
<1> HIDE DEF Reset, Receive, SendBatch, QueueHeaders, EncodeFrame, QueueBatch
<1> QED
  BY <1>1, <1>2, <1>3, <1>4, <1>5, <1>6, <1>7, AudioFrame

-----------------------------------------------------------------------------
(* The batches on their way, one by one.                                   *)
LEMMA WaitingFacts ==
  ASSUME AudioType
  PROVE  /\ Waiting \in Seq(Batch)
         /\ Len(hand) \in Nat /\ Len(queue) \in Nat
         /\ Len(Waiting) = Len(hand) + Len(queue)
         /\ \A i \in 1 .. Len(hand) + Len(queue) :
              Waiting[i] = IF i <= Len(hand) THEN hand[i] ELSE queue[i - Len(hand)]
<1>1. hand \in Seq(Batch) /\ queue \in Seq(Batch)
  BY DEF AudioType
<1> QED
  BY <1>1, ConcatProperties, LenProperties DEF Waiting

(* What leaves the waiting batches alone, or takes one from the queue into *)
(* the hand.                                                               *)
LEMMA SameAccount ==
  ASSUME AudioAccounted, Waiting' = Waiting, UNCHANGED <<sent, from>>,
         claimed' = TRUE \/ claimed' = claimed
  PROVE  AudioAccounted'
  BY DEF AudioAccounted, UpTo

(* A batch that begins at the chunk's first frame moves that frame to its  *)
(* own end.                                                                *)
LEMMA AppendAccount ==
  ASSUME AudioType, AudioAccounted, NEW batch \in Batch, batch.from = from,
         queue' = Append(queue, batch), from' = batch.to,
         UNCHANGED <<hand, sent, claimed>>
  PROVE  AudioAccounted'
<1>0. PICK n \in Nat : n = Len(Waiting)
  BY WaitingFacts
<1>1. queue \in Seq(Batch) /\ hand \in Seq(Batch) /\ queue' \in Seq(Batch)
  BY EnqueueFacts DEF AudioType
<1>2. Len(Waiting') = n + 1
  BY <1>0, <1>1, WaitingFacts, EnqueueFacts, ConcatProperties DEF Waiting
<1>3. \A i \in 1 .. n : Waiting'[i] = Waiting[i]
  BY <1>0, <1>1, WaitingFacts, EnqueueFacts, ConcatProperties DEF Waiting
<1>4. Waiting'[n + 1] = batch
  BY <1>0, <1>1, WaitingFacts, EnqueueFacts, ConcatProperties DEF Waiting
<1>5. CASE claimed
  BY <1>5 DEF AudioAccounted
<1>6. CASE ~claimed
  <2>1. /\ \A i \in 1 .. n : Waiting[i].from = UpTo(i - 1)
        /\ from = UpTo(n)
    BY <1>0, <1>6 DEF AudioAccounted
  <2>2. \A i \in 0 .. n : UpTo(i)' = UpTo(i)
    BY <1>2, <1>3 DEF UpTo
  <2>3. UpTo(n + 1)' = from'
    BY <1>2, <1>4 DEF UpTo
  <2>4. ASSUME NEW i \in 1 .. n + 1
        PROVE  Waiting'[i].from = UpTo(i - 1)'
    <3>1. CASE i = n + 1
      BY <3>1, <1>2, <1>4, <2>1, <2>2
    <3>2. CASE i \in 1 .. n
      BY <3>2, <1>2, <1>3, <2>1, <2>2
    <3> QED
      BY <1>2, <3>1, <3>2
  <2> QED
    BY <1>2, <2>3, <2>4 DEF AudioAccounted
<1> QED
  BY <1>5, <1>6

(* Every step keeps the account of the audio.                              *)
LEMMA AccountStep ==
  ASSUME AudioType, AudioShape, AudioAccounted, Next
  PROVE  AudioAccounted'
<1>1. CASE Quiet
  <2>1. Waiting' = Waiting
    BY <1>1 DEF Quiet, Waiting
  <2> QED
    BY <1>1, <2>1, SameAccount DEF Quiet
<1>2. CASE Reset
  <2>1. queue' = <<>> /\ hand' = <<>> /\ from' = 0 /\ sent' = 0
    BY <1>2
  <2>2. Waiting' = <<>>
    BY <2>1, ConcatEmptySeq, EmptySeq DEF Waiting
  <2> QED
    BY <2>1, <2>2, EmptySeq DEF AudioAccounted, UpTo
<1>3. CASE Receive
  <2>1. /\ UNCHANGED <<sent, from, claimed>>
        /\ worker = "receive"
        /\ \/ UNCHANGED <<queue, hand>>
           \/ queue # <<>> /\ hand' = <<Head(queue)>> /\ queue' = Tail(queue)
    BY <1>3
  <2>2. CASE UNCHANGED <<queue, hand>>
    <3>1. Waiting' = Waiting
      BY <2>2 DEF Waiting
    <3> QED
      BY <2>1, <3>1, SameAccount
  <2>3. CASE queue # <<>> /\ hand' = <<Head(queue)>> /\ queue' = Tail(queue)
    <3>1. hand = <<>>
      BY <2>1 DEF AudioShape
    <3>2. queue \in Seq(Batch)
      BY DEF AudioType
    <3>3. Waiting = queue
      BY <3>1, <3>2, ConcatEmptySeq DEF Waiting
    <3>4. <<Head(queue)>> \in Seq(Batch) /\ Len(<<Head(queue)>>) = 1
      BY <2>3, HeadFacts
    <3>5. /\ <<Head(queue)>> \o Tail(queue) \in Seq(Batch)
          /\ Len(<<Head(queue)>> \o Tail(queue)) = Len(queue)
          /\ \A i \in 1 .. Len(queue) : (<<Head(queue)>> \o Tail(queue))[i] = queue[i]
      BY <2>3, <3>4, HeadFacts, ConcatProperties
    <3>6. <<Head(queue)>> \o Tail(queue) = queue
      BY <3>2, <3>5, SeqEqual
    <3>7. Waiting' = Waiting
      BY <2>3, <3>3, <3>6 DEF Waiting
    <3> QED
      BY <2>1, <3>7, SameAccount
  <2> QED
    BY <2>1, <2>2, <2>3
<1>4. CASE SendBatch
  <2>1. /\ UNCHANGED <<queue, from>>
        /\ hand' = <<>> /\ worker = "send"
        /\ \/ claimed' = TRUE
           \/ sent' = hand[1].to /\ claimed' = claimed
    BY <1>4
  <2>2. CASE claimed' = TRUE
    BY <2>2 DEF AudioAccounted
  <2>3. CASE sent' = hand[1].to /\ claimed' = claimed
    <3>0. PICK n \in Nat : n = Len(queue)
      BY LenProperties DEF AudioType
    <3>1. Len(hand) = 1
      BY <2>1, HandFacts DEF AudioShape
    <3>2. queue \in Seq(Batch)
      BY DEF AudioType
    <3>3. Waiting' = queue
      BY <2>1, <3>2, ConcatEmptySeq DEF Waiting
    <3>4. /\ Len(Waiting) = n + 1
          /\ Waiting[1] = hand[1]
          /\ \A i \in 1 .. n : Waiting[i + 1] = queue[i]
      BY <3>0, <3>1, <3>2, WaitingFacts
    <3>5. CASE claimed
      BY <2>3, <3>5 DEF AudioAccounted
    <3>6. CASE ~claimed
      <4>1. /\ \A i \in 1 .. n + 1 : Waiting[i].from = UpTo(i - 1)
            /\ from = UpTo(n + 1)
        BY <3>4, <3>6 DEF AudioAccounted
      <4>2. \A i \in 0 .. n : UpTo(i)' = UpTo(i + 1)
        BY <2>3, <3>2, <3>3, <3>4 DEF UpTo
      <4>3. ASSUME NEW i \in 1 .. n
            PROVE  Waiting'[i].from = UpTo(i - 1)'
        BY <3>2, <3>3, <3>4, <4>1, <4>2
      <4>4. from' = UpTo(n)'
        BY <2>1, <3>2, <4>1, <4>2
      <4>5. Len(Waiting') = n
        BY <3>0, <3>3
      <4> QED
        BY <4>3, <4>4, <4>5 DEF AudioAccounted
    <3> QED
      BY <3>5, <3>6
  <2> QED
    BY <2>1, <2>2, <2>3
<1>5. CASE QueueHeaders
  <2> DEFINE headers == [from |-> 0, to |-> 0]
  <2>1. /\ UNCHANGED <<hand, frames, from, sent, claimed>>
        /\ queue' = Append(queue, headers)
        /\ capture = "headers"
    BY <1>5
  <2>2. from = 0
    BY <2>1 DEF AudioShape, AudioType, Preparing
  <2>3. headers \in Batch /\ headers.from = from /\ from' = headers.to
    BY <2>1, <2>2 DEF Batch
  <2> HIDE DEF headers
  <2> QED
    BY <2>1, <2>3, AppendAccount
<1>6. CASE EncodeFrame
  <2>1. /\ UNCHANGED <<queue, hand, from, sent>>
        /\ claimed' = TRUE \/ claimed' = claimed
    BY <1>6
  <2>2. Waiting' = Waiting
    BY <2>1 DEF Waiting
  <2> QED
    BY <2>1, <2>2, SameAccount
<1>7. CASE QueueBatch
  <2> DEFINE batch == [from |-> from, to |-> frames]
  <2>1. /\ UNCHANGED <<hand, frames, sent>>
        /\ \/ claimed' = TRUE
           \/ /\ queue' = Append(queue, batch)
              /\ from' = frames
              /\ claimed' = claimed
    BY <1>7
  <2>2. CASE claimed' = TRUE
    BY <2>2 DEF AudioAccounted
  <2>3. CASE /\ queue' = Append(queue, batch)
             /\ from' = frames
             /\ claimed' = claimed
    <3>1. batch \in Batch /\ batch.from = from /\ from' = batch.to
      BY <2>3 DEF Batch, AudioType
    <3> HIDE DEF batch
    <3> QED
      BY <2>1, <2>3, <3>1, AppendAccount
  <2> QED
    BY <2>1, <2>2, <2>3
<1> HIDE DEF Reset, Receive, SendBatch, QueueHeaders, EncodeFrame, QueueBatch
<1> QED
  BY <1>1, <1>2, <1>3, <1>4, <1>5, <1>6, <1>7, AudioFrame

-----------------------------------------------------------------------------
(* The invariant, initially, in a stutter and always.                      *)

(* Nothing has happened yet.                                               *)
LEMMA InitIInv == Init => IInv
<1> SUFFICES ASSUME Init PROVE IInv
  OBVIOUS
<1>1. ControlType /\ PageType /\ FlagType
  BY DEF Init, ControlType, Places, PageType, Signals, Active, FlagType
<1>2. PacketType
  BY EmptySeq DEF Init, PacketType
<1>3. AudioType
  BY Sizes, EmptySeq DEF Init, AudioType
<1>4. CaptureLife /\ SocketLife /\ FailLife /\ GoAhead
  BY DEF Init, CaptureLife, SocketLife, FailLife, GoAhead, Uploading, Working
<1>5. AudioShape
  BY Sizes, EmptySeq DEF Init, AudioShape, Preparing
<1>6. PageSettles /\ StopHasCause /\ ClosedWithCause
  BY DEF Init, PageSettles, StopHasCause, ClosedWithCause, Active, Closing
<1>7. AudioAccounted
  <2>1. queue = <<>> /\ hand = <<>> /\ from = 0 /\ sent = 0
    BY DEF Init
  <2>2. Waiting = <<>>
    BY <2>1, ConcatEmptySeq, EmptySeq DEF Waiting
  <2> QED
    BY <2>1, <2>2, EmptySeq DEF AudioAccounted, UpTo
<1> QED
  BY <1>1, <1>2, <1>3, <1>4, <1>5, <1>6, <1>7, TypeParts DEF IInv

(* What changes no variable changes no conjunct.                           *)
LEMMA StutterIInv == IInv /\ UNCHANGED vars => IInv'
<1> SUFFICES ASSUME IInv, UNCHANGED vars PROVE IInv'
  OBVIOUS
<1> USE DEF vars
<1>1. TypeOK'
  BY DEF IInv, TypeOK
<1>2. CaptureLife' /\ SocketLife' /\ FailLife' /\ GoAhead'
  BY DEF IInv, CaptureLife, SocketLife, FailLife, GoAhead
<1>3. AudioShape'
  BY DEF IInv, AudioShape
<1>4. PageSettles' /\ StopHasCause' /\ ClosedWithCause'
  BY DEF IInv, PageSettles, StopHasCause, ClosedWithCause, Cause
<1>5. AudioAccounted'
  BY DEF IInv, AudioAccounted, UpTo, Waiting
<1> QED
  BY <1>1, <1>2, <1>3, <1>4, <1>5 DEF IInv

(* Every step: one lemma above for each conjunct.                          *)
LEMMA StepIInv == IInv /\ Next => IInv'
<1> SUFFICES ASSUME IInv, Next PROVE IInv'
  OBVIOUS
<1>0. ControlType /\ PageType /\ PacketType /\ FlagType /\ AudioType
  BY TypeParts DEF IInv
<1>1. TypeOK'
  <2>1. ControlType' /\ FlagType'
    BY <1>0, ControlStep, FlagStep
  <2>2. PageType' /\ PacketType'
    BY <1>0, PageTypeStep, PacketStep
  <2>3. AudioType'
    BY <1>0, AudioTypeStep DEF IInv
  <2>4. (ControlType /\ PageType /\ PacketType /\ FlagType /\ AudioType => TypeOK)'
    BY TypeParts, PTL
  <2> QED
    BY <2>1, <2>2, <2>3, <2>4
<1>2. CaptureLife' /\ PageSettles' /\ StopHasCause'
  BY CaptureStep, PageStep, StopStep DEF IInv
<1>3. SocketLife' /\ FailLife' /\ GoAhead' /\ ClosedWithCause'
  BY SocketStep, FailStep, GoAheadStep, CauseStep
<1>4. AudioShape' /\ AudioAccounted'
  BY <1>0, AudioShapeStep, AccountStep DEF IInv
<1> QED
  BY <1>1, <1>2, <1>3, <1>4 DEF IInv

(* The inductive invariant holds in every state of every behaviour.        *)
THEOREM Invariance == Spec => []IInv
  BY InitIInv, StutterIInv, StepIInv, PTL DEF Spec

(* Every variable has its type.                                            *)
THEOREM TypeCorrect == Spec => []TypeOK
<1>1. IInv => TypeOK
  BY DEF IInv
<1> QED
  BY Invariance, <1>1, PTL

(* When the worker frees what the tasks of a session share - the queue,    *)
(* the receive buffer, the event group - no task is left that could use    *)
(* it (cleanup, 452-476).                                                  *)
THEOREM SharedStateOutlivesTasks == Spec => []NoUseAfterFree
<1>1. IInv => NoUseAfterFree
  <2> SUFFICES ASSUME IInv, worker \in {"free", "idle", "starting"}
               PROVE  /\ capture \in {None, "dead"} /\ socket # "running"
                      /\ packet = <<>> /\ failing = None
    BY DEF NoUseAfterFree
  <2>1. ControlType
    BY TypeParts DEF IInv
  <2>2. capture \in {None, "dead"}
    BY ZenonT(60) DEF IInv, CaptureLife, Uploading
  <2>3. socket # "running"
    BY ZenonT(60) DEF IInv, SocketLife, Uploading
  <2>4. packet = <<>> /\ failing # "socket"
    BY <2>3 DEF IInv, SocketLife
  <2>5. failing # "worker" /\ failing # "capture"
    BY <2>2 DEF IInv, FailLife
  <2> QED
    BY <2>1, <2>2, <2>3, <2>4, <2>5 DEF ControlType
<1> QED
  BY Invariance, <1>1, PTL

(* No task brings an active phase back to the page of a session that is    *)
(* over (484-490).                                                         *)
THEOREM PageOfEndedSession == Spec => []PageSettles
<1>1. IInv => PageSettles
  BY DEF IInv
<1> QED
  BY Invariance, <1>1, PTL

(* The microphone is read and audio is kept only once the request has been *)
(* sent (210-211, 415-433).                                                *)
THEOREM MicrophoneWaits == Spec => []MicOnlyAfterRequest
<1>1. IInv => MicOnlyAfterRequest
  BY DEF IInv, GoAhead, Working, MicOnlyAfterRequest
<1> QED
  BY Invariance, <1>1, PTL

(* A running session is never told to stop without a cause of its own.     *)
THEOREM StopIsCaused == Spec => []StopHasCause
<1>1. IInv => StopHasCause
  BY DEF IInv
<1> QED
  BY Invariance, <1>1, PTL

(* A session that ends without its final result says why (484-490): by     *)
(* then every failure that was claimed has been written.                   *)
THEOREM EndsExplained == Spec => []EndExplained
<1>1. IInv => EndExplained
  <2> SUFFICES ASSUME IInv, worker = "idle", phase \in {"REVIEW", "ERROR"}, ~successful
               PROVE  failure \/ pressed \/ limited
    BY DEF EndExplained
  <2>1. Cause
    BY DEF IInv, ClosedWithCause
  <2>2. failing # "worker" /\ failing # "capture" /\ failing # "socket"
    BY ZenonT(60) DEF IInv, CaptureLife, SocketLife, FailLife, Uploading
  <2>3. failing = None
    BY <2>2, TypeParts DEF IInv, ControlType
  <2> QED
    BY <2>1, <2>3 DEF IInv, FailLife, Cause
<1> QED
  BY Invariance, <1>1, PTL

(* Every encoded frame is sent, in the worker's hand, queued or in the     *)
(* capture task's chunk, in order and without a gap, until a failure is    *)
(* claimed: whatever the sizes of the queue, the batch and the recording.  *)
THEOREM NoAudioLost == Spec => []AudioAccounted
<1>1. IInv => AudioAccounted
  BY DEF IInv
<1> QED
  BY Invariance, <1>1, PTL

-----------------------------------------------------------------------------
(* Who waits for whom.                                                     *)

(* What WaitsEnd rests on: a failure of the encoder is the first of its    *)
(* session and is reported, the go-ahead stays to be given until the       *)
(* request is accepted, and the queue is empty until the headers.          *)
WaitSound ==
  /\ worker \in {"create", "await_encoder", "open", "connect", "request"} => ~accepted
  /\ worker = "create" => ~claimed
  /\ worker = "await_encoder" =>
       capture # None /\ (claimed => capture \in {"done", "dead"})
  /\ capture = "init" => worker = "await_encoder" /\ "ENCODER_READY" \notin bits
  /\ worker = "create" => "ENCODER_READY" \notin bits
  /\ claimed /\ failing = None => "FAILED" \in bits
  /\ accepted /\ capture = "await_go" => notified # 0
  /\ capture \in {None, "init", "await_go", "headers"} => queue = <<>>
  /\ WaitsEnd

(* Every step of every task leaves each wait with somebody to end it.      *)
LEMMA WaitStep ==
  ASSUME IInv, WaitSound, Next
  PROVE  WaitSound'
<1> USE Flags DEF IInv, CaptureLife, SocketLife, FailLife, Uploading, WaitSound, WaitsEnd
<1>1. CASE StartSession \/ Reset \/ CreateCapture
  BY <1>1, SMTT(60)
<1>2. CASE AwaitEncoder \/ OpenSocket \/ AwaitConnection \/ SendRequest
  <2>1. CASE AwaitEncoder
    BY <2>1, SMTT(60)
  <2>2. CASE OpenSocket
    BY <2>2, SMTT(60)
  <2>3. CASE AwaitConnection
    BY <2>3, SMTT(60)
  <2>4. CASE SendRequest
    BY <2>4, SMTT(60)
  <2> QED
    BY <1>2, <2>1, <2>2, <2>3, <2>4
<1>3. CASE UploadCheck \/ Receive \/ SendBatch \/ ReceiveTimeout
  BY <1>3, SMTT(60)
<1>4. CASE Verdict \/ SendEnd \/ AwaitFinal
  BY <1>4, SMTT(60)
<1>5. CASE Cleanup \/ JoinCapture \/ CloseSocket \/ Finish
  BY <1>5, SMTT(60)
<1>6. CASE OpenEncoder \/ AwaitGo \/ QueueHeaders \/ WarmUp \/ Announce
  BY <1>6, SMTT(60)
<1>7. CASE BeginFrame \/ EncodeFrame
  BY <1>7, SMTT(60)
<1>8. CASE QueueBatch \/ EndCapture
  BY <1>8, SMTT(60)
<1>9. CASE Connected \/ ConnectionFails
  BY <1>9, SMTT(60)
<1>10. CASE ReceiveResult
  BY <1>10, SMTT(60)
<1>11. CASE PublishResult
  BY <1>11, SMTT(60)
<1>12. CASE FailReported
  BY <1>12, SMTT(60)
<1>13. CASE PressStop
  BY <1>13, SMTT(60)
<1> HIDE DEF IInv, CaptureLife, SocketLife, FailLife, Uploading, WaitSound, WaitsEnd
<1> QED
  BY <1>1, <1>2, <1>3, <1>4, <1>5, <1>6, <1>7, <1>8, <1>9, <1>10, <1>11, <1>12, <1>13
     DEF Next, Worker, Capture, Socket

(* No wait of a session is for ever on a task that waits itself: the three *)
(* waits without a timeout are never on each other, whichever calls fail,  *)
(* and the send of the headers has nothing to wait for.                    *)
THEOREM NobodyWaitsInCircles == Spec => []WaitsEnd
<1>1. Init => WaitSound
  BY DEF Init, WaitSound, WaitsEnd
<1>2. IInv /\ WaitSound /\ [Next]_vars => WaitSound'
  BY WaitStep DEF vars, WaitSound, WaitsEnd
<1>3. WaitSound => WaitsEnd
  BY DEF WaitSound
<1> QED
  BY <1>1, <1>2, <1>3, Invariance, PTL DEF Spec

-----------------------------------------------------------------------------
(* How much the two tasks of a session have still to do.                   *)

(* At most this many steps of the capture task: four for each frame that   *)
(* may still come, and those before the first and after the last.          *)
Left(f) == 4 * (MaxFrames - f)
CaptureSteps(place, f, last) ==
  CASE place = "init" -> Left(f) + 9
    [] place = "await_go" -> Left(f) + 8
    [] place = "headers" -> Left(f) + 7
    [] place = "warm_up" -> Left(f) + 6
    [] place = "announce" -> Left(f) + 5
    [] place = "loop" -> Left(f) + 4
    [] place = "frame" -> Left(f) + 3
    [] place = "enqueue" -> IF last THEN 2 ELSE Left(f) + 5
    [] place = "done" -> 1
    [] OTHER -> 0
CaptureWork == CaptureSteps(capture, frames, padding)

(* Once it has been told to stop, at most this many.                       *)
StepsToStop(place, last) ==
  CASE place = "init" -> 9
    [] place = "await_go" -> 8
    [] place = "headers" -> 7
    [] place = "warm_up" -> 6
    [] place = "announce" -> 5
    [] place = "loop" -> 4
    [] place = "frame" -> IF last THEN 3 ELSE 6
    [] place = "enqueue" -> IF last THEN 2 ELSE 5
    [] place = "done" -> 1
    [] OTHER -> 0
StopWork == StepsToStop(capture, padding)

CaptureRunsDown ==
  capture \notin {None, "dead"} =>
    /\ Capture => CaptureWork' < CaptureWork /\ (stop => StopWork' < StopWork)
    /\ ~Capture => CaptureWork' <= CaptureWork /\ StopWork' <= StopWork

(* The two measures, place by place.                                       *)
WorkTable ==
  /\ Left(frames) \in Nat
  /\ capture = "init" => CaptureWork = Left(frames) + 9 /\ StopWork = 9
  /\ capture = "await_go" => CaptureWork = Left(frames) + 8 /\ StopWork = 8
  /\ capture = "headers" => CaptureWork = Left(frames) + 7 /\ StopWork = 7
  /\ capture = "warm_up" => CaptureWork = Left(frames) + 6 /\ StopWork = 6
  /\ capture = "announce" => CaptureWork = Left(frames) + 5 /\ StopWork = 5
  /\ capture = "loop" => CaptureWork = Left(frames) + 4 /\ StopWork = 4
  /\ capture = "frame" => /\ CaptureWork = Left(frames) + 3
                          /\ StopWork = IF padding THEN 3 ELSE 6
  /\ capture = "enqueue" => /\ CaptureWork = IF padding THEN 2 ELSE Left(frames) + 5
                            /\ StopWork = IF padding THEN 2 ELSE 5
  /\ capture = "done" => CaptureWork = 1 /\ StopWork = 1
  /\ capture \in {"none", "dead"} => CaptureWork = 0 /\ StopWork = 0
(* They are what their definitions say.                                    *)
LEMMA Table == TypeOK => WorkTable
<1>1. TypeOK => Left(frames) \in Nat
  <2>1. TypeOK => frames \in 0 .. MaxFrames
    BY DEF TypeOK
  <2> QED
    BY <2>1, Sizes, SMT DEF Left
<1>2. /\ capture = "frame" => /\ CaptureWork = Left(frames) + 3
                              /\ StopWork = IF padding THEN 3 ELSE 6
      /\ capture = "enqueue" => /\ CaptureWork = IF padding THEN 2 ELSE Left(frames) + 5
                                /\ StopWork = IF padding THEN 2 ELSE 5
  BY DEF CaptureWork, CaptureSteps, StopWork, StepsToStop
<1>3. /\ capture = "init" => CaptureWork = Left(frames) + 9 /\ StopWork = 9
      /\ capture = "await_go" => CaptureWork = Left(frames) + 8 /\ StopWork = 8
      /\ capture = "headers" => CaptureWork = Left(frames) + 7 /\ StopWork = 7
      /\ capture = "warm_up" => CaptureWork = Left(frames) + 6 /\ StopWork = 6
      /\ capture = "announce" => CaptureWork = Left(frames) + 5 /\ StopWork = 5
      /\ capture = "loop" => CaptureWork = Left(frames) + 4 /\ StopWork = 4
  BY DEF CaptureWork, CaptureSteps, StopWork, StepsToStop
<1>4. /\ capture = "done" => CaptureWork = 1 /\ StopWork = 1
      /\ capture \in {"none", "dead"} => CaptureWork = 0 /\ StopWork = 0
  BY DEF CaptureWork, CaptureSteps, StopWork, StepsToStop
<1> QED
  BY <1>1, <1>2, <1>3, <1>4 DEF WorkTable

(* The steps of the capture task bring both down.                          *)
LEMMA CaptureGoesOn ==
  ASSUME IInv, Capture
  PROVE  CaptureWork' < CaptureWork /\ (stop => StopWork' < StopWork)
<1>1. /\ TypeOK /\ WorkTable
      /\ frames \in 0 .. MaxFrames /\ padding \in BOOLEAN
      /\ capture = "frame" /\ ~padding => frames < MaxFrames
  BY Flags, Table DEF IInv, TypeOK, AudioShape
<1>2. WorkTable'
  <2>1. TypeOK'
    BY StepIInv DEF IInv, Next
  <2> QED
    BY <2>1, Table, PTL
<1>3. frames' = frames => Left(frames') = Left(frames)
  OBVIOUS
<1>4. CASE OpenEncoder
  <2>1. capture = "init" /\ capture' \in {"await_go", "done"} /\ UNCHANGED <<frames, padding>>
    BY <1>4
  <2> QED
    BY <1>1, <1>2, <1>3, <2>1, SMT DEF WorkTable
<1>5. CASE AwaitGo
  <2>1. capture = "await_go" /\ capture' \in {"headers", "done"} /\ UNCHANGED <<frames, padding>>
    BY <1>5
  <2> QED
    BY <1>1, <1>2, <1>3, <2>1, SMT DEF WorkTable
<1>6. CASE QueueHeaders
  <2>1. capture = "headers" /\ capture' \in {"warm_up"} /\ UNCHANGED <<frames, padding>>
    BY <1>6
  <2> QED
    BY <1>1, <1>2, <1>3, <2>1, SMT DEF WorkTable
<1>7. CASE WarmUp
  <2>1. capture = "warm_up" /\ capture' \in {"announce", "done"} /\ UNCHANGED <<frames, padding>>
    BY <1>7
  <2> QED
    BY <1>1, <1>2, <1>3, <2>1, SMT DEF WorkTable
<1>8. CASE Announce
  <2>1. capture = "announce" /\ capture' \in {"loop"} /\ UNCHANGED <<frames, padding>>
    BY <1>8
  <2> QED
    BY <1>1, <1>2, <1>3, <2>1, SMT DEF WorkTable
<1>9. CASE BeginFrame
  <2>1. /\ capture = "loop" /\ capture' = "frame" /\ frames' = frames
        /\ stop => padding' = TRUE
    BY <1>9
  <2> QED
    BY <1>1, <1>2, <1>3, <2>1, SMT DEF WorkTable
<1>10. CASE EncodeFrame
  <2>1. capture = "frame" /\ padding' = padding
    BY <1>10
  <2>2. CASE capture' = "done" /\ frames' = frames
    BY <1>1, <1>2, <1>3, <2>1, <2>2, SMT DEF WorkTable
  <2>3. CASE padding /\ capture' = "enqueue" /\ frames' = frames
    BY <1>1, <1>2, <1>3, <2>1, <2>3, SMT DEF WorkTable
  <2>4. CASE ~padding /\ capture' \in {"enqueue", "loop"} /\ frames' = frames + 1
    <3>1. Left(frames') = Left(frames) - 4
      BY <1>1, <2>4, Sizes, SMT DEF Left
    <3> QED
      BY <1>1, <1>2, <2>1, <2>4, <3>1, SMT DEF WorkTable
  <2> QED
    BY <1>10, <2>1, <2>2, <2>3, <2>4
<1>11. CASE QueueBatch
  <2>1. /\ capture = "enqueue" /\ UNCHANGED <<frames, padding>>
        /\ capture' \in (IF padding THEN {"done"} ELSE {"done", "loop"})
    BY <1>11
  <2> QED
    BY <1>1, <1>2, <1>3, <2>1, SMT DEF WorkTable
<1>12. CASE EndCapture
  <2>1. capture = "done" /\ capture' \in {"dead"} /\ UNCHANGED <<frames, padding>>
    BY <1>12
  <2> QED
    BY <1>1, <1>2, <1>3, <2>1, SMT DEF WorkTable
<1> QED
  BY <1>4, <1>5, <1>6, <1>7, <1>8, <1>9, <1>10, <1>11, <1>12 DEF Capture

(* No step of another task touches what they are made of.                  *)
LEMMA CaptureAlone ==
  ASSUME IInv, capture \notin {None, "dead"}, [Next]_vars, ~Capture
  PROVE  UNCHANGED <<capture, frames, padding>>
<1>1. worker \notin {"starting", "create"}
  BY DEF IInv, CaptureLife, Uploading
<1>2. CASE UNCHANGED vars
  BY <1>2 DEF vars
<1>3. CASE Worker
  <2>1. ~Reset /\ ~CreateCapture
    BY <1>1
  <2> QED
    BY <1>3, <2>1, ZenonT(30) DEF Worker
<1>4. CASE Socket
  BY <1>4, ZenonT(30) DEF Socket
<1>5. CASE FailReported \/ PressStop
  BY <1>5
<1> QED
  BY <1>2, <1>3, <1>4, <1>5 DEF Next

(* The capture task, once created, comes nearer to its end with each of    *)
(* its steps and is thrown back by no other task: it ends after at most    *)
(* four steps for each frame of the longest recording and nine more, and,  *)
(* once the stop flag is set, after at most nine, however it was set and   *)
(* wherever it is.  Together with NobodyWaitsInCircles this is what makes  *)
(* the worker's wait for CAPTURE_DONE, which has no timeout, safe.         *)
THEOREM CaptureEndsInBoundedSteps ==
  Spec => [](capture \notin {None, "dead"} => {CaptureWork, StopWork} \subseteq Nat \ {0})
          /\ [][CaptureRunsDown]_vars
<1>1. IInv => (capture \notin {None, "dead"} => {CaptureWork, StopWork} \subseteq Nat \ {0})
  <2>1. SUFFICES ASSUME IInv, capture \notin {None, "dead"}
                 PROVE  CaptureWork \in Nat \ {0} /\ StopWork \in Nat \ {0}
    OBVIOUS
  <2>2. WorkTable /\ ControlType
    BY <2>1, Table, TypeParts DEF IInv
  <2> QED
    BY <2>1, <2>2, SMT DEF WorkTable, ControlType
<1>2. IInv /\ [Next]_vars => CaptureRunsDown
  <2>1. SUFFICES ASSUME IInv, [Next]_vars, capture \notin {None, "dead"}, ~Capture
                 PROVE  CaptureWork' <= CaptureWork /\ StopWork' <= StopWork
    BY CaptureGoesOn DEF CaptureRunsDown
  <2>2. CaptureWork' = CaptureWork /\ StopWork' = StopWork
    BY <2>1, CaptureAlone DEF CaptureWork, CaptureSteps, Left, StopWork, StepsToStop
  <2>3. CaptureWork \in Nat /\ StopWork \in Nat
    BY <1>1, <2>1
  <2> QED
    BY <2>2, <2>3
<1> QED
  BY <1>1, <1>2, Invariance, PTL DEF Spec

(* At most this many steps of the worker, not counting the rounds of the   *)
(* upload loop in which it waits for a capture task that is not done: up   *)
(* to the loop, three for each batch the queue may hold, and from the      *)
(* verdict on.                                                             *)
Loop == {"upload", "receive", "send", "receive_timeout"}
WorkerSteps(place, batches) ==
  CASE place = "starting" -> 3 * QueueSize + 18
    [] place = "create" -> 3 * QueueSize + 17
    [] place = "await_encoder" -> 3 * QueueSize + 16
    [] place = "open" -> 3 * QueueSize + 15
    [] place = "connect" -> 3 * QueueSize + 14
    [] place = "request" -> 3 * QueueSize + 13
    [] place = "send" -> 3 * batches + 12
    [] place = "upload" -> 3 * batches + 11
    [] place = "receive" -> 3 * batches + 10
    [] place = "receive_timeout" -> 3 * batches + 9
    [] place = "verdict" -> 7
    [] place = "finishing" -> 6
    [] place = "await_final" -> 5
    [] place = "cleanup" -> 4
    [] place = "join" -> 3
    [] place = "close" -> 2
    [] place = "free" -> 1
    [] OTHER -> 0
WorkerWork == WorkerSteps(worker, Len(queue))

WorkerRunsDown ==
  worker # "idle" /\ (worker \in Loop => "CAPTURE_DONE" \in bits) =>
    /\ Worker => WorkerWork' < WorkerWork
    /\ ~Worker => WorkerWork' <= WorkerWork

(* The measure, place by place, for a queue of n batches.                  *)
WorkerTable ==
  LET n == Len(queue) IN
  /\ n \in 0 .. QueueSize
  /\ worker = "starting" => WorkerWork = 3 * QueueSize + 18
  /\ worker = "create" => WorkerWork = 3 * QueueSize + 17
  /\ worker = "await_encoder" => WorkerWork = 3 * QueueSize + 16
  /\ worker = "open" => WorkerWork = 3 * QueueSize + 15
  /\ worker = "connect" => WorkerWork = 3 * QueueSize + 14
  /\ worker = "request" => WorkerWork = 3 * QueueSize + 13
  /\ worker = "send" => WorkerWork = 3 * n + 12
  /\ worker = "upload" => WorkerWork = 3 * n + 11
  /\ worker = "receive" => WorkerWork = 3 * n + 10
  /\ worker = "receive_timeout" => WorkerWork = 3 * n + 9
  /\ worker = "verdict" => WorkerWork = 7
  /\ worker = "finishing" => WorkerWork = 6
  /\ worker = "await_final" => WorkerWork = 5
  /\ worker = "cleanup" => WorkerWork = 4
  /\ worker = "join" => WorkerWork = 3
  /\ worker = "close" => WorkerWork = 2
  /\ worker = "free" => WorkerWork = 1
  /\ worker = "idle" => WorkerWork = 0

(* It is what its definition says.                                         *)
LEMMA TableOfWorker == TypeOK => WorkerTable
<1> SUFFICES ASSUME TypeOK PROVE WorkerTable
  OBVIOUS
<1>1. queue \in Seq(Batch) /\ Len(queue) <= QueueSize
  BY DEF TypeOK
<1>2. Len(queue) \in 0 .. QueueSize
  BY <1>1, Sizes
<1>3. /\ worker = "starting" => WorkerWork = 3 * QueueSize + 18
      /\ worker = "create" => WorkerWork = 3 * QueueSize + 17
      /\ worker = "await_encoder" => WorkerWork = 3 * QueueSize + 16
      /\ worker = "open" => WorkerWork = 3 * QueueSize + 15
      /\ worker = "connect" => WorkerWork = 3 * QueueSize + 14
      /\ worker = "request" => WorkerWork = 3 * QueueSize + 13
  BY DEF WorkerWork, WorkerSteps
<1>4. /\ worker = "send" => WorkerWork = 3 * Len(queue) + 12
      /\ worker = "upload" => WorkerWork = 3 * Len(queue) + 11
      /\ worker = "receive" => WorkerWork = 3 * Len(queue) + 10
      /\ worker = "receive_timeout" => WorkerWork = 3 * Len(queue) + 9
  BY DEF WorkerWork, WorkerSteps
<1>5. /\ worker = "verdict" => WorkerWork = 7
      /\ worker = "finishing" => WorkerWork = 6
      /\ worker = "await_final" => WorkerWork = 5
      /\ worker = "cleanup" => WorkerWork = 4
      /\ worker = "join" => WorkerWork = 3
      /\ worker = "close" => WorkerWork = 2
      /\ worker = "free" => WorkerWork = 1
      /\ worker = "idle" => WorkerWork = 0
  BY DEF WorkerWork, WorkerSteps
<1> QED
  BY <1>2, <1>3, <1>4, <1>5 DEF WorkerTable

(* The worker's own steps.                                                 *)
LEMMA WorkerGoesOn ==
  ASSUME IInv, Worker, worker # "idle", worker \in Loop => "CAPTURE_DONE" \in bits
  PROVE  WorkerWork' < WorkerWork
<1>1. WorkerTable /\ WorkerTable' /\ QueueSize \in Nat
  <2>1. TypeOK /\ TypeOK'
    BY StepIInv DEF IInv, Next
  <2>2. WorkerTable
    BY <2>1, TableOfWorker
  <2>3. WorkerTable'
    BY <2>1, TableOfWorker, PTL
  <2>4. QueueSize \in Nat
    BY Sizes
  <2> QED
    BY <2>2, <2>3, <2>4
<1>2. ~StartSession
  OBVIOUS
<1>3. CASE Reset
  <2>1. worker = "starting" /\ worker' \in {"create", "cleanup"}
    BY <1>3
  <2> QED
    BY <1>1, <2>1, SMT DEF WorkerTable
<1>4. CASE CreateCapture \/ AwaitEncoder \/ OpenSocket \/ AwaitConnection
  <2>1. \/ worker = "create" /\ worker' \in {"await_encoder", "cleanup"}
        \/ worker = "await_encoder" /\ worker' \in {"open", "cleanup"}
        \/ worker = "open" /\ worker' \in {"connect", "cleanup"}
        \/ worker = "connect" /\ worker' \in {"request", "cleanup"}
    BY <1>4
  <2> QED
    BY <1>1, <2>1, SMT DEF WorkerTable
<1>5. CASE SendRequest \/ UploadCheck
  <2>1. \/ worker = "request" /\ worker' \in {"upload", "cleanup"}
        \/ /\ worker = "upload" /\ worker' \in {"verdict", "receive"}
           /\ queue' = queue
    BY <1>5
  <2> QED
    BY <1>1, <2>1, SMT DEF WorkerTable
<1>6. CASE Receive
  <2>1. worker = "receive" /\ queue \in Seq(Batch)
    BY <1>6 DEF IInv, TypeOK
  <2>2. CASE queue # <<>> /\ queue' = Tail(queue) /\ worker' = "send"
    <3>1. Len(queue') = Len(queue) - 1
      BY <2>1, <2>2
    <3> QED
      BY <1>1, <2>1, <2>2, <3>1, SMT DEF WorkerTable
  <2>3. CASE worker' = "receive_timeout" /\ queue' = queue
    BY <1>1, <2>1, <2>3, SMT DEF WorkerTable
  <2> QED
    BY <1>6, <2>2, <2>3
<1>7. CASE SendBatch \/ ReceiveTimeout
  <2>1. \/ worker = "send" /\ worker' \in {"upload", "verdict"} /\ queue' = queue
        \/ worker = "receive_timeout" /\ worker' = "verdict"
    BY <1>7 DEF Loop
  <2> QED
    BY <1>1, <2>1, SMT DEF WorkerTable
<1>8. CASE Verdict \/ SendEnd \/ AwaitFinal \/ Cleanup
  <2>1. \/ worker = "verdict" /\ worker' \in {"finishing", "cleanup"}
        \/ worker = "finishing" /\ worker' = "await_final"
        \/ worker = "await_final" /\ worker' = "cleanup"
        \/ worker = "cleanup" /\ worker' = "join"
    BY <1>8
  <2> QED
    BY <1>1, <2>1, SMT DEF WorkerTable
<1>9. CASE JoinCapture \/ CloseSocket \/ Finish
  <2>1. \/ worker = "join" /\ worker' = "close"
        \/ worker = "close" /\ worker' = "free"
        \/ worker = "free" /\ worker' = "idle"
    BY <1>9
  <2> QED
    BY <1>1, <2>1, SMT DEF WorkerTable
<1> QED
  BY <1>2, <1>3, <1>4, <1>5, <1>6, <1>7, <1>8, <1>9 DEF Worker

(* No other step moves the worker, and a capture task that is done queues  *)
(* nothing more.                                                           *)
LEMMA WorkerAlone ==
  ASSUME IInv, worker # "idle", worker \in Loop => "CAPTURE_DONE" \in bits,
         [Next]_vars, ~Worker
  PROVE  WorkerWork' = WorkerWork
<1>1. worker' = worker
  <2>1. CASE Capture
    BY <2>1, ZenonT(30) DEF Capture
  <2>2. CASE Socket
    BY <2>2, ZenonT(30) DEF Socket
  <2>3. CASE FailReported \/ PressStop
    BY <2>3
  <2>4. CASE UNCHANGED vars
    BY <2>4 DEF vars
  <2> QED
    BY <2>1, <2>2, <2>3, <2>4 DEF Next
<1>2. CASE worker \in Loop
  <2>1. capture = "dead"
    BY <1>2 DEF IInv, CaptureLife
  <2>2. ~QueueHeaders /\ ~QueueBatch
    BY <2>1
  <2>3. queue' = queue
    <3>1. CASE Capture
      BY <2>2, <3>1, ZenonT(30) DEF Capture
    <3>2. CASE Socket
      BY <3>2, ZenonT(30) DEF Socket
    <3>3. CASE FailReported \/ PressStop
      BY <3>3
    <3>4. CASE UNCHANGED vars
      BY <3>4 DEF vars
    <3> QED
      BY <3>1, <3>2, <3>3, <3>4 DEF Next
  <2> QED
    BY <1>1, <2>3 DEF WorkerWork, WorkerSteps
<1>3. CASE worker \notin Loop
  BY <1>1, <1>3 DEF WorkerWork, WorkerSteps, Loop
<1> QED
  BY <1>2, <1>3

(* memo_asr_run comes nearer to its end with each of its steps: nothing    *)
(* throws it back, and once the capture task has ended, a step of the      *)
(* upload loop sends one of the batches that are left or leaves the loop.  *)
(* With CaptureEndsInBoundedSteps, only a capture task or a connection     *)
(* that does not move at all can keep a session from ending.               *)
THEOREM WorkerEndsInBoundedSteps ==
  Spec => [](WorkerWork \in Nat) /\ [][WorkerRunsDown]_vars
<1>1. IInv => WorkerWork \in Nat
  <2>1. SUFFICES ASSUME IInv PROVE WorkerWork \in Nat
    OBVIOUS
  <2>2. WorkerTable /\ ControlType /\ QueueSize \in Nat
    BY <2>1, TableOfWorker, TypeParts, Sizes DEF IInv
  <2> QED
    BY <2>2, SMT DEF WorkerTable, ControlType, Places
<1>2. IInv /\ [Next]_vars => WorkerRunsDown
  <2>1. SUFFICES ASSUME IInv, [Next]_vars, worker # "idle",
                        worker \in Loop => "CAPTURE_DONE" \in bits
                 PROVE  /\ Worker => WorkerWork' < WorkerWork
                        /\ ~Worker => WorkerWork' <= WorkerWork
    BY DEF WorkerRunsDown
  <2>2. CASE Worker
    BY <2>1, <2>2, WorkerGoesOn
  <2>3. CASE ~Worker
    BY <1>1, <2>1, <2>3, WorkerAlone
  <2> QED
    BY <2>2, <2>3
<1> QED
  BY <1>1, <1>2, Invariance, PTL DEF Spec
=============================================================================
