------------------------------ MODULE AsrSession -------------------------------
(***************************************************************************)
(* One recording session after another: memo_asr_run on the application    *)
(* worker, the capture task it creates, the WebSocket client's task that   *)
(* runs websocket_event, and the user's button, whose callback runs on a   *)
(* task of its own (main/memo_asr.c, and the part of main/memo_app.c that  *)
(* starts a session and routes the keys during it).                        *)
(*                                                                         *)
(* The three tasks share the event group (bits), the stop and cancel       *)
(* flags, the audio queue, and through memo_asr_update the phase and text  *)
(* the user sees.  A blocking call with a timeout is an action for each of *)
(* its outcomes; the timed-out outcome is enabled whenever the awaited     *)
(* thing has not happened yet.  Frames are counted, never represented: a   *)
(* batch of the upload queue is the interval of frames it carries.         *)
(***************************************************************************)
EXTENDS Integers, Sequences

CONSTANTS
  QueueSize,    \* the upload queue's slots (4)
  BatchFrames,  \* frames sent together (5)
  MaxFrames     \* the frames of MEMO_MAX_SECONDS (6000)

ASSUME SizeAssumption == {QueueSize, BatchFrames, MaxFrames} \subseteq Nat \ {0}

VARIABLES
  worker,       \* where memo_asr_run is
  capture,      \* where the capture task is
  socket,       \* the WebSocket client: "none", "running" or "stopped"
  packet,       \* the result the client's task is publishing, if any: <<result>> or <<>>
  bits,         \* the event group
  stop, cancel, \* stop_requested, cancel_requested
  claimed,      \* failure_claimed
  failing,      \* the task inside fail(), after it claimed the failure
  failure,      \* has failure[] been written?
  phase,        \* view.phase: what the user sees and memo_key acts on
  current,      \* current_phase: what publish() will show
  transcript,   \* is there any recognised text?
  limited,      \* was the text cut at 240 characters?
  queue,        \* audio_queue
  hand,         \* the batch the worker has taken from the queue: <<batch>> or <<>>
  frames,       \* frames of speech encoded so far
  from,         \* the first frame of the capture task's unsent chunk
  padding,      \* is the frame in hand the final, silent one?
  notified,     \* the capture task's notification value
  accepted,     \* capture_started: the ASR request has been sent
  successful,   \* as in memo_asr_run
  sent,         \* ghost: the frames sent without a gap
  ended,        \* ghost: the end-of-audio request has been sent
  pressed       \* ghost: the user pressed Stop or Cancel in this session

flags == <<stop, cancel>>
fault == <<claimed, failing, failure>>
shown == <<phase, current>>
result == <<transcript, limited, packet>>
upload == <<queue, hand>>
audio == <<frames, from, padding>>
request == <<notified, accepted, successful>>
ghosts == <<sent, ended, pressed>>
vars == <<worker, capture, socket, bits, flags, fault, shown, result, upload,
          audio, request, ghosts>>

None == "none"

(* The phases memo_active calls active, but for MEMO_PLAYBACK.             *)
Active == {"CONNECTING", "RECORDING", "FINISHING"}
Batch == [from : Nat, to : Nat]

Init ==
  /\ worker = "idle"
  /\ capture = None
  /\ socket = None
  /\ packet = <<>>
  /\ bits = {}
  /\ stop = FALSE /\ cancel = FALSE
  /\ claimed = FALSE /\ failing = None /\ failure = FALSE
  /\ phase = "HOME"
  /\ current = "CONNECTING"
  /\ transcript = FALSE /\ limited = FALSE
  /\ queue = <<>> /\ hand = <<>>
  /\ frames = 0 /\ from = 0 /\ padding = FALSE
  /\ notified = 0
  /\ accepted = FALSE
  /\ successful = FALSE
  /\ sent = 0 /\ ended = FALSE /\ pressed = FALSE

-----------------------------------------------------------------------------
(* fail().  The first task to get here claims the failure; only after it   *)
(* has written the message does it set FAILED and stop the capture.        *)

Fail(task) ==
  /\ claimed' = TRUE
  /\ failing' = IF claimed THEN failing ELSE task
  /\ UNCHANGED failure

FailReported ==
  /\ failing # None
  /\ failing' = None
  /\ failure' = TRUE
  /\ bits' = bits \cup {"FAILED"}
  /\ stop' = TRUE
  /\ UNCHANGED <<worker, capture, socket, cancel, claimed, shown, result, upload,
                 audio, request, ghosts>>

-----------------------------------------------------------------------------
(* The button (memo_key in an active phase): OK stops, holding it cancels. *)

PressStop ==
  /\ phase \in Active
  /\ stop' = TRUE
  /\ cancel' \in {cancel, TRUE}
  /\ pressed' = TRUE
  /\ UNCHANGED <<worker, capture, socket, bits, fault, shown, result, upload,
                 audio, request, sent, ended>>

-----------------------------------------------------------------------------
(* The worker.                                                             *)

At(place) == worker = place /\ failing # "worker"

(* To look at what the tasks share and go on, or not.                      *)
Goto(place) ==
  /\ worker' = place
  /\ UNCHANGED <<capture, socket, bits, flags, fault, shown, result, upload, audio,
                 request, ghosts>>

(* OK on the home page, to which the keys of a review lead back.  The page *)
(* shows the session before the portal is stopped and the sound is played. *)
StartSession ==
  /\ At("idle") /\ phase \notin Active
  /\ worker' = "starting"
  /\ phase' = "CONNECTING"
  /\ pressed' = FALSE
  /\ UNCHANGED <<capture, socket, bits, flags, fault, current, result, upload,
                 audio, request, sent, ended>>

(* A mutant: the cancel flag is cleared, the stop flag is not.             *)
ClearFlags_CancelOnly == cancel' = FALSE /\ UNCHANGED stop

ClearFlags == stop' = FALSE /\ cancel' = FALSE

(* The first lines of memo_asr_run, up to the creation of the event group, *)
(* which may fail.                                                         *)
Reset ==
  /\ At("starting")
  /\ ClearFlags
  /\ claimed' = FALSE /\ failing' = None
  /\ current' = "CONNECTING"
  /\ transcript' = FALSE /\ limited' = FALSE /\ packet' = <<>>
  /\ queue' = <<>> /\ hand' = <<>>
  /\ frames' = 0 /\ from' = 0 /\ padding' = FALSE
  /\ bits' = {}
  /\ notified' = 0
  /\ accepted' = FALSE
  /\ successful' = FALSE
  /\ sent' = 0 /\ ended' = FALSE
  /\ capture' = None
  /\ socket' = None
  /\ \/ worker' = "create" /\ failure' = FALSE
     \/ worker' = "cleanup" /\ failure' = TRUE
  /\ UNCHANGED <<phase, pressed>>

CreateCapture ==
  /\ At("create")
  /\ \/ /\ capture' = "init"
        /\ worker' = "await_encoder"
        /\ UNCHANGED fault
     \/ /\ Fail("worker")
        /\ worker' = "cleanup"
        /\ UNCHANGED capture
  /\ UNCHANGED <<socket, bits, flags, shown, result, upload, audio, request,
                 ghosts>>

AwaitEncoder ==
  /\ At("await_encoder")
  /\ bits \cap {"ENCODER_READY", "FAILED"} # {}
  /\ Goto(IF "FAILED" \in bits THEN "cleanup" ELSE "open")

(* The queue, the buffers and the client: any of them may be refused.      *)
OpenSocket ==
  /\ At("open")
  /\ \/ /\ socket' = "running"
        /\ worker' = "connect"
        /\ UNCHANGED fault
     \/ /\ worker' = "cleanup"
        /\ failure' = TRUE
        /\ UNCHANGED <<socket, claimed, failing>>
     \/ /\ Fail("worker")
        /\ worker' = "cleanup"
        /\ UNCHANGED socket
  /\ UNCHANGED <<capture, bits, flags, shown, result, upload, audio, request,
                 ghosts>>

(* Up to 150 waits of 100 ms.                                              *)
AwaitConnection ==
  /\ At("connect")
  /\ \/ /\ "FAILED" \in bits \/ stop
        /\ worker' = "cleanup"
        /\ UNCHANGED fault
     \/ /\ "FAILED" \notin bits /\ ~stop
        /\ "CONNECTED" \in bits
        /\ worker' = "request"
        /\ UNCHANGED fault
     \/ /\ bits \cap {"CONNECTED", "FAILED"} = {}
        /\ Fail("worker")
        /\ worker' = "cleanup"
  /\ UNCHANGED <<capture, socket, bits, flags, shown, result, upload, audio,
                 request, ghosts>>

(* Once the request is out, the capture task may use the microphone.       *)
SendRequest ==
  /\ At("request")
  /\ \/ /\ accepted' = TRUE
        /\ notified' = 1
        /\ worker' = "upload"
        /\ UNCHANGED fault
     \/ /\ Fail("worker")
        /\ worker' = "cleanup"
        /\ UNCHANGED <<accepted, notified>>
  /\ UNCHANGED <<capture, socket, bits, flags, shown, result, upload, audio,
                 successful, ghosts>>

(* The upload loop: look at the events, take a batch, send it; when no     *)
(* batch came in time, look whether the capture task has finished.         *)
UploadCheck ==
  /\ At("upload")
  /\ Goto(IF bits \cap {"FAILED", "FINAL"} # {} \/ cancel
               THEN "verdict" ELSE "receive")

Receive ==
  /\ At("receive")
  /\ \/ /\ queue # <<>>
        /\ hand' = <<Head(queue)>>
        /\ queue' = Tail(queue)
        /\ worker' = "send"
     \/ /\ queue = <<>>
        /\ worker' = "receive_timeout"
        /\ UNCHANGED upload
  /\ UNCHANGED <<capture, socket, bits, flags, fault, shown, result, audio,
                 request, ghosts>>

SendBatch ==
  /\ At("send")
  /\ hand' = <<>>
  /\ \/ /\ sent' = hand[1].to
        /\ worker' = "upload"
        /\ UNCHANGED fault
     \/ /\ Fail("worker")
        /\ worker' = "verdict"
        /\ UNCHANGED sent
  /\ UNCHANGED <<capture, socket, bits, flags, shown, result, queue, audio,
                 request, ended, pressed>>

ReceiveTimeout ==
  /\ At("receive_timeout")
  /\ Goto(IF "CAPTURE_DONE" \in bits THEN "verdict" ELSE "upload")

(* A final result that came already, a failure and a cancellation end the  *)
(* session; otherwise the phase becomes FINISHING.                         *)
Verdict ==
  /\ At("verdict")
  /\ successful' = ("FINAL" \in bits /\ "FAILED" \notin bits)
  /\ IF ~successful' /\ "FAILED" \notin bits /\ ~cancel
     THEN /\ worker' = "finishing"
          /\ current' = "FINISHING" /\ phase' = "FINISHING"
     ELSE worker' = "cleanup" /\ UNCHANGED shown
  /\ UNCHANGED <<capture, socket, bits, flags, fault, result, upload, audio,
                 notified, accepted, ghosts>>

SendEnd ==
  /\ At("finishing")
  /\ worker' = "await_final"
  /\ \/ ended' = TRUE /\ UNCHANGED fault
     \/ Fail("worker") /\ UNCHANGED ended
  /\ UNCHANGED <<capture, socket, bits, flags, shown, result, upload, audio,
                 request, sent, pressed>>

(* A mutant: running out of time is not reported as a failure.             *)
AwaitFinal_SilentTimeout ==
  /\ At("await_final")
  /\ worker' = "cleanup"
  /\ \/ /\ bits \cap {"FINAL", "FAILED"} # {}
        /\ successful' = ("FAILED" \notin bits)
     \/ bits \cap {"FINAL", "FAILED"} = {} /\ UNCHANGED successful
  /\ UNCHANGED <<capture, socket, bits, flags, fault, shown, result, upload,
                 audio, notified, accepted, ghosts>>

(* At most ten seconds.                                                    *)
AwaitFinal ==
  /\ At("await_final")
  /\ worker' = "cleanup"
  /\ \/ /\ bits \cap {"FINAL", "FAILED"} # {}
        /\ successful' = ("FAILED" \notin bits)
        /\ UNCHANGED fault
     \/ /\ bits \cap {"FINAL", "FAILED"} = {}
        /\ Fail("worker")
        /\ UNCHANGED successful
  /\ UNCHANGED <<capture, socket, bits, flags, shown, result, upload, audio,
                 notified, accepted, ghosts>>

(* A mutant: a capture task that waits for its go-ahead is not told.       *)
Cleanup_NoNotify ==
  /\ At("cleanup")
  /\ stop' = TRUE
  /\ worker' = "join"
  /\ UNCHANGED <<capture, socket, bits, cancel, fault, shown, result, upload,
                 audio, request, ghosts>>

(* cleanup: the capture task is told to stop, or, if it still waits for    *)
(* its go-ahead, to give up.                                               *)
Cleanup ==
  /\ At("cleanup")
  /\ stop' = TRUE
  /\ worker' = "join"
  /\ notified' = IF capture # None /\ ~accepted /\ "CAPTURE_DONE" \notin bits
                 THEN 2 ELSE notified
  /\ UNCHANGED <<capture, socket, bits, cancel, fault, shown, result, upload,
                 audio, accepted, successful, ghosts>>

(* A mutant: the wait for CAPTURE_DONE may time out.                       *)
JoinCapture_Impatient ==
  /\ At("join")
  /\ Goto("close")

JoinCapture ==
  /\ At("join")
  /\ capture = None \/ "CAPTURE_DONE" \in bits
  /\ Goto("close")

(* A mutant: the client is stopped without waiting for its task.           *)
CloseSocket_NoWait ==
  /\ At("close")
  /\ socket' = IF socket = "running" THEN "stopped" ELSE socket
  /\ worker' = "free"
  /\ UNCHANGED <<capture, bits, flags, fault, shown, result, upload, audio,
                 request, ghosts>>

(* esp_websocket_client_stop returns when the client's task has ended.     *)
CloseSocket ==
  /\ At("close")
  /\ packet = <<>> /\ failing # "socket"
  /\ socket' = IF socket = "running" THEN "stopped" ELSE socket
  /\ worker' = "free"
  /\ UNCHANGED <<capture, bits, flags, fault, shown, result, upload, audio,
                 request, ghosts>>

(* The queue and the event group go, the replay cache is closed, and the   *)
(* result is shown.                                                        *)
Finish ==
  /\ At("free")
  /\ worker' = "idle"
  /\ phase' = IF transcript THEN "REVIEW" ELSE "ERROR"
  /\ UNCHANGED <<capture, socket, bits, flags, fault, current, result, upload,
                 audio, request, ghosts>>

Worker ==
  \/ StartSession \/ Reset \/ CreateCapture \/ AwaitEncoder \/ OpenSocket
  \/ AwaitConnection \/ SendRequest \/ UploadCheck \/ Receive \/ SendBatch
  \/ ReceiveTimeout \/ Verdict \/ SendEnd \/ AwaitFinal \/ Cleanup \/ JoinCapture
  \/ CloseSocket \/ Finish

-----------------------------------------------------------------------------
(* The capture task.                                                       *)

In(place) == capture = place /\ failing # "capture"

(* A mutant: fail() is not called on the way out.                          *)
GiveUp_Silent == capture' = "done" /\ UNCHANGED fault

GiveUp == Fail("capture") /\ capture' = "done"

(* The encoder and its buffers are allocated before anything else.         *)
OpenEncoder ==
  /\ In("init")
  /\ \/ /\ bits' = bits \cup {"ENCODER_READY"}
        /\ capture' = "await_go"
        /\ UNCHANGED fault
     \/ GiveUp /\ UNCHANGED bits
  /\ UNCHANGED <<worker, socket, flags, shown, result, upload, audio, request,
                 ghosts>>

(* A mutant: any notification is taken for the go-ahead.                   *)
AwaitGo_AnyValue ==
  /\ In("await_go")
  /\ notified # 0
  /\ notified' = 0
  /\ capture' = "headers"
  /\ UNCHANGED <<worker, socket, bits, flags, fault, shown, result, upload, audio,
                 accepted, successful, ghosts>>

AwaitGo ==
  /\ In("await_go")
  /\ notified # 0
  /\ notified' = 0
  /\ capture' = IF notified = 1 THEN "headers" ELSE "done"
  /\ UNCHANGED <<worker, socket, bits, flags, fault, shown, result, upload, audio,
                 accepted, successful, ghosts>>

(* A mutant: a queue that grows.                                           *)
Enqueue_Unbounded(batch) == queue' = Append(queue, batch)

Enqueue(batch) == Len(queue) < QueueSize /\ queue' = Append(queue, batch)

(* The Ogg headers go first, into an empty queue; they carry no frame.     *)
QueueHeaders ==
  /\ In("headers")
  /\ Enqueue([from |-> 0, to |-> 0])
  /\ capture' = "warm_up"
  /\ UNCHANGED <<worker, socket, bits, flags, fault, shown, result, hand, audio,
                 request, ghosts>>

(* Six reads are thrown away, then the page says that it is listening.     *)
WarmUp ==
  /\ In("warm_up")
  /\ \/ /\ current' = "RECORDING"
        /\ capture' = "announce"
        /\ UNCHANGED fault
     \/ GiveUp /\ UNCHANGED current
  /\ UNCHANGED <<worker, socket, bits, flags, phase, result, upload, audio,
                 request, ghosts>>

Announce ==
  /\ In("announce")
  /\ phase' = "RECORDING"
  /\ capture' = "loop"
  /\ UNCHANGED <<worker, socket, bits, flags, fault, current, result, upload,
                 audio, request, ghosts>>

(* The top of the loop decides whether this frame is speech or the last,   *)
(* silent one.                                                             *)
BeginFrame ==
  /\ In("loop")
  /\ padding' = (stop \/ frames >= MaxFrames)
  /\ capture' = "frame"
  /\ UNCHANGED <<worker, socket, bits, flags, fault, shown, result, upload,
                 frames, from, request, ghosts>>

(* Read (or silence), encode, and pack the frame into the chunk.           *)
EncodeFrame ==
  /\ In("frame")
  /\ \/ /\ frames' = IF padding THEN frames ELSE frames + 1
        /\ capture' = IF padding \/ frames' - from = BatchFrames
                      THEN "enqueue" ELSE "loop"
        /\ UNCHANGED fault
     \/ GiveUp /\ UNCHANGED frames
  /\ UNCHANGED <<worker, socket, bits, flags, shown, result, upload, from,
                 padding, request, ghosts>>

(* A mutant: a batch that finds the queue full is thrown away.             *)
QueueBatch_Drops ==
  /\ In("enqueue")
  /\ from' = frames
  /\ capture' = IF padding THEN "done" ELSE "loop"
  /\ phase' = IF padding THEN phase ELSE "RECORDING"
  /\ \/ Enqueue([from |-> from, to |-> frames])
     \/ Len(queue) = QueueSize /\ UNCHANGED queue
  /\ UNCHANGED <<worker, socket, bits, flags, fault, current, result, hand,
                 frames, padding, request, ghosts>>

(* A queue that stays full for 150 ms stops the capture.                   *)
QueueBatch ==
  /\ In("enqueue")
  /\ \/ /\ Enqueue([from |-> from, to |-> frames])
        /\ from' = frames
        /\ capture' = IF padding THEN "done" ELSE "loop"
        /\ phase' = IF padding THEN phase ELSE "RECORDING"
        /\ UNCHANGED fault
     \/ /\ Len(queue) = QueueSize /\ GiveUp
        /\ UNCHANGED <<queue, from, phase>>
  /\ UNCHANGED <<worker, socket, bits, flags, current, result, hand, frames,
                 padding, request, ghosts>>

EndCapture ==
  /\ In("done")
  /\ bits' = bits \cup {"CAPTURE_DONE"}
  /\ capture' = "dead"
  /\ UNCHANGED <<worker, socket, flags, fault, shown, result, upload, audio,
                 request, ghosts>>

Capture ==
  \/ OpenEncoder \/ AwaitGo \/ QueueHeaders \/ WarmUp \/ Announce \/ BeginFrame
  \/ EncodeFrame \/ QueueBatch \/ EndCapture

-----------------------------------------------------------------------------
(* The WebSocket client's task.  Once esp_websocket_client_stop has been   *)
(* called it finishes the event it is handling and takes no further one.   *)

Listening ==
  /\ socket = "running" /\ worker # "close"
  /\ packet = <<>> /\ failing # "socket"

Connected ==
  /\ Listening
  /\ "CONNECTED" \notin bits
  /\ bits' = bits \cup {"CONNECTED"}
  /\ UNCHANGED <<worker, capture, socket, flags, fault, shown, result, upload,
                 audio, request, ghosts>>

(* A connection error (while no final result has come), an error packet or *)
(* a malformed one (at any time).                                          *)
ConnectionFails ==
  /\ Listening
  /\ Fail("socket")
  /\ UNCHANGED <<worker, capture, socket, bits, flags, shown, result, upload,
                 audio, request, ghosts>>

(* receive_packet up to publish(), which reads current_phase and then      *)
(* waits for the application's lock.  A result may have no text; a text of *)
(* more than 240 characters is cut and stops the capture.                  *)
ReceiveResult ==
  /\ Listening
  /\ "CONNECTED" \in bits
  /\ transcript' \in BOOLEAN
  /\ \E over, final \in BOOLEAN, showing \in {current, None} :
       /\ over => transcript'
       /\ over \/ transcript' # transcript => showing = current
       /\ limited' = (limited \/ over)
       /\ stop' = (stop \/ over)
       /\ packet' = <<[showing |-> showing, final |-> final]>>
  /\ UNCHANGED <<worker, capture, socket, bits, cancel, fault, shown, upload,
                 audio, request, ghosts>>

PublishResult ==
  /\ packet # <<>>
  /\ packet' = <<>>
  /\ phase' = IF packet[1].showing = None THEN phase ELSE packet[1].showing
  /\ bits' = IF packet[1].final THEN bits \cup {"FINAL"} ELSE bits
  /\ UNCHANGED <<worker, capture, socket, flags, fault, current, transcript,
                 limited, upload, audio, request, ghosts>>

Socket == Connected \/ ConnectionFails \/ ReceiveResult \/ PublishResult

-----------------------------------------------------------------------------
Next == Worker \/ Capture \/ Socket \/ FailReported \/ PressStop

(* Every task the code starts keeps running, and every wait but the two on *)
(* the capture task has a timeout.  Nothing is assumed of the user, nor of *)
(* the server, nor that a session is ever started.                         *)
Fairness ==
  /\ WF_vars(Worker /\ worker # "idle")
  /\ WF_vars(Capture)
  /\ WF_vars(PublishResult)
  /\ WF_vars(FailReported)

Spec == Init /\ [][Next]_vars /\ Fairness

-----------------------------------------------------------------------------
TypeOK ==
  /\ worker \in {"idle", "starting", "create", "await_encoder", "open", "connect",
                 "request", "upload", "receive", "send", "receive_timeout", "verdict",
                 "finishing", "await_final", "cleanup", "join", "close", "free"}
  /\ capture \in {None, "init", "await_go", "headers", "warm_up", "announce", "loop",
                  "frame", "enqueue", "done", "dead"}
  /\ socket \in {None, "running", "stopped"}
  /\ packet \in Seq([showing : Active \cup {None}, final : BOOLEAN]) /\ Len(packet) <= 1
  /\ bits \subseteq {"CONNECTED", "FINAL", "FAILED", "CAPTURE_DONE", "ENCODER_READY"}
  /\ {stop, cancel, claimed, failure, transcript, limited, padding, accepted,
      successful, ended, pressed} \subseteq BOOLEAN
  /\ failing \in {None, "worker", "capture", "socket"}
  /\ phase \in Active \cup {"HOME", "REVIEW", "ERROR"}
  /\ current \in Active
  /\ queue \in Seq(Batch) /\ Len(queue) <= QueueSize
  /\ hand \in Seq(Batch) /\ Len(hand) <= 1
  /\ notified \in {0, 1, 2}
  /\ frames \in 0 .. MaxFrames
  /\ from \in 0 .. frames
  /\ sent \in 0 .. frames

(* When the worker frees the queue, the receive buffer and the event group *)
(* - and until it makes new ones - no task is left that could use them:    *)
(* the capture task has signalled its end, the client's task is stopped    *)
(* with no event in hand, and nobody is inside fail() (cleanup, 452-476).  *)
NoUseAfterFree ==
  worker \in {"free", "idle", "starting"} =>
    /\ capture \in {None, "dead"}
    /\ socket # "running"
    /\ packet = <<>>
    /\ failing = None

(* A session that is over is no longer on the page: no late result, tick   *)
(* or announcement of another task brings an active phase back, in which   *)
(* every key would go to a session that does not exist (484-490).          *)
PageSettles == worker = "idle" => phase \notin Active

(* "No microphone read or audio upload occurs until the request is         *)
(* accepted" (210-211), whichever way the session is torn down.            *)
MicOnlyAfterRequest ==
  /\ capture \in {"warm_up", "announce", "loop", "frame", "enqueue"} => accepted
  /\ frames > 0 \/ queue # <<>> \/ hand # <<>> => accepted

(* The batches on their way, and the frame up to which the first i of them *)
(* and what was sent before have come.                                     *)
Waiting == hand \o queue
UpTo(i) == IF i = 0 THEN sent ELSE Waiting[i].to

(* Every encoded frame is sent, in the worker's hand, in the queue or in   *)
(* the capture task's chunk, in that order and without a gap, unless a     *)
(* failure has been claimed (229-273, 415-433).                            *)
AudioAccounted ==
  claimed \/ /\ \A i \in 1 .. Len(Waiting) : Waiting[i].from = UpTo(i - 1)
             /\ from = UpTo(Len(Waiting))

(* A running session is told to stop only by its user, by its own failure  *)
(* or by its own text limit, never by something the last session left.     *)
StopHasCause ==
  stop /\ worker \notin {"idle", "starting", "cleanup", "join", "close", "free"} =>
    pressed \/ claimed \/ limited

(* A session that ends without its final result says why: a failure text   *)
(* has been written by then, or the user stopped it ("stopped, the text is *)
(* kept as a draft"), or the text was full (484-490).                      *)
EndExplained ==
  worker = "idle" /\ phase \in {"REVIEW", "ERROR"} /\ ~successful =>
    failure \/ pressed \/ limited

(* The waits without a timeout, on the encoder (331), the go-ahead (213)   *)
(* and CAPTURE_DONE (457), never wait on each other: the encoder's is on a *)
(* task that goes on by itself or has reported a failure, the go-ahead's   *)
(* on a worker that has still to give it or to withdraw it, so the last    *)
(* is on a task that is not waiting.  The send of the headers, whose wait  *)
(* is timed (216), finds an empty queue and never has to use it.           *)
WaitsEnd ==
  /\ worker = "await_encoder" =>
       \/ bits \cap {"ENCODER_READY", "FAILED"} # {}
       \/ capture = "init" \/ failing = "capture"
  /\ capture = "await_go" /\ notified = 0 =>
       \/ worker \in {"await_encoder", "open", "connect", "request"}
       \/ worker = "cleanup" /\ ~accepted
  /\ capture = "headers" => queue = <<>>

(* Whatever the server, the network, the microphone and the user do, a     *)
(* session ends: memo_asr_run returns to the application's worker.         *)
SessionEnds == worker = "starting" ~> worker = "idle"

(* docs/usage.md:99 gives OK the meaning Stop while connecting: a session  *)
(* the user has stopped stays stopped.                                     *)
StopNotLost == pressed /\ worker \notin {"idle", "starting"} => stop

(* docs/architecture.md:37: capture is stopped "instead of silently        *)
(* dropping audio".  When the end of the audio is announced to the server  *)
(* and nothing has failed, no batch is left behind in the queue.           *)
NothingLeftBehind == ended /\ ~claimed => queue = <<>>

=============================================================================
