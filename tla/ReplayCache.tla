----------------------------- MODULE ReplayCache ------------------------------
(***************************************************************************)
(* main/memo_replay.c: the partition that keeps the latest recording, its  *)
(* playback on the speaker and its preview in the browser.                 *)
(*                                                                         *)
(* One action is one call of the partition driver with the code up to the  *)
(* next one.  Every call but the read of the header at boot may fail, and  *)
(* at a failure or a power cut what it was to erase or write may be done   *)
(* in part.  The audio of a recording is a row of units: take k puts unit  *)
(* n of its stream at place n of the partition, so a place holds the       *)
(* number of the take last written there, 0 when erased.  A packet is      *)
(* PacketUnits long and the write buffer BufferUnits, no multiple of it:   *)
(* packets straddle two writes.  The CRC of a stream is the take and how   *)
(* many units of it were fed to the CRC.                                   *)
(*                                                                         *)
(* The callers: the worker records, binds, forgets and plays one after the *)
(* other (pc), with the setup portal closed; while it is open, HTTP        *)
(* handlers, one at a time, remove notes and stream the clip.  During a    *)
(* playback the worker waits for the playback task (task), and the button  *)
(* sets the flag stopped.  The view's text and ids are any.                *)
(***************************************************************************)
EXTENDS Naturals, FiniteSets

CONSTANTS
  Texts, Ids, NoClip,   \* see Clip
  NoText,               \* the hash of no text: memset to zero
  PacketUnits,          \* MEMO_REPLAY_PACKET_BYTES
  BufferUnits,          \* sizeof(buffer)
  FrameSamples,         \* MEMO_REPLAY_FRAME_SAMPLES
  Preskip,              \* MEMO_REPLAY_PRESKIP
  MaxFrames,            \* MEMO_REPLAY_MAX_FRAMES
  TakeBound             \* bound of the model: recordings ever started

ASSUME SizesAssumption ==
  /\ {PacketUnits, BufferUnits, FrameSamples, MaxFrames} \subseteq Nat \ {0}
  /\ PacketUnits <= BufferUnits
  /\ Preskip \in 1 .. FrameSamples - 1
  /\ TakeBound \in Nat
ASSUME ValuesAssumption == NoText \notin Texts /\ Ids \subseteq Nat \ {0}

VARIABLES
  header, data,                 \* Flash: the header, the take at each place
  info, ready, writing,         \* the statics of memo_replay.c
  buffered, written, checksum,
  stopped,
  take,                         \* ghost: number of the latest recording
  pc,                           \* the partition call that comes next
  portal,                       \* "open", "closing" (httpd_stop) or "closed"
  stream,                       \* memo_replay_stream in a handler
  task,                         \* the playback task
  at, played, error,            \* its offset or frame, samples played, result
  rotted,                       \* ghost: has stored audio decayed?
  heard,                        \* ghost: takes heard in this playback
  pressed, late                 \* ghosts: OK pressed in this playback, and
                                \* frames played with the flag set

flash == <<header, data>>
statics == <<info, ready, writing, buffered, written, checksum>>
playback == <<stopped, task, at, played, error, heard, pressed, late>>
web == <<portal, stream>>
vars == <<flash, statics, take, pc, web, playback, rotted>>

MaxSamples == (MaxFrames - 1) * FrameSamples   \* MEMO_REPLAY_MAX_SAMPLES
Places == 1 .. MaxFrames * PacketUnits
Zero == [frames |-> 0, samples |-> 0, take |-> 0, units |-> 0, id |-> 0,
         text |-> NoText]
Blank == NoClip
Erased == [n \in Places |-> 0]
NoStream == [at |-> "none", id |-> 0, sent |-> 0, got |-> {}]

(* The CRC over the stored audio of a clip is the one in its header.       *)
CrcMatches(i) == /\ i.units = i.frames * PacketUnits
                 /\ \A n \in 1 .. i.units : data[n] = i.take

Least(a, b) == IF a < b THEN a ELSE b

(* Mutant: the decoder's pre-skip is played.                               *)
Slice_WithPreskip(i, f) ==
  LET end == Least((f + 1) * FrameSamples, Preskip + i.samples)
  IN IF f < i.frames /\ end > f * FrameSamples THEN end - f * FrameSamples ELSE 0

(* memo_replay_slice: the samples of frame f (from 0) that are audible.    *)
Slice(i, f) ==
  LET start == IF f * FrameSamples < Preskip THEN Preskip ELSE f * FrameSamples
      end == Least((f + 1) * FrameSamples, Preskip + i.samples)
  IN IF f < i.frames /\ end > start THEN end - start ELSE 0

(* esp_partition_erase_range goes from the header's sector upwards: what a *)
(* failure or a power cut in it leaves.                                    *)
PartlyErased ==
  {<<header, data>>} \cup
  {<<Blank, [n \in Places |-> IF n <= k THEN 0 ELSE data[n]]>> : k \in {0} \cup Places}

(* What is on Flash when the call pc stands for does not return ESP_OK.    *)
Interrupted ==
  CASE pc \in {"begin_erase", "forget_erase"} -> PartlyErased
    [] pc \in {"bind_erase", "forget_zero"} -> {<<header, data>>, <<Blank, data>>}
    [] pc \in {"finish_write", "bind_write"} -> {<<header, data>>, <<info, data>>}
    [] OTHER -> {<<header, data>>}

Call(from, to) == pc = from /\ pc' = to

(* The error branch of a call: <<header, data>> is left interrupted.       *)
Fails == \E f \in Interrupted : header' = f[1] /\ data' = f[2]

WorkerMay == pc = "idle" /\ portal = "closed"
-----------------------------------------------------------------------------
Init ==
  /\ header = Blank /\ data = Erased
  /\ info = Zero /\ ready = FALSE /\ writing = FALSE
  /\ buffered = 0 /\ written = 0 /\ checksum = 0
  /\ take = 0
  /\ pc = "idle"
  /\ portal = "closed" /\ stream = NoStream
  /\ stopped = FALSE /\ task = "none" /\ at = 0 /\ played = 0 /\ error = "ok"
  /\ heard = {} /\ pressed = FALSE /\ late = 0
  /\ rotted = FALSE

(* memo_replay_begin up to the erase ...                                   *)
Begin ==
  /\ WorkerMay /\ Call("idle", "begin_erase")
  /\ take < TakeBound /\ take' = take + 1
  /\ ready' = FALSE /\ writing' = FALSE /\ info' = Zero
  /\ buffered' = 0 /\ written' = 0 /\ checksum' = 0
  /\ UNCHANGED <<flash, web, playback, rotted>>

(* Mutant: records although the erase has failed.                          *)
BeginErase_Unchecked ==
  /\ Call("begin_erase", "recording")
  /\ writing' = TRUE /\ rotted' = FALSE
  /\ (header' = Blank /\ data' = Erased) \/ Fails
  /\ UNCHANGED <<info, ready, buffered, written, checksum, take, web, playback>>

(* ... and the erase: without it this recording is not cached.             *)
BeginErase ==
  /\ Call("begin_erase", "recording")
  /\ \/ header' = Blank /\ data' = Erased /\ writing' = TRUE /\ rotted' = FALSE
     \/ Fails /\ UNCHANGED <<writing, rotted>>
  /\ UNCHANGED <<info, ready, buffered, written, checksum, take, web, playback>>

(* Mutant: writes at the start of the audio again.                         *)
Flushed_SamePlace(n) == data' = [m \in Places |-> IF m \in 1 .. n THEN take ELSE data[m]]

(* flush: the partition holds n more units of this take.                   *)
Flushed(n) == data' = [m \in Places |-> IF m \in written + 1 .. written + n
                                        THEN take ELSE data[m]]

(* Mutant: one frame too many.                                             *)
CacheFull_OffByOne(samples) ==
  info.frames > MaxFrames \/ info.samples + samples > MaxSamples

(* The last frame there is room for is one of padding.                     *)
CacheFull(samples) ==
  info.frames >= MaxFrames \/ info.samples + samples > MaxSamples

(* memo_replay_append from the capture task, or from finish's padding      *)
(* (samples = 0).  A full buffer is written in the middle of the packet.   *)
Append(samples) ==
  LET total == buffered + PacketUnits IN
  /\ pc = "recording" /\ writing
  /\ IF CacheFull(samples)
     THEN writing' = FALSE /\ UNCHANGED <<data, info, buffered, written, checksum>>
     ELSE /\ checksum' = checksum + PacketUnits
          /\ \/ /\ IF total < BufferUnits
                   THEN buffered' = total /\ UNCHANGED <<data, written>>
                   ELSE /\ Flushed(BufferUnits)
                        /\ written' = written + BufferUnits
                        /\ buffered' = total - BufferUnits
                /\ info' = [info EXCEPT !.frames = @ + 1, !.samples = @ + samples]
                /\ UNCHANGED writing
             \/ /\ total >= BufferUnits
                /\ writing' = FALSE
                /\ UNCHANGED <<data, info, buffered, written>>
  /\ UNCHANGED <<header, ready, take, pc, web, playback, rotted>>

(* memo_replay_finish up to the header: the rest of the buffer is written, *)
(* and samples that no frame can give back are not announced.              *)
Finish(t) ==
  /\ pc = "recording"
  /\ writing' = FALSE
  /\ \/ /\ writing /\ info.frames > 0 /\ info.samples > 0
        /\ Flushed(buffered)
        /\ written' = written + buffered /\ buffered' = 0
        /\ info' = [info EXCEPT
             !.samples = Least(@, info.frames * FrameSamples - Preskip),
             !.take = take, !.units = checksum, !.text = t]
        /\ pc' = "finish_write"
     \/ /\ \/ ~writing \/ info.frames = 0 \/ info.samples = 0 \/ buffered > 0
        /\ pc' = "idle"
        /\ UNCHANGED <<data, info, buffered, written>>
  /\ UNCHANGED <<header, ready, checksum, take, web, playback, rotted>>

(* commit_header, at the end of finish and of bind.                        *)
CommitHeader ==
  /\ pc \in {"finish_write", "bind_write"} /\ pc' = "idle"
  /\ \/ header' = info /\ ready' = TRUE /\ UNCHANGED data
     \/ Fails /\ ready' = FALSE
  /\ UNCHANGED <<info, writing, buffered, written, checksum, take, web, playback,
                 rotted>>

(* Mutant: still offers the clip while it is written again.                *)
Bind_StaysReady(i) ==
  /\ WorkerMay /\ Call("idle", "bind_erase")
  /\ ready /\ info.id = 0
  /\ info' = [info EXCEPT !.id = i]
  /\ UNCHANGED <<flash, ready, writing, buffered, written, checksum, take, web, playback,
                 rotted>>

(* save_current found that the clip is the one of the text just saved as   *)
(* note i: memo_replay_bind up to the erase of the header's sector ...     *)
Bind(i) ==
  /\ WorkerMay /\ Call("idle", "bind_erase")
  /\ ready /\ info.id = 0
  /\ ready' = FALSE
  /\ info' = [info EXCEPT !.id = i]
  /\ UNCHANGED <<flash, writing, buffered, written, checksum, take, web, playback,
                 rotted>>

(* ... and that erase.                                                     *)
BindErase ==
  /\ pc = "bind_erase"
  /\ \/ header' = Blank /\ UNCHANGED data /\ pc' = "bind_write"
     \/ Fails /\ pc' = "idle"
  /\ UNCHANGED <<statics, take, web, playback, rotted>>

(* remove_record, by the worker or by a handler of the portal, calls       *)
(* memo_replay_forget: invalidate the header, whose error is ignored ...   *)
Forget(i) ==
  /\ Call("idle", "forget_zero") /\ stream = NoStream
  /\ ~writing /\ info.id = i
  /\ ready' = FALSE
  /\ UNCHANGED <<flash, info, writing, buffered, written, checksum, take, web,
                 playback, rotted>>

ForgetZero ==
  /\ Call("forget_zero", "forget_erase")
  /\ header' \in {Blank, header}
  /\ UNCHANGED <<data, statics, take, web, playback, rotted>>

(* ... and erase everything, whose error is only logged.                   *)
ForgetErase ==
  /\ Call("forget_erase", "idle")
  /\ \/ header' = Blank /\ data' = Erased
     \/ Fails
  /\ UNCHANGED <<statics, take, web, playback, rotted>>

(* A reset at any time, and memo_replay_init.                              *)
PowerCut ==
  /\ Fails
  /\ info' = IF header' = Blank THEN Zero ELSE header'
  /\ ready' = (header' # Blank)
  /\ writing' = FALSE /\ buffered' = 0 /\ written' = 0 /\ checksum' = 0
  /\ pc' = "idle"
  /\ portal' = "closed" /\ stream' = NoStream
  /\ stopped' = FALSE /\ task' = "none" /\ at' = 0 /\ played' = 0 /\ error' = "ok"
  /\ heard' = {} /\ pressed' = FALSE /\ late' = 0
  /\ UNCHANGED <<take, rotted>>

(* Stored audio decays while nobody reads it: what the CRC is for.         *)
Decay ==
  /\ pc = "idle" /\ stream = NoStream /\ ~rotted
  /\ \E n \in Places : data' = [data EXCEPT ![n] = 0]
  /\ rotted' = TRUE
  /\ UNCHANGED <<header, statics, take, pc, web, playback>>
-----------------------------------------------------------------------------
(* The setup portal: leaving it waits in httpd_stop for a handler that is  *)
(* running; until then one more request may be served.                     *)
OpenPortal ==
  /\ WorkerMay /\ portal' = "open"
  /\ UNCHANGED <<flash, statics, take, pc, stream, playback, rotted>>

ClosePortal ==
  /\ portal = "open" /\ portal' = "closing"
  /\ UNCHANGED <<flash, statics, take, pc, stream, playback, rotted>>

(* Mutant: does not wait for the handler.                                  *)
PortalClosed_NoWait ==
  /\ portal = "closing" /\ portal' = "closed"
  /\ UNCHANGED <<flash, statics, take, pc, stream, playback, rotted>>

PortalClosed ==
  /\ portal = "closing" /\ stream = NoStream /\ pc = "idle"
  /\ portal' = "closed"
  /\ UNCHANGED <<flash, statics, take, pc, stream, playback, rotted>>

SavedInfo(i) == ready /\ ~writing /\ info.id = i

(* audio_page for note i: memo_replay_export reads the audio twice, first  *)
(* to compare its CRC, then to send it.                                    *)
StreamStart(i) ==
  /\ portal # "closed" /\ pc = "idle" /\ stream = NoStream
  /\ SavedInfo(i)
  /\ stream' = [at |-> "verify", id |-> i, sent |-> 0, got |-> {}]
  /\ UNCHANGED <<flash, statics, take, pc, portal, playback, rotted>>

StreamVerify ==
  /\ stream.at = "verify"
  /\ stream' \in {NoStream} \cup
       (IF CrcMatches(info) THEN {[stream EXCEPT !.at = "send"]} ELSE {})
  /\ UNCHANGED <<flash, statics, take, pc, portal, playback, rotted>>

Packet(f) == {data[n] : n \in f * PacketUnits + 1 .. (f + 1) * PacketUnits}

(* Whole trailing padding frames are left out of the stream.               *)
ExportFrames(i) == (i.samples + Preskip + FrameSamples - 1) \div FrameSamples

(* The next packet, or the end of the response; a slow or vanished client  *)
(* ends it early, which the browser sees as an error.                      *)
StreamSend ==
  /\ stream.at = "send"
  /\ \/ /\ stream.sent < ExportFrames(info)
        /\ stream' = [stream EXCEPT !.sent = @ + 1,
                                    !.got = @ \cup Packet(stream.sent)]
     \/ stream' = NoStream
  /\ UNCHANGED <<flash, statics, take, pc, portal, playback, rotted>>
-----------------------------------------------------------------------------
(* process, a double OK: the page shows MEMO_PLAYBACK from here on, and OK *)
(* then goes to memo_replay_stop.                                          *)
Play ==
  /\ WorkerMay /\ ready
  /\ pc' = "play_shown"
  /\ UNCHANGED <<flash, statics, take, web, playback, rotted>>

(* Mutant: starts with the flag as an earlier playback has left it.        *)
PlayStart_StaleFlag ==
  /\ pc = "play_shown"
  /\ \/ task' = "verify" /\ at' = 0 /\ pc' = "playing" /\ UNCHANGED error
     \/ pc' = "play_over" /\ error' = "no_mem" /\ UNCHANGED <<task, at>>
  /\ UNCHANGED <<flash, statics, take, web, stopped, played, heard, pressed, late, rotted>>

(* memo_replay_play: clear the flag and create the task, or find no memory *)
(* for the semaphore (before the clearing) or the task (after it).         *)
PlayStart ==
  /\ pc = "play_shown"
  /\ \/ stopped' = FALSE /\ task' = "verify" /\ at' = 0 /\ pc' = "playing"
        /\ UNCHANGED error
     \/ stopped' \in {stopped, FALSE} /\ pc' = "play_over" /\ error' = "no_mem"
        /\ UNCHANGED <<task, at>>
  /\ UNCHANGED <<flash, statics, take, web, played, heard, pressed, late, rotted>>

(* memo_key while the page shows MEMO_PLAYBACK.                            *)
PressStop ==
  /\ pc \in {"play_shown", "playing", "play_over"}
  /\ stopped' = TRUE /\ pressed' = TRUE
  /\ UNCHANGED <<flash, statics, take, pc, web, task, at, played, error, heard, late,
                 rotted>>

Task(from) == task = from /\ UNCHANGED <<flash, take, pc, web, rotted, pressed, stopped>>

(* verify_audio, chunk by chunk; the flag is looked at before each.        *)
Verify ==
  /\ Task("verify")
  /\ \/ stopped /\ task' = "verify_failed" /\ error' = "stopped" /\ UNCHANGED at
     \/ ~stopped /\ task' = "verify_failed" /\ error' = "fail" /\ UNCHANGED at
     \/ ~stopped /\ at < info.units /\ at' = Least(at + BufferUnits, info.units)
        /\ UNCHANGED <<task, error>>
     \/ at = info.units /\ at' = 0 /\ UNCHANGED error
        /\ IF CrcMatches(info) THEN task' = "frame" ELSE task' = "crc_failed"
  /\ UNCHANGED <<statics, played, heard, late>>

(* Mutant: ends without giving the worker's semaphore.                     *)
VerifyFailed_NoSignal ==
  /\ Task(task) /\ task \in {"verify_failed", "crc_failed"}
  /\ task' = "none"
  /\ ready' = (ready /\ stopped)
  /\ UNCHANGED <<info, writing, buffered, written, checksum, at, played, error, heard,
                 late>>

(* Unless it was stopped, a clip that does not verify is withdrawn.        *)
VerifyFailed ==
  /\ Task(task) /\ task \in {"verify_failed", "crc_failed"}
  /\ task' = "end"
  /\ error' = IF task = "crc_failed" THEN "crc" ELSE error
  /\ ready' = (ready /\ stopped)
  /\ UNCHANGED <<info, writing, buffered, written, checksum, at, played, heard, late>>

(* The head of the loop over the frames; before the first, the decoder is  *)
(* opened, which may find no memory.                                       *)
Frame ==
  /\ Task("frame")
  /\ \/ task' = (IF at < info.frames /\ ~stopped THEN "write" ELSE "drain")
        /\ UNCHANGED error
     \/ at = 0 /\ task' = "end" /\ error' = "no_mem"
  /\ UNCHANGED <<statics, at, played, heard, late>>

(* Read, decode and write one frame.                                       *)
WriteFrame ==
  /\ Task("write")
  /\ \/ /\ Slice(info, at) > 0
        /\ played' = played + Slice(info, at)
        /\ heard' = heard \cup Packet(at)
        /\ late' = IF stopped THEN late + 1 ELSE late
        /\ at' = at + 1
        /\ task' = "frame" /\ UNCHANGED error
     \/ /\ \/ Slice(info, at) = 0 /\ UNCHANGED error
           \/ error' = "fail"
        /\ task' = "drain"
        /\ UNCHANGED <<at, played, heard, late>>
  /\ UNCHANGED statics

(* Silence, and the end of the task: the worker's semaphore is given.      *)
TaskEnds ==
  /\ task \in {"drain", "end"}
  /\ task' = "none" /\ pc' = "play_over"
  /\ error' = IF error = "ok" /\ stopped THEN "stopped" ELSE error
  /\ UNCHANGED <<flash, statics, take, web, stopped, at, played, heard, pressed, late,
                 rotted>>

(* The worker puts the page back and shows how the playback ended; the     *)
(* variables of the job are gone, the flag is not.                         *)
PlayOver ==
  /\ Call("play_over", "idle")
  /\ at' = 0 /\ played' = 0 /\ error' = "ok"
  /\ heard' = {} /\ pressed' = FALSE /\ late' = 0
  /\ UNCHANGED <<flash, statics, take, web, stopped, task, rotted>>

Playback == Verify \/ VerifyFailed \/ Frame \/ WriteFrame \/ TaskEnds
Recording == \/ BeginErase \/ CommitHeader
             \/ \E s \in {0, FrameSamples} : Append(s)
             \/ \E t \in Texts : Finish(t)
Notes == \/ \E i \in Ids : Bind(i) \/ Forget(i)
         \/ BindErase \/ ForgetZero \/ ForgetErase
Web == \/ OpenPortal \/ ClosePortal \/ PortalClosed
       \/ \E i \in Ids : StreamStart(i)
       \/ StreamVerify \/ StreamSend
Next == Begin \/ Recording \/ Notes \/ Web \/ Play \/ PlayStart \/ PressStop
          \/ Playback \/ PlayOver \/ PowerCut \/ Decay

(* FreeRTOS runs a ready task; the driver's calls and the audio writes     *)
(* return.  Nothing is assumed of the user or of the browser.              *)
Fairness == WF_vars(Playback) /\ WF_vars(PlayStart) /\ WF_vars(PlayOver)
Spec == Init /\ [][Next]_vars /\ Fairness
-----------------------------------------------------------------------------
Header == [frames : 1 .. MaxFrames, samples : Nat \ {0}, take : Nat \ {0},
           units : Nat \ {0}, id : Ids \cup {0}, text : Texts]
Clips == [take : Nat, text : Texts, id : Ids \cup {0}]
ASSUME NoClipAssumption == NoClip \notin Header \cup Clips
Calls == {"begin_erase", "finish_write", "bind_erase", "bind_write", "forget_zero",
          "forget_erase"}

(* The variables have the shapes the code gives them.                      *)
TypeOK ==
  /\ header \in Header \cup {Blank}
  /\ data \in [Places -> Nat]
  /\ info \in [frames : 0 .. MaxFrames, samples : Nat, take : Nat, units : Nat,
               id : Ids \cup {0}, text : Texts \cup {NoText}]
  /\ {ready, writing, stopped, rotted, pressed} \subseteq BOOLEAN
  /\ {buffered, written, checksum, take, at, played, late} \subseteq Nat
  /\ pc \in Calls \cup {"idle", "recording", "play_shown", "playing", "play_over"}
  /\ portal \in {"open", "closing", "closed"}
  /\ stream \in [at : {"none", "verify", "send"}, id : Ids \cup {0}, sent : Nat,
                 got : SUBSET Nat]
  /\ task \in {"none", "verify", "verify_failed", "crc_failed", "frame", "write",
               "drain", "end"}
  /\ error \in {"ok", "stopped", "fail", "crc", "no_mem"}
  /\ heard \subseteq Nat

(* docs/usage.md: "Incomplete caches are not replayed."  A header that can *)
(* be read, now or after any reset, has all the audio it announces behind  *)
(* it, all of one recording, whichever calls failed on the way; and what   *)
(* is offered is what a reset would find.                                  *)
ClipComplete ==
  /\ header # Blank /\ ~rotted => CrcMatches(header)
  /\ ready => header = info

(* Flash can only be written where it is erased: no page is written over   *)
(* what an earlier recording, or an erase that failed, left there.         *)
WritesErasedFlash ==
  /\ writing => header = Blank /\ \A n \in Places : n > written => data[n] = 0
  /\ pc \in {"finish_write", "bind_write"} => header = Blank

(* The speaker plays the recording that is offered and no other, whatever  *)
(* Flash has done to it: verification precedes the first frame.  And when  *)
(* a playback reports success it has played every sample of the clip, none *)
(* of the pre-skip and none of the padding.                                *)
PlaysTheRecording ==
  /\ heard \subseteq {info.take}
  /\ pc = "play_over" /\ error = "ok" => played = info.samples

(* docs/usage.md: "OK stops".  Once the playback task can see the flag, at *)
(* most the frame it has in hand is played.  And a playback that says it   *)
(* was stopped was stopped by a press of its own, not by one that an       *)
(* earlier playback has left behind.                                       *)
StopObeyed ==
  /\ late <= 1
  /\ error = "stopped" => pressed

(* memo_replay.h, 18-20: leaving setup waits for the handler before the    *)
(* clip can be recorded over, bound or played.  While it is streamed, the  *)
(* clip stays that of the note asked for, and all packets are of one take. *)
ServedUndisturbed ==
  stream # NoStream => /\ pc = "idle" /\ SavedInfo(stream.id)
                       /\ stream.got \subseteq {info.take}

(* The worker gets the button back: a playback ends, stopped or not.       *)
PlaybackEnds == pc = "play_shown" ~> pc = "idle"
-----------------------------------------------------------------------------
ClipOf(i) == IF i = Blank \/ i.take = 0 THEN NoClip
             ELSE [take |-> i.take, text |-> i.text, id |-> i.id]

Promise == INSTANCE Clip WITH
  takes <- take,
  held <- ClipOf(info),
  durable <- ClipOf(header),
  offered <- IF ready THEN ClipOf(info) ELSE NoClip

(* The cache keeps Clip's promise, through failures and power cuts: one    *)
(* clip or none, with the text of its own recording, bound at most once,   *)
(* never back once it has been erased.                                     *)
KeepsPromise == Promise!Spec
=============================================================================
