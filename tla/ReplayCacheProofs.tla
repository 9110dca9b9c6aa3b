-------------------------- MODULE ReplayCacheProofs --------------------------
(***************************************************************************)
(* Theorems about ReplayCache, for any partition, packet and buffer size,  *)
(* any number of recordings and notes: what is offered is one whole        *)
(* recording, its playback and its preview are of it, and the cache        *)
(* implements Clip.                                                        *)
(***************************************************************************)
EXTENDS ReplayCache, TLAPS

Infos == [frames : 0 .. MaxFrames, samples : Nat, take : Nat, units : Nat,
          id : Ids \cup {0}, text : Texts \cup {NoText}]
Streams == [at : {"none", "verify", "send"}, id : Ids \cup {0}, sent : Nat, got : SUBSET Nat]
Busy == Calls \cup {"recording"}
Shown == {"play_shown", "playing", "play_over"}
Tasks == {"verify", "verify_failed", "crc_failed", "frame", "write", "drain", "end"}

-----------------------------------------------------------------------------
(* Who runs when: a recording, a note's calls, a playback and a preview    *)
(* exclude each other.                                                     *)
Control ==
    /\ pc \in Busy \cup Shown \cup {"idle"}
    /\ portal \in {"open", "closing", "closed"}
    /\ writing \in BOOLEAN /\ ready \in BOOLEAN
    /\ writing => pc = "recording"
    /\ pc \in Busy => ~ready
    /\ task \in Tasks \cup {"none"}
    /\ pc = "playing" => task # "none"
    /\ task # "none" => pc = "playing"
    /\ stream # NoStream => pc = "idle" /\ portal # "closed" /\ ready

(* What an interrupted or failed call leaves on Flash.                     *)
LEMMA Leaves ==
    ASSUME Fails
    PROVE  \/ header' = header /\ data' = data
           \/ /\ pc \in {"begin_erase", "forget_erase"}
              /\ header' = Blank
              /\ \E k \in {0} \cup Places :
                    data' = [n \in Places |-> IF n <= k THEN 0 ELSE data[n]]
           \/ pc \in {"bind_erase", "forget_zero"} /\ header' = Blank /\ data' = data
           \/ pc \in {"finish_write", "bind_write"} /\ header' = info /\ data' = data
<1>1. PICK f \in Interrupted : header' = f[1] /\ data' = f[2]
  BY DEF Fails
<1>2. CASE pc \in {"begin_erase", "forget_erase"}
  <2>1. f \in PartlyErased
    BY <1>1, <1>2, ZenonT(30) DEF Interrupted
  <2>2. CASE f = <<header, data>>
    BY <1>1, <2>2
  <2>3. CASE f \in {<<Blank, [n \in Places |-> IF n <= k THEN 0 ELSE data[n]]>> :
                    k \in {0} \cup Places}
    <3>1. PICK k \in {0} \cup Places :
             f = <<Blank, [n \in Places |-> IF n <= k THEN 0 ELSE data[n]]>>
      BY <2>3
    <3>2. header' = Blank /\ data' = [n \in Places |-> IF n <= k THEN 0 ELSE data[n]]
      BY <1>1, <3>1
    <3> QED BY <1>2, <3>2
  <2> QED BY <2>1, <2>2, <2>3 DEF PartlyErased
<1>3. CASE pc \in {"bind_erase", "forget_zero"}
  <2>1. f \in {<<header, data>>, <<Blank, data>>}
    BY <1>1, <1>3, ZenonT(30) DEF Interrupted
  <2> QED BY <1>1, <1>3, <2>1
<1>4. CASE pc \in {"finish_write", "bind_write"}
  <2>1. f \in {<<header, data>>, <<info, data>>}
    BY <1>1, <1>4, ZenonT(30) DEF Interrupted
  <2> QED BY <1>1, <1>4, <2>1
<1>5. CASE pc \notin {"begin_erase", "forget_erase", "bind_erase", "forget_zero",
                      "finish_write", "bind_write"}
  <2>1. f = <<header, data>>
    BY <1>1, <1>5, ZenonT(30) DEF Interrupted
  <2> QED BY <1>1, <2>1
<1> QED BY <1>2, <1>3, <1>4, <1>5

(* They still do after every step.                                         *)
LEMMA ControlStep ==
    ASSUME Control, Next
    PROVE  Control'
<1>1. CASE Begin \/ Recording
  <2>1. stream = NoStream /\ task = "none" /\ UNCHANGED <<web, playback>> /\ pc \notin Shown
        /\ portal \in {"open", "closing", "closed"}
    BY <1>1, ZenonT(60) DEF Begin, Recording, BeginErase, CommitHeader, Append, Finish, WorkerMay,
       Call, Control, Busy, Calls, Shown
  <2>2. /\ pc' \in {"begin_erase", "recording", "finish_write", "idle"}
        /\ writing' \in BOOLEAN /\ ready' \in BOOLEAN
        /\ writing' => pc' = "recording"
        /\ pc' # "idle" => ~ready'
    <3>1. CASE Begin \/ CommitHeader
      <4>1. CASE Begin
        BY <4>1 DEF Begin, Call
      <4>2. CASE CommitHeader
        <5>1. writing' = writing /\ pc' = "idle" /\ pc # "recording" /\ ready' \in {TRUE, FALSE}
          BY <4>2, ZenonT(60) DEF CommitHeader
        <5> QED BY <5>1, ZenonT(60) DEF Control
      <4> QED BY <3>1, <4>1, <4>2
    <3>2. CASE BeginErase
      BY <3>2, ZenonT(60) DEF BeginErase, Call, Control, Busy, Calls
    <3>3. CASE \E s \in {0, FrameSamples} : Append(s)
      <4>1. UNCHANGED <<pc, ready>> /\ pc = "recording" /\ (writing' = FALSE \/ writing' = writing)
        BY <3>3, ZenonT(60) DEF Append
      <4> QED BY <4>1, ZenonT(60) DEF Control, Busy
    <3>4. CASE \E t \in Texts : Finish(t)
      <4>1. ready' = ready /\ pc = "recording" /\ writing' = FALSE
            /\ (pc' = "finish_write" \/ pc' = "idle")
        BY <3>4, ZenonT(60) DEF Finish
      <4> QED BY <4>1, ZenonT(60) DEF Control, Busy
    <3> QED BY <1>1, <3>1, <3>2, <3>3, <3>4 DEF Recording
  <2> QED BY <2>1, <2>2, ZenonT(60) DEF Control, Busy, Calls, web, playback
<1>2. CASE Notes
  <2>1. stream = NoStream /\ task = "none" /\ UNCHANGED <<web, playback>> /\ pc # "recording"
        /\ portal \in {"open", "closing", "closed"}
    BY <1>2, ZenonT(60) DEF Notes, Bind, BindErase, Forget, ForgetZero, ForgetErase, WorkerMay,
       Call, Control, Busy, Calls, Shown
  <2>2. /\ pc' \in {"bind_erase", "bind_write", "forget_zero", "forget_erase", "idle"}
        /\ writing' = writing /\ ready' \in BOOLEAN
        /\ pc' # "idle" => ~ready'
    <3>1. CASE \E i \in Ids : Bind(i) \/ Forget(i)
      BY <3>1, ZenonT(60) DEF Bind, Forget, Call
    <3>2. CASE BindErase \/ ForgetZero \/ ForgetErase
      <4>1. UNCHANGED <<writing, ready>> /\ pc \in Busy
        BY <3>2, ZenonT(60) DEF BindErase, ForgetZero, ForgetErase, Call, statics, Busy, Calls
      <4>2. pc' \in {"bind_write", "forget_erase", "idle"}
        BY <3>2, ZenonT(60) DEF BindErase, ForgetZero, ForgetErase, Call
      <4> QED BY <4>1, <4>2, ZenonT(60) DEF Control
    <3> QED BY <1>2, <3>1, <3>2 DEF Notes
  <2> QED BY <2>1, <2>2, ZenonT(60) DEF Control, Busy, Calls, web, playback
<1>3. CASE Web
  <2>1. UNCHANGED <<pc, writing, ready, task>>
    BY <1>3, ZenonT(60) DEF Web, OpenPortal, ClosePortal, PortalClosed, StreamStart, StreamVerify,
       StreamSend, statics, playback
  <2>2. portal' \in {"open", "closing", "closed"}
    BY <1>3, ZenonT(60) DEF Web, OpenPortal, ClosePortal, PortalClosed, StreamStart, StreamVerify,
       StreamSend, Control
  <2>3. stream' # NoStream => pc = "idle" /\ portal' # "closed" /\ ready
    <3>1. CASE OpenPortal \/ ClosePortal \/ PortalClosed
      BY <3>1, ZenonT(60) DEF OpenPortal, ClosePortal, PortalClosed, WorkerMay, Control
    <3>2. CASE \E i \in Ids : StreamStart(i)
      BY <3>2, ZenonT(60) DEF StreamStart, SavedInfo
    <3>3. CASE StreamVerify \/ StreamSend
      <4>1. stream.at \in {"verify", "send"} /\ portal' = portal
        BY <3>3, ZenonT(60) DEF StreamVerify, StreamSend
      <4>2. stream # NoStream
        BY <4>1 DEF NoStream
      <4> QED BY <4>1, <4>2 DEF Control
    <3> QED BY <1>3, <3>1, <3>2, <3>3 DEF Web
  <2> QED BY <2>1, <2>2, <2>3, ZenonT(60) DEF Control
<1>4. CASE Play \/ PlayStart \/ PressStop \/ Playback \/ PlayOver
  <2>1. UNCHANGED <<web, writing>> /\ stream = NoStream /\ portal \in {"open", "closing", "closed"}
        /\ pc # "recording"
    BY <1>4, ZenonT(60) DEF Play, PlayStart, PressStop, Playback, Verify, VerifyFailed, Frame,
       WriteFrame, TaskEnds, Task, PlayOver, WorkerMay, Call, Control, statics, Tasks, Shown
  <2>2. /\ pc' \in Shown \cup {"idle"}
        /\ task' \in Tasks \cup {"none"}
        /\ pc' = "playing" => task' # "none"
        /\ task' # "none" => pc' = "playing"
    BY <1>4, ZenonT(60) DEF Play, PlayStart, PressStop, Playback, Verify, VerifyFailed, Frame,
       WriteFrame, TaskEnds, Task, PlayOver, WorkerMay, Call, Control, playback, Tasks, Shown
  <2>3. ready' \in BOOLEAN
    BY <1>4, ZenonT(60) DEF Play, PlayStart, PressStop, Playback, Verify, VerifyFailed, Frame,
       WriteFrame, TaskEnds, PlayOver, Control, statics
  <2> QED BY <2>1, <2>2, <2>3, ZenonT(60) DEF Control, Busy, Calls, Shown, web
<1>5. CASE PowerCut
  BY <1>5, ZenonT(60) DEF PowerCut, Control, Busy, Calls, Shown
<1>6. CASE Decay
  BY <1>6, ZenonT(60) DEF Decay, Control, statics, web, playback
<1> QED BY <1>1, <1>2, <1>3, <1>4, <1>5, <1>6 DEF Next

-----------------------------------------------------------------------------
(* A header and the audio it announces: all frames have their packet, and  *)
(* its samples are in them behind the pre-skip.                            *)
Fits(i) == /\ i \in Header
           /\ i.units = i.frames * PacketUnits
           /\ i.samples + Preskip <= i.frames * FrameSamples

(* While a recording is written the partition holds what was flushed of it *)
(* and nothing else, and the CRC has seen this and the buffer.             *)
Row == /\ header = Blank
       /\ buffered < BufferUnits
       /\ written + buffered = checksum
       /\ checksum = info.frames * PacketUnits
       /\ info.samples <= MaxSamples
       /\ \A n \in Places : data[n] = IF n <= written THEN take ELSE 0

Shape == /\ header \in Header \cup {Blank}
         /\ data \in [Places -> Nat]
         /\ info \in Infos
         /\ rotted \in BOOLEAN
         /\ buffered \in Nat /\ written \in Nat /\ checksum \in Nat /\ take \in Nat

Cache == /\ Shape
         /\ header # Blank => Fits(header)
         /\ header # Blank /\ ~rotted => CrcMatches(header)
         /\ ready => header = info /\ header # Blank
         /\ pc \in {"begin_erase", "recording"} => take > 0 /\ info.take = 0 /\ info.id = 0
         /\ pc = "begin_erase" => info = Zero /\ buffered = 0 /\ written = 0 /\ checksum = 0
         /\ writing => Row
         /\ pc = "bind_erase" => /\ Fits(info) /\ header # Blank
                                 /\ header = [info EXCEPT !.id = 0]
         /\ pc \in {"finish_write", "bind_write"} =>
               /\ header = Blank /\ Fits(info)
               /\ ~rotted => CrcMatches(info)

(* Products are monotonic.                                                 *)
LEMMA Monotonic == ASSUME NEW a \in Nat, NEW b \in Nat, NEW c \in Nat, a <= b
                   PROVE  a * c <= b * c
<1>1. PICK d \in Nat : b = a + d
  <2>1. b - a \in Nat /\ b = a + (b - a)
    BY SMT
  <2> QED BY <2>1
<1>2. b * c = a * c + d * c
  BY <1>1, SMT
<1>3. d * c \in Nat /\ a * c \in Nat
  BY SMT
<1> QED BY <1>2, <1>3, SMT

(* So are the places of the frames.                                        *)
LEMMA NextFrame == ASSUME NEW f \in Nat, NEW c \in Nat
                   PROVE  (f + 1) * c = f * c + c /\ f * c \in Nat
BY SMT

(* The sizes of the partition's parts.                                     *)
LEMMA Sizes == /\ PacketUnits \in Nat \ {0} /\ BufferUnits \in Nat \ {0}
               /\ FrameSamples \in Nat \ {0} /\ MaxFrames \in Nat \ {0}
               /\ PacketUnits <= BufferUnits
               /\ Preskip \in Nat \ {0} /\ Preskip < FrameSamples
               /\ MaxFrames * PacketUnits \in Nat /\ MaxSamples \in Nat
<1>1. /\ PacketUnits \in Nat \ {0} /\ BufferUnits \in Nat \ {0}
      /\ FrameSamples \in Nat \ {0} /\ MaxFrames \in Nat \ {0}
      /\ PacketUnits <= BufferUnits
  BY SizesAssumption
<1>2. Preskip \in Nat \ {0} /\ Preskip < FrameSamples
  BY <1>1, SizesAssumption, SMT
<1>3. MaxFrames * PacketUnits \in Nat
  BY <1>1, SMT
<1>4. MaxFrames - 1 \in Nat
  BY <1>1, SMT
<1>5. MaxSamples \in Nat
  BY <1>1, <1>4, NextFrame DEF MaxSamples
<1> QED BY <1>1, <1>2, <1>3, <1>5

(* A clip's audio depends on nothing else: its id may change.              *)
LEMMA SameAudio ==
    ASSUME NEW i, NEW id \in Ids \cup {0}, Fits(i)
    PROVE  /\ Fits([i EXCEPT !.id = id])
           /\ CrcMatches([i EXCEPT !.id = id]) <=> CrcMatches(i)
<1>1. [i EXCEPT !.id = id] \in Header
  BY DEF Fits, Header
<1>2. /\ [i EXCEPT !.id = id].frames = i.frames /\ [i EXCEPT !.id = id].units = i.units
      /\ [i EXCEPT !.id = id].samples = i.samples /\ [i EXCEPT !.id = id].take = i.take
  BY DEF Fits, Header
<1> QED BY <1>1, <1>2 DEF Fits, CrcMatches

(* A step away from the partition keeps it.                                *)
LEMMA CacheApart ==
    ASSUME Cache, UNCHANGED <<flash, info, buffered, written, checksum, take, writing, rotted>>,
           ready' => ready, pc' \in Shown \cup {"idle", pc}
    PROVE  Cache'
<1>1. pc' \in Busy => pc' = pc
  BY DEF Busy, Calls, Shown
<1> QED BY <1>1, ZenonT(60) DEF Cache, Shape, Row, Fits, CrcMatches, flash, Busy, Calls

(* A write of n more units leaves the places after them erased.            *)
LEMMA FlushedRow ==
    ASSUME Shape, NEW n \in Nat, Flushed(n),
           \A m \in Places : data[m] = IF m <= written THEN take ELSE 0
    PROVE  /\ data' \in [Places -> Nat]
           /\ \A m \in Places : data'[m] = IF m <= written + n THEN take ELSE 0
<1>1. written \in Nat /\ take \in Nat
  BY DEF Shape
<1>2. Places \subseteq Nat \ {0}
  BY Sizes, SMT DEF Places
<1>3. ASSUME NEW m \in Places
      PROVE  data'[m] = IF m <= written + n THEN take ELSE 0
  <2>1. data'[m] = IF m \in written + 1 .. written + n THEN take ELSE data[m]
    BY DEF Flushed
  <2>2. m \in Nat \ {0}
    BY <1>2
  <2> QED BY <1>1, <2>1, <2>2, SMT
<1>4. data' \in [Places -> Nat]
  BY <1>1, ZenonT(30) DEF Flushed, Shape
<1> QED BY <1>3, <1>4

(* A packet is added to a recording, or the recording given up.            *)
LEMMA AppendCache ==
    ASSUME Cache, NEW samples \in {0, FrameSamples}, Append(samples)
    PROVE  Cache'
<1>1. /\ pc = "recording" /\ pc' = pc /\ writing /\ Row
      /\ UNCHANGED <<header, ready, take, rotted>>
  BY DEF Append, Cache
<1>2. take > 0 /\ info.take = 0 /\ info.id = 0
  BY <1>1 DEF Cache
<1>3. /\ info \in Infos /\ info.frames \in 0 .. MaxFrames /\ info.samples \in Nat
      /\ buffered \in Nat /\ written \in Nat /\ checksum \in Nat
  BY DEF Cache, Shape, Infos
<1>4. samples \in Nat
  BY Sizes
<1>5. CASE writing' = FALSE /\ UNCHANGED <<data, info, buffered, written>> /\ checksum' \in Nat
  BY <1>1, <1>5, ZenonT(60) DEF Cache, Shape, Fits, CrcMatches
<1>6. CASE /\ writing' = writing /\ ~CacheFull(samples) /\ checksum' = checksum + PacketUnits
           /\ info' = [info EXCEPT !.frames = @ + 1, !.samples = @ + samples]
           /\ \/ /\ buffered + PacketUnits < BufferUnits
                 /\ buffered' = buffered + PacketUnits /\ UNCHANGED <<data, written>>
              \/ /\ ~(buffered + PacketUnits < BufferUnits)
                 /\ Flushed(BufferUnits)
                 /\ written' = written + BufferUnits
                 /\ buffered' = (buffered + PacketUnits) - BufferUnits
  <2>1. info.frames + 1 \in 0 .. MaxFrames /\ info.samples + samples <= MaxSamples
        /\ info.samples + samples \in Nat
    BY Sizes, <1>3, <1>4, <1>6, SMT DEF CacheFull
  <2>2. /\ info' \in Infos /\ info'.frames = info.frames + 1
        /\ info'.samples = info.samples + samples /\ info'.take = 0 /\ info'.id = 0
    BY <1>2, <1>3, <1>6, <2>1 DEF Infos
  <2>3. checksum' = info'.frames * PacketUnits /\ checksum' \in Nat
    <3>1. checksum = info.frames * PacketUnits
      BY <1>1 DEF Row
    <3>2. info.frames \in Nat /\ PacketUnits \in Nat
      BY Sizes, <1>3, SMT
    <3>3. (info.frames + 1) * PacketUnits = info.frames * PacketUnits + PacketUnits
      BY <3>2, NextFrame
    <3> QED BY <1>3, <1>6, <2>2, <3>1, <3>2, <3>3
  <2>4. /\ buffered' \in Nat /\ written' \in Nat /\ buffered' < BufferUnits
        /\ written' + buffered' = checksum'
    <3>1. written + buffered = checksum /\ buffered < BufferUnits
      BY <1>1 DEF Row
    <3> QED BY Sizes, <1>3, <1>6, <3>1, SMT
  <2>5. /\ data' \in [Places -> Nat]
        /\ \A n \in Places : data'[n] = IF n <= written' THEN take ELSE 0
    <3>1. \A n \in Places : data[n] = IF n <= written THEN take ELSE 0
      BY <1>1 DEF Row
    <3>2. CASE UNCHANGED <<data, written>>
      BY <3>1, <3>2 DEF Cache, Shape
    <3>3. CASE Flushed(BufferUnits) /\ written' = written + BufferUnits
      BY Sizes, FlushedRow, <3>1, <3>3 DEF Cache
    <3> QED BY <1>6, <3>2, <3>3
  <2>6. Row'
    BY <1>1, <2>1, <2>2, <2>3, <2>4, <2>5 DEF Row, MaxSamples
  <2>7. Shape'
    BY <1>1, <2>2, <2>3, <2>4, <2>5 DEF Cache, Shape
  <2>8. header = Blank /\ ~ready
    BY <1>1 DEF Row, Cache
  <2>9. header' = Blank /\ ready' = ready /\ pc' = "recording" /\ take' = take
    BY <1>1, <2>8
  <2> QED BY <1>2, <2>2, <2>6, <2>7, <2>8, <2>9, ZenonT(60) DEF Cache
<1>7. checksum' \in Nat
  <2>1. checksum' \in {checksum, checksum + PacketUnits}
    BY ZenonT(60) DEF Append
  <2> QED BY Sizes, <1>3, <2>1, SMT
<1> QED
  <2>1. CASE CacheFull(samples)
    BY <2>1, <1>5, <1>7 DEF Append
  <2>2. CASE ~CacheFull(samples)
    <3>1. CASE writing' = FALSE /\ UNCHANGED <<data, info, buffered, written>>
      BY <3>1, <1>5, <1>7
    <3>2. CASE writing' = writing
      <4>1. writing /\ writing' # FALSE
        BY <1>1, <3>2
      <4> QED BY <1>6, <2>2, <3>2, <4>1, ZenonT(60) DEF Append
    <3> QED BY <2>2, <3>1, <3>2, ZenonT(60) DEF Append
  <2> QED BY <2>1, <2>2

(* A recording is finished, and its header ready to be written, or not.    *)
LEMMA FinishCache ==
    ASSUME Cache, NEW t \in Texts, Finish(t)
    PROVE  Cache'
<1>1. /\ pc = "recording" /\ writing' = FALSE
      /\ UNCHANGED <<header, ready, checksum, take, rotted>>
  BY DEF Finish
<1>2. take > 0 /\ info.take = 0 /\ info.id = 0 /\ take \in Nat
  BY <1>1 DEF Cache, Shape
<1>3. CASE pc' = "idle" /\ UNCHANGED <<data, info, buffered, written>>
  BY <1>1, <1>3, ZenonT(60) DEF Cache, Shape, Fits, CrcMatches
<1>4. CASE /\ writing /\ info.frames > 0 /\ info.samples > 0
           /\ Flushed(buffered)
           /\ written' = written + buffered /\ buffered' = 0
           /\ info' = [info EXCEPT
                !.samples = Least(@, info.frames * FrameSamples - Preskip),
                !.take = take, !.units = checksum, !.text = t]
           /\ pc' = "finish_write"
  <2>1. Row
    BY <1>4 DEF Cache
  <2>2. /\ info \in Infos /\ info.frames \in Nat /\ info.frames <= MaxFrames
        /\ info.samples \in Nat
        /\ buffered \in Nat /\ written \in Nat /\ checksum \in Nat
    BY Sizes, SMT DEF Cache, Shape, Infos
  <2>3. info.frames * FrameSamples \in Nat /\ FrameSamples <= info.frames * FrameSamples
    <3>1. 1 * FrameSamples <= info.frames * FrameSamples
      <4>1. 1 \in Nat /\ 1 <= info.frames /\ FrameSamples \in Nat
        BY Sizes, <1>4, <2>2, SMT
      <4> QED BY Monotonic, <2>2, <4>1
    <3>2. info.frames * FrameSamples \in Nat
      BY Sizes, <2>2, NextFrame
    <3> QED BY Sizes, <3>1, <3>2
  <2>4. /\ info.frames * PacketUnits \in Nat /\ PacketUnits <= info.frames * PacketUnits
        /\ info.frames * PacketUnits <= MaxFrames * PacketUnits
    <3>1. 1 * PacketUnits <= info.frames * PacketUnits
      <4>1. 1 \in Nat /\ 1 <= info.frames /\ PacketUnits \in Nat
        BY Sizes, <1>4, <2>2, SMT
      <4> QED BY Monotonic, <2>2, <4>1
    <3>2. info.frames * PacketUnits <= MaxFrames * PacketUnits
      BY Sizes, Monotonic, <2>2
    <3>3. info.frames * PacketUnits \in Nat
      BY Sizes, <2>2, NextFrame
    <3> QED BY Sizes, <3>1, <3>2, <3>3
  <2> DEFINE room == info.frames * FrameSamples
             kept == Least(info.samples, room - Preskip)
  <2>5. kept \in Nat \ {0} /\ kept + Preskip <= room
    <3> HIDE DEF room
    <3>1. room \in Nat /\ FrameSamples <= room
      BY <2>3 DEF room
    <3> QED BY Sizes, <1>4, <2>2, <3>1, SMT DEF Least
  <2>6. checksum \in Nat \ {0} /\ checksum <= MaxFrames * PacketUnits
    <3>1. checksum = info.frames * PacketUnits
      BY <2>1 DEF Row
    <3> QED BY Sizes, <2>4, <3>1, SMT
  <2>7. info' = [info EXCEPT !.samples = kept, !.take = take, !.units = checksum, !.text = t]
    BY <1>4
  <2> HIDE DEF kept, room
  <2>8. /\ info' \in Infos
        /\ info'.frames = info.frames /\ info'.samples = kept /\ info'.take = take
        /\ info'.units = checksum /\ info'.id = 0 /\ info'.text = t
    BY <1>2, <2>2, <2>5, <2>6, <2>7 DEF Infos
  <2>9. info' \in Header
    <3>1. info'.frames \in 1 .. MaxFrames /\ info'.take \in Nat \ {0}
          /\ info'.samples \in Nat \ {0} /\ info'.units \in Nat \ {0}
      BY Sizes, <1>2, <1>4, <2>2, <2>5, <2>6, <2>8, SMT
    <3> QED BY <2>8, <3>1 DEF Header, Infos
  <2>10. Fits(info')
    BY <2>1, <2>5, <2>8, <2>9 DEF Fits, Row, room
  <2>11. /\ data' \in [Places -> Nat]
         /\ \A n \in Places : data'[n] = IF n <= checksum THEN take ELSE 0
    <3>1. written + buffered = checksum
      BY <2>1 DEF Row
    <3>2. \A m \in Places : data[m] = IF m <= written THEN take ELSE 0
      BY <2>1 DEF Row
    <3> QED BY FlushedRow, <1>4, <2>2, <3>1, <3>2 DEF Cache
  <2>12. CrcMatches(info)'
    <3>1. \A n \in 1 .. checksum : n \in Places /\ n <= checksum
      BY Sizes, <2>6, SMT DEF Places
    <3> QED BY <2>8, <2>10, <2>11, <3>1 DEF CrcMatches, Fits
  <2>13. written' \in Nat /\ buffered' \in Nat
    BY <1>4, <2>2, SMT
  <2>14. header = Blank /\ ~ready /\ header' = Blank /\ ready' = ready
    BY <1>1, <2>1 DEF Row, Cache
  <2>15. Shape'
    BY <1>1, <2>8, <2>11, <2>13 DEF Cache, Shape
  <2>16. Fits(info)'
    BY <2>10 DEF Fits, Header
  <2>17. pc' \notin {"begin_erase", "recording", "bind_erase"} /\ ~writing'
    BY <1>1, <1>4
  <2> QED BY <2>12, <2>14, <2>15, <2>16, <2>17, ZenonT(60) DEF Cache
<1> QED BY <1>3, <1>4, ZenonT(60) DEF Finish

(* Whatever a failure or a power cut leaves: a header that can be read is  *)
(* that of a clip whose audio is there.                                    *)
LEMMA InterruptedFlash ==
    ASSUME Cache, Fails
    PROVE  /\ header' \in Header \cup {Blank} /\ data' \in [Places -> Nat]
           /\ header' # Blank => Fits(header)'
           /\ header' # Blank /\ ~rotted => CrcMatches(header)'
<1>1. header \in Header \cup {Blank} /\ data \in [Places -> Nat]
  BY DEF Cache, Shape
<1>2. CASE header' = header /\ data' = data
  BY <1>1, <1>2, ZenonT(30) DEF Cache, Fits, CrcMatches
<1>3. CASE header' = Blank /\ \E k \in {0} \cup Places :
                 data' = [n \in Places |-> IF n <= k THEN 0 ELSE data[n]]
  <2>1. data' \in [Places -> Nat]
    BY <1>1, <1>3
  <2> QED BY <1>3, <2>1
<1>4. CASE header' = Blank /\ data' = data
  BY <1>1, <1>4
<1>5. CASE pc \in {"finish_write", "bind_write"} /\ header' = info /\ data' = data
  <2>1. Fits(info) /\ (~rotted => CrcMatches(info))
    BY <1>5 DEF Cache
  <2>2. Fits(header)' /\ (~rotted => CrcMatches(header)')
    BY <1>5, <2>1 DEF Fits, CrcMatches
  <2> QED BY <1>1, <1>5, <2>1, <2>2 DEF Fits
<1> QED BY Leaves, <1>2, <1>3, <1>4, <1>5

(* A call that fails keeps the cache.                                      *)
LEMMA FailedCache ==
    ASSUME Cache, Control, Fails, UNCHANGED <<info, buffered, written, checksum, take, rotted>>,
           writing' = FALSE, ready' = FALSE,
           pc' = "idle" \/ (pc = "begin_erase" /\ pc' = "recording")
    PROVE  Cache'
<1>1. /\ header' \in Header \cup {Blank} /\ data' \in [Places -> Nat]
      /\ header' # Blank => Fits(header)'
      /\ header' # Blank /\ ~rotted => CrcMatches(header)'
  BY InterruptedFlash
<1>2. Shape'
  BY <1>1 DEF Cache, Shape
<1>3. pc' = "recording" => take' > 0 /\ info'.take = 0 /\ info'.id = 0
  BY DEF Cache
<1> QED BY <1>1, <1>2, <1>3, ZenonT(60) DEF Cache

(* The other calls of a recording.                                         *)
LEMMA RecordingCache ==
    ASSUME Cache, Control, Begin \/ BeginErase \/ CommitHeader
    PROVE  Cache'
<1>1. CASE Begin
  <2>1. pc' = "begin_erase" /\ UNCHANGED <<header, data, rotted>> /\ writing' = FALSE
        /\ ready' = FALSE /\ info' = Zero /\ take' = take + 1
        /\ buffered' = 0 /\ written' = 0 /\ checksum' = 0
    BY <1>1, ZenonT(30) DEF Begin, Call, flash
  <2>2. Zero \in Infos /\ Zero.take = 0 /\ Zero.id = 0
    BY Sizes, SMT DEF Zero, Infos
  <2>3. take' \in Nat /\ take' > 0
    BY <2>1, SMT DEF Cache, Shape
  <2> QED BY <2>1, <2>2, <2>3 DEF Cache, Shape, Fits, CrcMatches
<1>2. CASE BeginErase
  <2>1. pc = "begin_erase" /\ pc' = "recording" /\ ready = FALSE /\ writing = FALSE
        /\ UNCHANGED <<info, ready, buffered, written, checksum, take>>
    BY <1>2, ZenonT(30) DEF BeginErase, Call, Control, Busy, Calls
  <2>2. info = Zero /\ buffered = 0 /\ written = 0 /\ checksum = 0 /\ take > 0 /\ take \in Nat
    BY <2>1 DEF Cache, Shape
  <2>3. CASE header' = Blank /\ data' = Erased /\ writing' = TRUE /\ rotted' = FALSE
    <3>1. data' \in [Places -> Nat] /\ \A n \in Places : data'[n] = 0
      BY <2>3 DEF Erased
    <3>2. info.frames = 0 /\ info.samples = 0 /\ info.take = 0 /\ info.id = 0
          /\ info.frames * PacketUnits = 0 /\ info.samples <= MaxSamples
      BY Sizes, <2>2, SMT DEF Zero
    <3>3. \A n \in Places : ~(n <= 0)
      BY Sizes, SMT DEF Places
    <3>4. Row'
      BY Sizes, <2>1, <2>2, <2>3, <3>1, <3>2, <3>3 DEF Row, MaxSamples
    <3>5. Shape'
      BY <2>1, <2>3, <3>1 DEF Cache, Shape
    <3>6. header' = Blank /\ pc' = "recording" /\ ~ready' /\ info' = info /\ take' = take
      BY <2>1, <2>3
    <3> QED BY <2>2, <3>2, <3>4, <3>5, <3>6, ZenonT(60) DEF Cache
  <2>4. CASE Fails /\ UNCHANGED <<writing, rotted>>
    BY <2>1, <2>4, FailedCache
  <2> QED BY <1>2, <2>3, <2>4 DEF BeginErase
<1>3. CASE CommitHeader
  <2>1. pc \in {"finish_write", "bind_write"} /\ pc' = "idle" /\ writing = FALSE
        /\ UNCHANGED <<info, writing, buffered, written, checksum, take, rotted>>
    BY <1>3, ZenonT(30) DEF CommitHeader, Control
  <2>2. CASE header' = info /\ ready' = TRUE /\ data' = data
    <3>1. header' # Blank
      BY NoClipAssumption, <2>1, <2>2 DEF Cache, Fits, Blank
    <3>2. header' \in Header
      BY <2>1, <2>2 DEF Cache, Fits
    <3>3. Fits(header)' /\ (~rotted => CrcMatches(header)')
      BY <2>1, <2>2 DEF Cache, Fits, CrcMatches
    <3>4. Shape'
      BY <2>1, <2>2, <3>2 DEF Cache, Shape
    <3> QED BY <2>1, <2>2, <3>1, <3>3, <3>4, ZenonT(60) DEF Cache
  <2>3. CASE Fails /\ ready' = FALSE
    BY <2>1, <2>3, FailedCache
  <2> QED BY <1>3, <2>2, <2>3 DEF CommitHeader
<1> QED BY <1>1, <1>2, <1>3

(* The calls for a note.                                                   *)
LEMMA NotesCache ==
    ASSUME Cache, Control, Notes
    PROVE  Cache'
<1>1. ASSUME NEW i \in Ids, Bind(i)
      PROVE  Cache'
  <2>1. pc' = "bind_erase" /\ ready /\ info.id = 0 /\ ready' = FALSE /\ writing = FALSE
        /\ info' = [info EXCEPT !.id = i]
        /\ UNCHANGED <<header, data, writing, buffered, written, checksum, take, rotted>>
    BY <1>1, ZenonT(30) DEF Bind, Call, WorkerMay, Control, flash
  <2>2. header = info /\ header # Blank /\ Fits(info)
    BY <2>1 DEF Cache
  <2>3. Fits(info)'
    BY <2>1, <2>2, SameAudio DEF Fits
  <2>4. header' = [info' EXCEPT !.id = 0]
    <3>1. info \in Header
      BY <2>2 DEF Fits
    <3> QED BY <2>1, <2>2, <3>1 DEF Header
  <2>5. info' \in Infos
    BY <2>1 DEF Cache, Shape, Infos
  <2>6. Shape'
    BY <2>1, <2>5 DEF Cache, Shape
  <2>7. (header' # Blank => Fits(header)') /\ (header' # Blank /\ ~rotted' => CrcMatches(header)')
    BY <2>1, ZenonT(30) DEF Cache, Fits, CrcMatches
  <2> QED BY <2>1, <2>2, <2>3, <2>4, <2>6, <2>7, ZenonT(60) DEF Cache
<1>2. CASE BindErase
  <2>1. pc = "bind_erase" /\ UNCHANGED <<info, buffered, written, checksum, take, rotted>>
        /\ ready' = FALSE /\ writing' = FALSE
    BY <1>2, ZenonT(30) DEF BindErase, Control, Busy, Calls, statics
  <2>2. CASE header' = Blank /\ data' = data /\ pc' = "bind_write"
    <3>1. Fits(info) /\ header # Blank /\ header = [info EXCEPT !.id = 0]
      BY <2>1 DEF Cache
    <3>2. ~rotted => CrcMatches(info)
      <4>1. 0 \in Ids \cup {0}
        OBVIOUS
      <4> QED BY <3>1, <4>1, SameAudio DEF Cache
    <3>3. Fits(info)' /\ (~rotted' => CrcMatches(info)')
      BY <2>1, <2>2, <3>1, <3>2, ZenonT(30) DEF Fits, CrcMatches
    <3>4. Shape'
      BY <2>1, <2>2 DEF Cache, Shape
    <3> QED BY <2>1, <2>2, <3>3, <3>4, ZenonT(60) DEF Cache
  <2>3. CASE Fails /\ pc' = "idle"
    BY <2>1, <2>3, FailedCache
  <2> QED BY <1>2, <2>2, <2>3 DEF BindErase
<1>3. CASE \E i \in Ids : Forget(i)
  <2>1. pc' = "forget_zero" /\ ready' = FALSE /\ writing = FALSE
        /\ UNCHANGED <<header, data, info, writing, buffered, written, checksum, take, rotted>>
    BY <1>3, ZenonT(30) DEF Forget, Call, Control, flash
  <2> QED BY <2>1, ZenonT(60) DEF Cache, Shape, Fits, CrcMatches
<1>4. CASE ForgetZero
  <2>1. pc' = "forget_erase" /\ ready' = FALSE /\ writing' = FALSE
        /\ (header' = Blank \/ header' = header)
        /\ UNCHANGED <<data, info, buffered, written, checksum, take, rotted>>
    BY <1>4, ZenonT(30) DEF ForgetZero, Call, Control, Busy, Calls, statics
  <2>2. Shape'
    BY <2>1 DEF Cache, Shape
  <2>3. (header' # Blank => Fits(header)') /\ (header' # Blank /\ ~rotted' => CrcMatches(header)')
    BY <2>1, ZenonT(30) DEF Cache, Fits, CrcMatches
  <2> QED BY <2>1, <2>2, <2>3, ZenonT(60) DEF Cache
<1>5. CASE ForgetErase
  <2>1. pc' = "idle" /\ ready' = FALSE /\ writing' = FALSE
        /\ UNCHANGED <<info, buffered, written, checksum, take, rotted>>
    BY <1>5, ZenonT(30) DEF ForgetErase, Call, Control, Busy, Calls, statics
  <2>2. CASE header' = Blank /\ data' = Erased
    <3>1. Shape'
      BY <2>1, <2>2 DEF Cache, Shape, Erased
    <3> QED BY <2>1, <2>2, <3>1, ZenonT(60) DEF Cache
  <2>3. CASE Fails
    BY <2>1, <2>3, FailedCache
  <2> QED BY <1>5, <2>2, <2>3 DEF ForgetErase
<1> QED BY <1>1, <1>2, <1>3, <1>4, <1>5 DEF Notes

(* A reset, and the decay of stored audio.                                 *)
LEMMA FaultsCache ==
    ASSUME Cache, Control, PowerCut \/ Decay
    PROVE  Cache'
<1>1. CASE PowerCut
  <2>1. /\ info' = IF header' = Blank THEN Zero ELSE header'
        /\ ready' = (header' # Blank)
        /\ writing' = FALSE /\ buffered' = 0 /\ written' = 0 /\ checksum' = 0
        /\ pc' = "idle" /\ UNCHANGED <<take, rotted>> /\ Fails
    BY <1>1 DEF PowerCut
  <2>2. /\ header' \in Header \cup {Blank} /\ data' \in [Places -> Nat]
        /\ header' # Blank => Fits(header)'
        /\ header' # Blank /\ ~rotted => CrcMatches(header)'
    BY <2>1, InterruptedFlash
  <2>3. Header \subseteq Infos /\ Zero \in Infos
    BY Sizes, SMT DEF Header, Infos, Zero
  <2>4. info' \in Infos
    BY <2>1, <2>2, <2>3
  <2>5. Shape'
    BY <2>1, <2>2, <2>4 DEF Cache, Shape
  <2>6. ready' => header' = info' /\ header' # Blank
    BY <2>1
  <2> QED BY <2>1, <2>2, <2>5, <2>6, ZenonT(60) DEF Cache
<1>2. CASE Decay
  <2>1. /\ pc = "idle" /\ pc' = "idle" /\ rotted' = TRUE
        /\ UNCHANGED <<header, info, ready, writing, buffered, written, checksum, take>>
    BY <1>2 DEF Decay, statics
  <2>2. ~writing'
    BY <2>1, ZenonT(30) DEF Control
  <2>3. data' \in [Places -> Nat]
    BY <1>2 DEF Decay, Cache, Shape
  <2>4. Shape'
    BY <2>1, <2>3 DEF Cache, Shape
  <2>5. header' # Blank => Fits(header)'
    BY <2>1 DEF Cache, Fits
  <2>6. ready' => header' = info' /\ header' # Blank
    BY <2>1, ZenonT(30) DEF Cache
  <2> QED BY <2>1, <2>2, <2>4, <2>5, <2>6, ZenonT(60) DEF Cache
<1> QED BY <1>1, <1>2

(* Every step keeps the cache.                                             *)
LEMMA CacheStep ==
    ASSUME Cache, Control, Next
    PROVE  Cache'
<1>1. CASE Web \/ Play \/ PlayStart \/ PressStop \/ Playback \/ PlayOver
  <2>1. UNCHANGED <<flash, info, buffered, written, checksum, take, writing, rotted>>
    BY <1>1, ZenonT(60) DEF Web, OpenPortal, ClosePortal, PortalClosed, StreamStart, StreamVerify,
       StreamSend, Play, PlayStart, PressStop, Playback, Verify, VerifyFailed, Frame, WriteFrame,
       TaskEnds, Task, PlayOver, statics
  <2>2. ready' => ready
    BY <1>1, ZenonT(60) DEF Web, OpenPortal, ClosePortal, PortalClosed, StreamStart, StreamVerify,
       StreamSend, Play, PlayStart, PressStop, Playback, Verify, VerifyFailed, Frame, WriteFrame,
       TaskEnds, PlayOver, statics
  <2>3. pc' \in Shown \cup {"idle", pc}
    BY <1>1, ZenonT(60) DEF Web, OpenPortal, ClosePortal, PortalClosed, StreamStart, StreamVerify,
       StreamSend, Play, PlayStart, PressStop, Playback, Verify, VerifyFailed, Frame, WriteFrame,
       TaskEnds, Task, PlayOver, Call, Shown
  <2> QED BY <2>1, <2>2, <2>3, CacheApart
<1> QED BY <1>1, AppendCache, FinishCache, RecordingCache, NotesCache, FaultsCache DEF Next, Recording

-----------------------------------------------------------------------------
(* A preview: it has the clip of the note asked for, and once that has     *)
(* verified sends nothing else.                                            *)
Preview ==
    /\ stream \in Streams
    /\ stream.at = "none" => stream = NoStream
    /\ stream # NoStream => info.id = stream.id
    /\ stream.at = "send" => CrcMatches(info)
    /\ stream.got \subseteq {info.take}

(* The packets of a clip's frames are in the audio it announces.           *)
LEMMA PacketOfTake ==
    ASSUME NEW i, NEW f \in Nat, Fits(i), CrcMatches(i), f < i.frames
    PROVE  Packet(f) \subseteq {i.take}
<1>1. i.frames \in Nat /\ i.units = i.frames * PacketUnits /\ PacketUnits \in Nat
  BY Sizes, SMT DEF Fits, Header
<1>2. (f + 1) * PacketUnits <= i.frames * PacketUnits
  <2>1. f + 1 \in Nat /\ f + 1 <= i.frames
    BY <1>1, SMT
  <2> QED BY <1>1, <2>1, Monotonic
<1>3. f * PacketUnits \in Nat /\ (f + 1) * PacketUnits \in Nat /\ i.frames * PacketUnits \in Nat
  BY <1>1, NextFrame, SMT
<1> DEFINE from == f * PacketUnits
           to   == (f + 1) * PacketUnits
           all  == i.frames * PacketUnits
<1>4. \A n \in from + 1 .. to : n \in 1 .. i.units
  <2> HIDE DEF from, to, all
  <2>1. from \in Nat /\ to \in Nat /\ all \in Nat /\ to <= all /\ i.units = all
    BY <1>1, <1>2, <1>3 DEF from, to, all
  <2> QED BY <2>1, SMT
<1> QED BY <1>4 DEF Packet, CrcMatches

(* No more packets are sent than the clip has frames.                      *)
LEMMA ExportFits ==
    ASSUME NEW i, NEW f \in Nat, Fits(i), f < ExportFrames(i)
    PROVE  f < i.frames
<1>1. /\ i.frames \in Nat /\ i.samples \in Nat /\ i.samples + Preskip <= i.frames * FrameSamples
      /\ Preskip \in Nat /\ FrameSamples \in Nat \ {0}
  BY Sizes, SMT DEF Fits, Header
<1> DEFINE a == i.samples + Preskip + FrameSamples - 1
           q == a \div FrameSamples
<1>2. a \in Nat /\ q \in Nat /\ q * FrameSamples <= a
  BY <1>1, SMT
<1> SUFFICES ASSUME i.frames <= f PROVE FALSE
  BY <1>1, SMT
<1>3. (i.frames + 1) * FrameSamples <= q * FrameSamples
  <2>1. i.frames + 1 <= q /\ i.frames + 1 \in Nat
    BY <1>1, <1>2, SMT DEF ExportFrames
  <2> HIDE DEF q
  <2> QED BY <1>1, <1>2, <2>1, Monotonic
<1>4. (i.frames + 1) * FrameSamples = i.frames * FrameSamples + FrameSamples
      /\ i.frames * FrameSamples \in Nat
  BY <1>1, NextFrame
<1> DEFINE r == i.frames * FrameSamples
           p == q * FrameSamples
<1> HIDE DEF q, r
<1> QED BY <1>1, <1>2, <1>3, <1>4, SMT DEF r

(* A preview stays undisturbed by every step.                              *)
LEMMA PreviewStep ==
    ASSUME Preview, Control, Cache, Next
    PROVE  Preview'
<1>1. CASE Web
  <2>1. UNCHANGED <<data, info>>
    BY <1>1, ZenonT(60) DEF Web, OpenPortal, ClosePortal, PortalClosed, StreamStart, StreamVerify,
       StreamSend, flash, statics
  <2>2. CrcMatches(info)' <=> CrcMatches(info)
    BY <2>1 DEF CrcMatches
  <2>3. CASE stream' = stream
    BY <2>1, <2>2, <2>3, ZenonT(30) DEF Preview
  <2>4. CASE stream' = NoStream
    <3>1. NoStream \in Streams /\ NoStream.at = "none" /\ NoStream.got = {}
      BY DEF NoStream, Streams
    <3> QED BY <2>4, <3>1 DEF Preview
  <2>5. CASE \E i \in Ids : StreamStart(i)
    <3>1. PICK i \in Ids : info.id = i /\ stream' = [at |-> "verify", id |-> i, sent |-> 0, got |-> {}]
      BY <2>5 DEF StreamStart, SavedInfo
    <3>2. stream' \in Streams /\ stream'.at = "verify" /\ stream'.id = i /\ stream'.got = {}
      BY <3>1 DEF Streams
    <3> QED BY <2>1, <3>1, <3>2 DEF Preview
  <2>6. CASE StreamVerify /\ CrcMatches(info) /\ stream' = [stream EXCEPT !.at = "send"]
    <3>1. stream # NoStream
      BY <2>6 DEF StreamVerify, NoStream
    <3>2. stream' \in Streams /\ stream'.at = "send" /\ stream'.id = stream.id
          /\ stream'.got = stream.got
      BY <2>6 DEF Preview, Streams
    <3> QED BY <2>1, <2>2, <2>6, <3>1, <3>2 DEF Preview
  <2>7. CASE /\ stream.at = "send" /\ stream.sent < ExportFrames(info)
             /\ stream' = [stream EXCEPT !.sent = @ + 1, !.got = @ \cup Packet(stream.sent)]
    <3>1. stream # NoStream
      BY <2>7 DEF NoStream
    <3>2. Fits(info) /\ CrcMatches(info) /\ stream.sent \in Nat
      BY <2>7, <3>1 DEF Preview, Control, Cache, Streams
    <3>3. Packet(stream.sent) \subseteq {info.take}
      BY <2>7, <3>2, ExportFits, PacketOfTake
    <3>4. info.take \in Nat
      BY <3>2 DEF Fits, Header
    <3>5. stream' \in Streams /\ stream'.at = "send" /\ stream'.id = stream.id
          /\ stream'.got = stream.got \cup Packet(stream.sent)
      <4> DEFINE got  == stream.got \cup Packet(stream.sent)
                 sent == stream.sent + 1
      <4>1. got \in SUBSET Nat /\ sent \in Nat
        <5>1. stream.got \subseteq Nat
          BY DEF Preview, Streams
        <5> QED BY <3>2, <3>3, <3>4, <5>1
      <4>2. stream' = [stream EXCEPT !.sent = sent, !.got = got]
        BY <2>7
      <4> HIDE DEF got, sent
      <4>3. stream' \in Streams /\ stream'.at = "send" /\ stream'.id = stream.id
            /\ stream'.got = got
        BY <2>7, <4>1, <4>2 DEF Preview, Streams
      <4> QED BY <4>3 DEF got
    <3> QED BY <2>1, <2>2, <3>1, <3>2, <3>3, <3>5 DEF Preview
  <2> QED BY <1>1, <2>3, <2>4, <2>5, <2>6, <2>7, ZenonT(60) DEF Web, OpenPortal, ClosePortal,
             PortalClosed, StreamVerify, StreamSend
<1>2. ASSUME UNCHANGED <<stream, info>>, stream = NoStream \/ data' = data
      PROVE  Preview'
  <2>1. NoStream.at # "send"
    BY DEF NoStream
  <2> QED BY <1>2, <2>1, ZenonT(60) DEF Preview, CrcMatches
<1>3. ASSUME stream' = NoStream
      PROVE  Preview'
  <2>1. NoStream \in Streams /\ NoStream.at = "none" /\ NoStream.got = {}
    BY DEF NoStream, Streams
  <2> QED BY <1>3, <2>1 DEF Preview
<1>4. CASE Begin \/ Recording \/ Notes \/ Decay
  <2>1. stream = NoStream /\ stream' = stream
    BY <1>4, ZenonT(60) DEF Begin, Recording, BeginErase, CommitHeader, Append, Finish, Notes, Bind,
       BindErase, Forget, ForgetZero, ForgetErase, Decay, WorkerMay, Call, Control, Busy, Calls, web
  <2> QED BY <1>3, <2>1
<1>5. CASE Play \/ PlayStart \/ PressStop \/ Playback \/ PlayOver
  <2>1. UNCHANGED <<stream, info, data>>
    BY <1>5, ZenonT(60) DEF Play, PlayStart, PressStop, Playback, Verify, VerifyFailed, Frame,
       WriteFrame, TaskEnds, Task, PlayOver, statics, flash, web
  <2> QED BY <1>2, <2>1
<1>6. CASE PowerCut
  BY <1>3, <1>6 DEF PowerCut
<1> QED BY <1>1, <1>4, <1>5, <1>6 DEF Next

-----------------------------------------------------------------------------
(* What has been played when frame f comes next.                           *)
PlayedBy(f) ==
    LET start == IF f * FrameSamples < Preskip THEN Preskip ELSE f * FrameSamples
    IN  Least(start, Preskip + info.samples) - Preskip

(* What the playback task has done at each of its places.                  *)
Progress(p) ==
    /\ p \in {"verify", "verify_failed", "crc_failed"} => played = 0 /\ heard = {} /\ late = 0
    /\ p = "verify" => error = "ok"
    /\ p = "verify_failed" => error # "ok"
    /\ p = "frame" => /\ CrcMatches(info) /\ at <= info.frames /\ played = PlayedBy(at)
                      /\ error = "ok"
                      /\ late = 0 \/ stopped
    /\ p = "write" => /\ CrcMatches(info) /\ at < info.frames /\ played = PlayedBy(at)
                      /\ error = "ok" /\ late = 0
    /\ p = "drain" => error # "ok" \/ stopped \/ played = info.samples
    /\ p = "end" => error # "ok"

Ranges ==
    /\ stopped \in BOOLEAN /\ pressed \in BOOLEAN
    /\ at \in Nat /\ played \in Nat /\ late \in {0, 1}
    /\ error \in {"ok", "stopped", "fail", "crc", "no_mem"}
    /\ heard \subseteq {info.take}

(* A playback is of one clip, which nothing else touches meanwhile.        *)
Playing ==
    /\ Ranges
    /\ pc \in Shown => Fits(info)
    /\ pc \notin {"playing", "play_over"} =>
          at = 0 /\ played = 0 /\ error = "ok" /\ heard = {} /\ late = 0
    /\ pc = "playing" /\ stopped => pressed
    /\ error = "stopped" => pressed
    /\ Progress(task)
    /\ pc = "play_over" /\ error = "ok" => played = info.samples

(* The audible samples of the frames add up to the clip's.                 *)
LEMMA Slices ==
    ASSUME Fits(info)
    PROVE  /\ PlayedBy(0) = 0
           /\ \A f \in Nat : f = info.frames => PlayedBy(f) = info.samples
           /\ \A f \in Nat : f < info.frames =>
                 /\ PlayedBy(f) \in Nat /\ Slice(info, f) \in Nat
                 /\ Slice(info, f) > 0 => PlayedBy(f) + Slice(info, f) = PlayedBy(f + 1)
                 /\ Slice(info, f) = 0 => PlayedBy(f) = info.samples
<1>1. /\ info.frames \in Nat /\ info.samples \in Nat \ {0}
      /\ info.samples + Preskip <= info.frames * FrameSamples
      /\ Preskip \in Nat \ {0} /\ FrameSamples \in Nat \ {0} /\ Preskip < FrameSamples
  BY Sizes, SMT DEF Fits, Header
<1>2. PlayedBy(0) = 0
  <2>1. 0 * FrameSamples = 0
    BY <1>1, SMT
  <2>2. 0 * FrameSamples < Preskip
    BY <1>1, <2>1, SMT
  <2>3. Least(Preskip, Preskip + info.samples) = Preskip
    BY <1>1, SMT DEF Least
  <2> QED BY <1>1, <2>2, <2>3, SMT DEF PlayedBy
<1>3. PlayedBy(info.frames) = info.samples
  <2> DEFINE x == info.frames * FrameSamples
  <2>1. x \in Nat /\ Preskip + info.samples <= x
    BY <1>1, NextFrame, SMT
  <2>2. PlayedBy(info.frames) =
          Least(IF x < Preskip THEN Preskip ELSE x, Preskip + info.samples) - Preskip
    BY DEF PlayedBy
  <2> HIDE DEF x
  <2> QED BY <1>1, <2>1, <2>2, SMT DEF Least
<1>4. ASSUME NEW f \in Nat, f < info.frames
      PROVE  /\ PlayedBy(f) \in Nat /\ Slice(info, f) \in Nat
             /\ Slice(info, f) > 0 => PlayedBy(f) + Slice(info, f) = PlayedBy(f + 1)
             /\ Slice(info, f) = 0 => PlayedBy(f) = info.samples
  <2> DEFINE x == f * FrameSamples
             y == (f + 1) * FrameSamples
             end == Least(y, Preskip + info.samples)
             start == IF x < Preskip THEN Preskip ELSE x
  <2>1. x \in Nat /\ y = x + FrameSamples
    BY <1>1, NextFrame
  <2>2. PlayedBy(f) = Least(start, Preskip + info.samples) - Preskip
    BY DEF PlayedBy
  <2>3. PlayedBy(f + 1) = Least(IF y < Preskip THEN Preskip ELSE y, Preskip + info.samples) - Preskip
    BY DEF PlayedBy
  <2>4. Slice(info, f) = IF end > start THEN end - start ELSE 0
    BY <1>4 DEF Slice
  <2> HIDE DEF x, y
  <2>5. y \in Nat /\ Preskip < y /\ x < y
    BY <1>1, <2>1, SMT
  <2>6. start \in Nat /\ start < y /\ start >= Preskip /\ end \in Nat /\ end <= y
        /\ end <= Preskip + info.samples
    BY <1>1, <2>1, <2>5, SMT DEF Least
  <2>7. PlayedBy(f + 1) = end - Preskip
    BY <1>1, <2>3, <2>5, SMT
  <2>8. CASE end > start
    <3>1. start <= Preskip + info.samples
      BY <1>1, <2>6, <2>8, SMT
    <3>2. PlayedBy(f) = start - Preskip
      BY <1>1, <2>2, <2>6, <3>1, SMT DEF Least
    <3> HIDE DEF start, end
    <3> QED BY <1>1, <2>4, <2>6, <2>7, <2>8, <3>2, SMT
  <2>9. CASE ~(end > start)
    <3>1. Preskip + info.samples <= start
      BY <1>1, <2>5, <2>6, <2>9, SMT DEF Least
    <3>2. Least(start, Preskip + info.samples) = Preskip + info.samples
      <4> HIDE DEF start, end
      <4> QED BY <1>1, <2>6, <3>1, SMT DEF Least
    <3>3. PlayedBy(f) = info.samples
      BY <1>1, <2>2, <3>2, SMT
    <3> HIDE DEF start, end
    <3> QED BY <1>1, <2>4, <2>6, <2>9, <3>3, SMT
  <2> QED BY <2>8, <2>9
<1> QED BY <1>2, <1>3, <1>4

(* A step outside a playback leaves it alone.                              *)
LEMMA PlayingApart ==
    ASSUME Playing, Control, Cache, Begin \/ Recording \/ Notes \/ Decay \/ Web \/ Play
    PROVE  Playing'
<1>1. UNCHANGED playback
  BY ZenonT(60) DEF Begin, Recording, BeginErase, CommitHeader, Append, Finish, Notes, Bind,
     BindErase, Forget, ForgetZero, ForgetErase, Decay, Web, OpenPortal, ClosePortal, PortalClosed,
     StreamStart, StreamVerify, StreamSend, Play
<1>2. CASE Begin \/ Recording \/ Notes \/ Decay
  <2>1. pc \notin Shown /\ pc' \notin Shown
    BY <1>2, ZenonT(60) DEF Begin, Recording, BeginErase, CommitHeader, Append, Finish, Notes, Bind,
       BindErase, Forget, ForgetZero, ForgetErase, Decay, Call, Shown
  <2>2. pc \notin {"playing", "play_over"} /\ pc' \notin {"playing", "play_over"} /\ task = "none"
    BY <2>1, ZenonT(30) DEF Shown, Control
  <2>3. heard = {} /\ heard' = {}
    BY <1>1, <2>2 DEF Playing, playback
  <2>4. Progress(task)'
    BY <1>1, <2>2 DEF Progress, playback
  <2>5. Ranges'
    BY <1>1, <2>3 DEF Playing, Ranges, playback
  <2> QED BY <1>1, <2>1, <2>2, <2>4, <2>5, ZenonT(60) DEF Playing, playback
<1>3. CASE Web
  <2>1. UNCHANGED <<pc, info, data>>
    BY <1>3, ZenonT(60) DEF Web, OpenPortal, ClosePortal, PortalClosed, StreamStart, StreamVerify,
       StreamSend, flash, statics
  <2> QED BY <1>1, <2>1, ZenonT(60) DEF Playing, Ranges, Progress, PlayedBy, CrcMatches, Fits, playback
<1>4. CASE Play
  <2>1. pc = "idle" /\ pc' = "play_shown" /\ ready /\ UNCHANGED <<info, data>>
    BY <1>4 DEF Play, WorkerMay, flash, statics
  <2>2. Fits(info)'
    BY <2>1 DEF Cache, Fits
  <2>3. task = "none"
    BY <2>1, ZenonT(30) DEF Control
  <2>4. Progress(task)'
    BY <1>1, <2>3 DEF Progress, playback
  <2>5. Ranges'
    BY <1>1, <2>1, ZenonT(30) DEF Playing, Ranges, playback
  <2> QED BY <1>1, <2>1, <2>2, <2>4, <2>5, ZenonT(60) DEF Playing, playback
<1> QED BY <1>2, <1>3, <1>4

(* The steps around the playback task.                                     *)
LEMMA PlayingWorker ==
    ASSUME Playing, Control, PlayStart \/ PressStop \/ PlayOver
    PROVE  Playing'
<1>1. UNCHANGED <<info, data>> /\ pc \in Shown
  BY ZenonT(30) DEF PlayStart, PressStop, PlayOver, Call, flash, statics, Shown
<1>2. Fits(info) /\ Fits(info)'
  BY <1>1 DEF Playing, Fits
<1>3. CASE PlayStart
  <2>1. /\ pc = "play_shown" /\ task = "none" /\ UNCHANGED <<played, heard, pressed, late>>
        /\ played = 0 /\ heard = {} /\ late = 0 /\ error = "ok" /\ at = 0
    <3>1. pc = "play_shown" /\ task = "none" /\ UNCHANGED <<played, heard, pressed, late>>
      BY <1>3, ZenonT(30) DEF PlayStart, Control
    <3> QED BY <3>1, ZenonT(30) DEF Playing
  <2>2. CASE stopped' = FALSE /\ task' = "verify" /\ at' = 0 /\ pc' = "playing" /\ error' = error
    <3>1. Ranges'
      BY <2>1, <2>2 DEF Playing, Ranges
    <3>2. Progress(task)'
      BY <2>1, <2>2 DEF Progress
    <3> QED BY <1>2, <2>1, <2>2, <3>1, <3>2, ZenonT(30) DEF Playing
  <2>3. CASE /\ stopped' \in {stopped, FALSE} /\ pc' = "play_over" /\ error' = "no_mem"
             /\ UNCHANGED <<task, at>>
    <3>1. stopped' \in BOOLEAN
      BY <2>3 DEF Playing, Ranges
    <3>2. Ranges'
      BY <2>1, <2>3, <3>1 DEF Playing, Ranges
    <3>3. Progress(task)'
      BY <2>1, <2>3 DEF Progress
    <3> QED BY <1>2, <2>1, <2>3, <3>2, <3>3, ZenonT(30) DEF Playing
  <2> QED BY <1>3, <2>2, <2>3 DEF PlayStart
<1>4. CASE PressStop
  <2>1. /\ stopped' = TRUE /\ pressed' = TRUE
        /\ UNCHANGED <<pc, task, at, played, error, heard, late>>
    BY <1>4 DEF PressStop
  <2>2. Ranges'
    BY <1>1, <2>1 DEF Playing, Ranges
  <2>3. Progress(task)'
    BY <1>1, <2>1, ZenonT(30) DEF Playing, Progress, PlayedBy, CrcMatches
  <2> QED BY <1>1, <1>2, <2>1, <2>2, <2>3, ZenonT(30) DEF Playing
<1>5. CASE PlayOver
  <2>1. /\ pc = "play_over" /\ pc' = "idle" /\ task' = task /\ stopped' = stopped
        /\ at' = 0 /\ played' = 0 /\ error' = "ok" /\ heard' = {} /\ pressed' = FALSE /\ late' = 0
    BY <1>5 DEF PlayOver, Call
  <2>2. task = "none"
    BY <2>1, ZenonT(30) DEF Control
  <2>3. Ranges'
    BY <2>1 DEF Playing, Ranges
  <2>4. Progress(task)'
    BY <2>1, <2>2 DEF Progress
  <2>5. pc' \notin Shown
    BY <2>1 DEF Shown
  <2> QED BY <2>1, <2>3, <2>4, <2>5, ZenonT(30) DEF Playing
<1> QED BY <1>3, <1>4, <1>5

(* The steps of the playback task.                                         *)
LEMMA PlayingTask ==
    ASSUME Playing, Control, Playback
    PROVE  Playing'
<1>1. UNCHANGED <<info, data, pressed, stopped>> /\ task \in Tasks
  BY ZenonT(60) DEF Playback, Verify, VerifyFailed, Frame, WriteFrame, TaskEnds, Task, flash,
     statics, Tasks
<1>2. pc = "playing"
  <2>1. task # "none"
    BY <1>1 DEF Tasks
  <2> QED BY <2>1, ZenonT(30) DEF Control
<1>3. Fits(info) /\ Fits(info)' /\ info.units \in Nat /\ info.frames \in Nat /\ info.take \in Nat
  <2>1. Fits(info)
    BY <1>2, ZenonT(30) DEF Playing, Shown
  <2>2. Fits(info)'
    BY <1>1, <2>1 DEF Fits
  <2> QED BY <2>1, <2>2, SMT DEF Fits, Header
<1>4. CrcMatches(info)' <=> CrcMatches(info)
  BY <1>1 DEF CrcMatches
<1>5. \A f : PlayedBy(f)' = PlayedBy(f)
  BY <1>1 DEF PlayedBy
<1>6. stopped => pressed
  BY <1>2, ZenonT(30) DEF Playing
<1>7. CASE Verify
  <2>1. /\ task = "verify" /\ pc' = "playing" /\ UNCHANGED <<played, heard, late>>
        /\ played = 0 /\ heard = {} /\ late = 0 /\ error = "ok"
    BY <1>2, <1>7, ZenonT(30) DEF Verify, Task, Playing, Progress
  <2>2. CASE stopped /\ task' = "verify_failed" /\ error' = "stopped" /\ at' = at
    <3>1. Ranges'
      BY <1>1, <2>1, <2>2 DEF Playing, Ranges
    <3>2. Progress(task)'
      BY <2>1, <2>2 DEF Progress
    <3> QED BY <1>1, <1>3, <1>6, <2>1, <2>2, <3>1, <3>2, ZenonT(30) DEF Playing
  <2>3. CASE ~stopped /\ task' = "verify_failed" /\ error' = "fail" /\ at' = at
    <3>1. Ranges'
      BY <1>1, <2>1, <2>3 DEF Playing, Ranges
    <3>2. Progress(task)'
      BY <2>1, <2>3 DEF Progress
    <3> QED BY <1>1, <1>3, <1>6, <2>1, <2>3, <3>1, <3>2, ZenonT(30) DEF Playing
  <2>4. CASE at' = Least(at + BufferUnits, info.units) /\ UNCHANGED <<task, error>>
    <3>1. at' \in Nat
      BY Sizes, <1>3, <2>4, SMT DEF Playing, Ranges, Least
    <3>2. Ranges'
      BY <1>1, <2>1, <2>4, <3>1 DEF Playing, Ranges
    <3>3. Progress(task)'
      BY <2>1, <2>4 DEF Progress
    <3> QED BY <1>1, <1>3, <1>6, <2>1, <2>4, <3>2, <3>3, ZenonT(30) DEF Playing
  <2>5. CASE /\ at' = 0 /\ error' = error
             /\ \/ CrcMatches(info) /\ task' = "frame"
                \/ task' = "crc_failed"
    <3>1. Ranges'
      BY <1>1, <2>1, <2>5 DEF Playing, Ranges
    <3>2. Progress(task)'
      <4>1. PlayedBy(0)' = 0 /\ 0 <= info'.frames
        BY <1>1, <1>3, <1>5, Slices
      <4> QED BY <1>4, <2>1, <2>5, <4>1 DEF Progress
    <3> QED BY <1>1, <1>3, <1>6, <2>1, <2>5, <3>1, <3>2, ZenonT(30) DEF Playing
  <2> QED BY <1>7, <2>2, <2>3, <2>4, <2>5, ZenonT(30) DEF Verify
<1>8. CASE VerifyFailed
  <2>1. /\ task \in {"verify_failed", "crc_failed"} /\ task' = "end" /\ pc' = "playing"
        /\ error' = IF task = "crc_failed" THEN "crc" ELSE error
        /\ UNCHANGED <<at, played, heard, late>>
    BY <1>2, <1>8, ZenonT(30) DEF VerifyFailed, Task
  <2>2. error' # "ok" /\ (error' = "stopped" => error = "stopped")
        /\ error' \in {"ok", "stopped", "fail", "crc", "no_mem"}
    BY <2>1, ZenonT(30) DEF Playing, Progress, Ranges
  <2>3. Ranges'
    BY <1>1, <2>1, <2>2 DEF Playing, Ranges
  <2>4. Progress(task)'
    BY <2>1, <2>2 DEF Progress
  <2> QED BY <1>1, <1>3, <1>6, <2>1, <2>2, <2>3, <2>4, ZenonT(30) DEF Playing
<1>9. CASE Frame
  <2>1. /\ task = "frame" /\ pc' = "playing" /\ UNCHANGED <<at, played, heard, late>>
        /\ CrcMatches(info) /\ at <= info.frames /\ played = PlayedBy(at) /\ error = "ok"
        /\ (late = 0 \/ stopped)
    BY <1>2, <1>9, ZenonT(30) DEF Frame, Task, Playing, Progress
  <2>2. CASE error' = error /\ at < info.frames /\ ~stopped /\ task' = "write"
    <3>1. Ranges'
      BY <1>1, <2>1, <2>2, ZenonT(30) DEF Playing, Ranges
    <3>2. Progress(task)'
      BY <1>1, <1>4, <1>5, <2>1, <2>2, ZenonT(30) DEF Progress
    <3> QED BY <1>1, <1>3, <1>6, <2>1, <2>2, <3>1, <3>2, ZenonT(30) DEF Playing
  <2>3. CASE error' = error /\ ~(at < info.frames /\ ~stopped) /\ task' = "drain"
    <3>1. Ranges'
      BY <1>1, <2>1, <2>3, ZenonT(30) DEF Playing, Ranges
    <3>2. stopped \/ played = info.samples
      <4>1. CASE ~(at < info.frames)
        <5>1. at \in Nat
          BY DEF Playing, Ranges
        <5>2. at = info.frames
          BY <1>3, <2>1, <4>1, <5>1, SMT
        <5> QED BY <1>3, <2>1, <5>1, <5>2, Slices
      <4> QED BY <2>3, <4>1
    <3>3. Progress(task)'
      BY <1>1, <2>1, <2>3, <3>2 DEF Progress
    <3> QED BY <1>1, <1>3, <1>6, <2>1, <2>3, <3>1, <3>3, ZenonT(30) DEF Playing
  <2>4. CASE task' = "end" /\ error' = "no_mem"
    <3>1. Ranges'
      BY <1>1, <2>1, <2>4 DEF Playing, Ranges
    <3>2. Progress(task)'
      BY <2>4 DEF Progress
    <3> QED BY <1>1, <1>3, <1>6, <2>1, <2>4, <3>1, <3>2, ZenonT(30) DEF Playing
  <2> QED BY <1>9, <2>2, <2>3, <2>4, ZenonT(30) DEF Frame
<1>10. CASE WriteFrame
  <2>1. /\ task = "write" /\ pc' = "playing"
        /\ CrcMatches(info) /\ at < info.frames /\ played = PlayedBy(at) /\ error = "ok" /\ late = 0
    BY <1>2, <1>10, ZenonT(30) DEF WriteFrame, Task, Playing, Progress
  <2>2. at \in Nat
    BY DEF Playing, Ranges
  <2>3. /\ PlayedBy(at) \in Nat /\ Slice(info, at) \in Nat
        /\ Slice(info, at) > 0 => PlayedBy(at) + Slice(info, at) = PlayedBy(at + 1)
        /\ Slice(info, at) = 0 => PlayedBy(at) = info.samples
    BY <1>3, <2>1, <2>2, Slices
  <2>4. CASE /\ Slice(info, at) > 0
             /\ played' = played + Slice(info, at)
             /\ heard' = heard \cup Packet(at)
             /\ late' = IF stopped THEN late + 1 ELSE late
             /\ at' = at + 1 /\ task' = "frame" /\ error' = error
    <3>1. heard' \subseteq {info'.take}
      <4>1. Packet(at) \subseteq {info.take}
        BY <1>3, <2>1, <2>2, PacketOfTake
      <4> QED BY <1>1, <2>4, <4>1 DEF Playing, Ranges
    <3>2. played' = PlayedBy(at + 1) /\ played' \in Nat
      <4> DEFINE a == PlayedBy(at)
                 b == Slice(info, at)
                 c == PlayedBy(at + 1)
      <4>1. a \in Nat /\ b \in Nat /\ a + b = c /\ played' = a + b
        BY <2>1, <2>3, <2>4
      <4> HIDE DEF a, b, c
      <4>2. played' = c /\ played' \in Nat
        BY <4>1, SMT
      <4> QED BY <4>2 DEF c
    <3>3. at' \in Nat /\ at' <= info'.frames
      BY <1>1, <1>3, <2>1, <2>2, <2>4, SMT
    <3>4. late' \in {0, 1} /\ (late' = 0 \/ stopped)
      BY <2>1, <2>4, SMT
    <3>5. Ranges'
      BY <1>1, <2>1, <2>4, <3>1, <3>2, <3>3, <3>4 DEF Playing, Ranges
    <3>6. Progress(task)'
      <4>1. played' = PlayedBy(at)'
        <5>1. played' = PlayedBy(at')
          BY <2>4, <3>2
        <5> QED BY <1>1, <5>1 DEF PlayedBy
      <4> QED BY <1>1, <1>4, <2>1, <2>4, <3>3, <3>4, <4>1, ZenonT(30) DEF Progress
    <3> QED BY <1>1, <1>3, <1>6, <2>1, <2>4, <3>5, <3>6, ZenonT(30) DEF Playing
  <2>5. CASE /\ \/ Slice(info, at) = 0 /\ error' = error
                \/ error' = "fail"
             /\ task' = "drain"
             /\ UNCHANGED <<at, played, heard, late>>
    <3>1. Ranges'
      BY <1>1, <2>1, <2>5 DEF Playing, Ranges
    <3>2. Progress(task)'
      BY <1>1, <2>1, <2>3, <2>5 DEF Progress
    <3> QED BY <1>1, <1>3, <1>6, <2>1, <2>5, <3>1, <3>2, ZenonT(30) DEF Playing
  <2> QED BY <1>10, <2>4, <2>5, ZenonT(30) DEF WriteFrame
<1>11. CASE TaskEnds
  <2>1. /\ task \in {"drain", "end"} /\ task' = "none" /\ pc' = "play_over"
        /\ error' = IF error = "ok" /\ stopped THEN "stopped" ELSE error
        /\ UNCHANGED <<at, played, heard, late>>
    BY <1>11 DEF TaskEnds
  <2>2. Ranges'
    BY <1>1, <2>1, ZenonT(30) DEF Playing, Ranges
  <2>3. error' = "stopped" => pressed
    BY <1>6, <2>1, ZenonT(30) DEF Playing
  <2>4. error' = "ok" => played = info.samples
    BY <2>1, ZenonT(30) DEF Playing, Progress
  <2>5. Progress(task)'
    BY <2>1 DEF Progress
  <2> QED BY <1>1, <1>3, <2>1, <2>2, <2>3, <2>4, <2>5, ZenonT(30) DEF Playing
<1> QED BY <1>7, <1>8, <1>9, <1>10, <1>11 DEF Playback

(* Every step keeps what is known of a playback.                           *)
LEMMA PlayingStep ==
    ASSUME Playing, Control, Cache, Next
    PROVE  Playing'
<1>1. CASE PowerCut
  <2>1. /\ pc' = "idle" /\ task' = "none" /\ stopped' = FALSE /\ at' = 0 /\ played' = 0
        /\ error' = "ok" /\ heard' = {} /\ pressed' = FALSE /\ late' = 0
    BY <1>1 DEF PowerCut
  <2>2. Ranges'
    BY <2>1 DEF Ranges
  <2>3. Progress(task)'
    BY <2>1 DEF Progress
  <2>4. pc' \notin Shown
    BY <2>1 DEF Shown
  <2> QED BY <2>1, <2>2, <2>3, <2>4, ZenonT(30) DEF Playing
<1> QED BY <1>1, PlayingApart, PlayingWorker, PlayingTask DEF Next

-----------------------------------------------------------------------------
IInv == Control /\ Cache /\ Preview /\ Playing

(* It holds at the start.                                                  *)
LEMMA InitIInv == Init => IInv
<1> SUFFICES ASSUME Init PROVE IInv
  OBVIOUS
<1>1. /\ header = Blank /\ data = Erased /\ info = Zero /\ ready = FALSE /\ writing = FALSE
      /\ buffered = 0 /\ written = 0 /\ checksum = 0 /\ take = 0 /\ pc = "idle"
      /\ portal = "closed" /\ stream = NoStream /\ task = "none" /\ rotted = FALSE
  BY DEF Init
<1>2. /\ stopped = FALSE /\ at = 0 /\ played = 0 /\ error = "ok"
      /\ heard = {} /\ pressed = FALSE /\ late = 0
  BY DEF Init
<1>3. Control
  BY <1>1, ZenonT(30) DEF Control
<1>4. Cache
  <2>1. Zero \in Infos /\ Erased \in [Places -> Nat]
    BY Sizes, SMT DEF Zero, Infos, Erased
  <2>2. Shape
    BY <1>1, <2>1 DEF Shape
  <2> QED BY <1>1, <2>2, ZenonT(30) DEF Cache
<1>5. Preview
  BY <1>1 DEF Preview, NoStream, Streams
<1>6. Playing
  <2>1. Ranges
    BY <1>2 DEF Ranges
  <2>2. Progress(task)
    BY <1>1 DEF Progress
  <2>3. pc \notin Shown
    BY <1>1 DEF Shown
  <2> QED BY <1>1, <1>2, <2>1, <2>2, <2>3, ZenonT(30) DEF Playing
<1> QED BY <1>3, <1>4, <1>5, <1>6 DEF IInv

(* A step that changes nothing keeps it.                                   *)
LEMMA StutterIInv == IInv /\ UNCHANGED vars => IInv'
<1> SUFFICES ASSUME IInv, UNCHANGED vars PROVE IInv'
  OBVIOUS
<1>1. UNCHANGED <<header, data, info, ready, writing, buffered, written, checksum, take, pc, portal,
                 stream, stopped, task, at, played, error, heard, pressed, late, rotted>>
  BY DEF vars, flash, statics, web, playback
<1>2. Control'
  BY <1>1, ZenonT(30) DEF IInv, Control
<1>3. Cache'
  BY <1>1, ZenonT(30) DEF IInv, Cache, Shape, Row, Fits, CrcMatches
<1>4. Preview'
  BY <1>1, ZenonT(30) DEF IInv, Preview, CrcMatches
<1>5. Playing'
  BY <1>1, ZenonT(30) DEF IInv, Playing, Ranges, Progress, PlayedBy, CrcMatches, Fits
<1> QED BY <1>2, <1>3, <1>4, <1>5 DEF IInv

(* Every step keeps it.                                                    *)
LEMMA StepIInv == IInv /\ [Next]_vars => IInv'
BY StutterIInv, ControlStep, CacheStep, PreviewStep, PlayingStep DEF IInv

(* So it always holds.                                                     *)
LEMMA Invariance == Spec => []IInv
BY InitIInv, StepIInv, PTL DEF Spec

(* The variables keep to the shapes the code gives them.                   *)
THEOREM TypeCorrect == Spec => []TypeOK
<1>1. IInv => TypeOK
  <2> SUFFICES ASSUME IInv PROVE TypeOK
    OBVIOUS
  <2>1. info.take \in Nat /\ header \in Header \cup {Blank} /\ data \in [Places -> Nat]
        /\ info \in Infos
    BY DEF IInv, Cache, Shape, Infos
  <2>2. heard \subseteq Nat
    BY <2>1 DEF IInv, Playing, Ranges
  <2>3. {ready, writing, stopped, rotted, pressed} \subseteq BOOLEAN
    BY ZenonT(30) DEF IInv, Control, Cache, Shape, Playing, Ranges
  <2>4. {buffered, written, checksum, take, at, played, late} \subseteq Nat
    BY DEF IInv, Cache, Shape, Playing, Ranges
  <2>5. /\ pc \in Calls \cup {"idle", "recording", "play_shown", "playing", "play_over"}
        /\ task \in {"none", "verify", "verify_failed", "crc_failed", "frame", "write", "drain", "end"}
        /\ portal \in {"open", "closing", "closed"}
    BY ZenonT(30) DEF IInv, Control, Busy, Shown, Tasks
  <2>6. stream \in Streams /\ error \in {"ok", "stopped", "fail", "crc", "no_mem"}
    BY DEF IInv, Preview, Playing, Ranges
  <2> QED BY <2>1, <2>2, <2>3, <2>4, <2>5, <2>6 DEF TypeOK, Infos, Streams
<1> QED BY Invariance, <1>1, PTL

(* A header that can be read has all the audio it announces behind it, all *)
(* of one recording; and what is offered is what a reset would find.       *)
THEOREM ClipsAreComplete == Spec => []ClipComplete
<1>1. IInv => ClipComplete
  BY ZenonT(30) DEF IInv, Cache, ClipComplete
<1> QED BY Invariance, <1>1, PTL

(* No place of the partition is written that is not erased.                *)
THEOREM WritesGoToErasedFlash == Spec => []WritesErasedFlash
<1>1. IInv => WritesErasedFlash
  <2> SUFFICES ASSUME IInv PROVE WritesErasedFlash
    OBVIOUS
  <2>1. ASSUME writing
        PROVE  header = Blank /\ \A n \in Places : n > written => data[n] = 0
    <3>1. Row /\ written \in Nat
      BY <2>1 DEF IInv, Cache, Shape
    <3>2. \A n \in Places : n > written => ~(n <= written)
      BY <3>1, Sizes, SMT DEF Places
    <3> QED BY <3>1, <3>2 DEF Row
  <2>2. pc \in {"finish_write", "bind_write"} => header = Blank
    BY DEF IInv, Cache
  <2> QED BY <2>1, <2>2 DEF WritesErasedFlash
<1> QED BY Invariance, <1>1, PTL

(* The speaker plays the recording that is offered, and at a success every *)
(* audible sample of it.                                                   *)
THEOREM RecordingIsPlayed == Spec => []PlaysTheRecording
<1>1. IInv => PlaysTheRecording
  BY DEF IInv, Playing, Ranges, PlaysTheRecording
<1> QED BY Invariance, <1>1, PTL

(* A press of OK ends a playback after at most the frame in hand, and no   *)
(* playback claims to be stopped without one.                              *)
THEOREM StopIsObeyed == Spec => []StopObeyed
<1>1. IInv => StopObeyed
  <2>1. IInv => late <= 1
    <3>1. IInv => late \in {0, 1}
      BY DEF IInv, Playing, Ranges
    <3> QED BY <3>1, SMT
  <2>2. IInv => (error = "stopped" => pressed)
    BY DEF IInv, Playing
  <2> QED BY <2>1, <2>2 DEF StopObeyed
<1> QED BY Invariance, <1>1, PTL

(* While a preview is sent the clip stays that of its note, and all of its *)
(* packets are of one recording.                                           *)
THEOREM PreviewIsUndisturbed == Spec => []ServedUndisturbed
<1>1. IInv => ServedUndisturbed
  BY ZenonT(30) DEF IInv, Control, Preview, ServedUndisturbed, SavedInfo
<1> QED BY Invariance, <1>1, PTL

-----------------------------------------------------------------------------
(* The clip of a header is one.                                            *)
LEMMA ClipOfHeader ==
    ASSUME NEW i \in Header
    PROVE  ClipOf(i) = [take |-> i.take, text |-> i.text, id |-> i.id] /\ ClipOf(i) # NoClip
<1>1. i # Blank
  BY NoClipAssumption DEF Blank
<1>2. i.take # 0 /\ i.take \in Nat /\ i.text \in Texts /\ i.id \in Ids \cup {0}
  BY DEF Header
<1>3. ClipOf(i) = [take |-> i.take, text |-> i.text, id |-> i.id]
  BY <1>1, <1>2 DEF ClipOf
<1>4. [take |-> i.take, text |-> i.text, id |-> i.id] \in Clips
  BY <1>2 DEF Clips
<1> QED BY <1>3, <1>4, NoClipAssumption

(* No clip is none.                                                        *)
LEMMA NoClips == ClipOf(Blank) = NoClip /\ ClipOf(Zero) = NoClip
BY DEF ClipOf, Zero

(* What a call leaves that fails: the clip on Flash, none, or the one to   *)
(* be written.                                                             *)
LEMMA LeavesClip ==
    ASSUME Control, Cache, Fails
    PROVE  \/ ClipOf(header)' = ClipOf(header)
           \/ ClipOf(header)' = NoClip
           \/ /\ pc \in {"finish_write", "bind_write"} /\ header = Blank
              /\ header' = info /\ info \in Header
<1>1. CASE header' = header
  BY <1>1
<1>2. CASE header' = Blank
  BY <1>2, NoClips
<1>3. CASE pc \in {"finish_write", "bind_write"} /\ header' = info
  BY <1>3 DEF Cache, Fits
<1> QED BY Leaves, <1>1, <1>2, <1>3

(* A step that leaves header and information alone withdraws at most.      *)
LEMMA WithdrawOnly ==
    ASSUME UNCHANGED <<take, header, info>>, ready' = ready \/ ready' = FALSE
    PROVE  Promise!Withdraw \/ UNCHANGED Promise!vars
<1>1. UNCHANGED <<take, ClipOf(header), ClipOf(info)>>
  OBVIOUS
<1>2. CASE ready' = ready
  BY <1>1, <1>2 DEF Promise!vars
<1>3. CASE ready' = FALSE
  BY <1>1, <1>3 DEF Promise!Withdraw
<1> QED BY <1>2, <1>3

(* A failed erase or write is an erase or a write of Clip, or nothing.     *)
LEMMA FailedClip ==
    ASSUME Control, Cache, Fails, UNCHANGED <<take, info>>, ready = FALSE, ready' = FALSE
    PROVE  Promise!Erase \/ Promise!Write \/ UNCHANGED Promise!vars
<1>1. UNCHANGED <<take, ClipOf(info)>>
  OBVIOUS
<1>2. CASE ClipOf(header)' = ClipOf(header)
  BY <1>1, <1>2 DEF Promise!vars
<1>3. CASE ClipOf(header)' = NoClip
  BY <1>1, <1>3 DEF Promise!Erase
<1>4. CASE header = Blank /\ header' = info /\ info \in Header
  BY <1>1, <1>4, ClipOfHeader, NoClips DEF Promise!Write
<1> QED BY LeavesClip, <1>2, <1>3, <1>4

(* Every step of the cache is one of Clip, or none.                        *)
LEMMA StepClip ==
    ASSUME IInv, Next
    PROVE  Promise!Next \/ UNCHANGED Promise!vars
<1>1. Control /\ Cache
  BY DEF IInv
<1>2. CASE Begin
  <2>1. take' = take + 1 /\ info' = Zero /\ header' = header /\ ready' = FALSE
    BY <1>2 DEF Begin, flash
  <2>2. Promise!Begin
    BY <2>1, NoClips DEF Promise!Begin
  <2> QED BY <2>2 DEF Promise!Next
<1>3. CASE BeginErase
  <2>1. UNCHANGED <<take, info>> /\ ready = FALSE /\ ready' = FALSE
    BY <1>1, <1>3, ZenonT(30) DEF BeginErase, Call, Control, Busy, Calls
  <2>2. CASE header' = Blank
    BY <2>1, <2>2, NoClips DEF Promise!Erase, Promise!Next
  <2>3. CASE Fails
    BY <1>1, <2>1, <2>3, FailedClip DEF Promise!Next
  <2> QED BY <1>3, <2>2, <2>3 DEF BeginErase
<1>4. CASE \E s \in {0, FrameSamples} : Append(s)
  <2>1. PICK s \in {0, FrameSamples} : Append(s)
    BY <1>4
  <2>2. /\ pc = "recording" /\ UNCHANGED <<header, ready, take>>
        /\ info' \in {info, [info EXCEPT !.frames = @ + 1, !.samples = @ + s]}
    BY <2>1, ZenonT(30) DEF Append
  <2>3. info \in Infos /\ info.take = 0
    BY <1>1, <2>2 DEF Cache, Shape
  <2>4. info'.take = 0
    BY <2>2, <2>3 DEF Infos
  <2>5. ClipOf(info) = NoClip /\ ClipOf(info)' = NoClip
    BY <2>3, <2>4 DEF ClipOf
  <2> QED BY <2>2, <2>5 DEF Promise!vars
<1>5. ASSUME NEW t \in Texts, Finish(t)
      PROVE  Promise!Next \/ UNCHANGED Promise!vars
  <2>1. pc = "recording" /\ UNCHANGED <<header, ready, take>> /\ ready = FALSE
    BY <1>1, <1>5, ZenonT(30) DEF Finish, Control, Busy
  <2>2. CASE info' = info
    BY <2>1, <2>2 DEF Promise!vars
  <2>3. CASE /\ writing /\ pc' = "finish_write"
             /\ info' = [info EXCEPT
                  !.samples = Least(@, info.frames * FrameSamples - Preskip),
                  !.take = take, !.units = checksum, !.text = t]
    <3>1. header = Blank /\ info.take = 0 /\ info.id = 0 /\ info \in Infos /\ take > 0
      BY <1>1, <2>1, <2>3 DEF Cache, Row, Shape
    <3>2. info'.take = take /\ info'.text = t /\ info'.id = 0
      BY <2>3, <3>1 DEF Infos
    <3>3. info' \in Header
      <4>1. Cache'
        BY <1>1, <1>5, FinishCache
      <4> QED BY <2>3, <4>1 DEF Cache, Fits
    <3>4. ClipOf(info)' = [take |-> take, text |-> t, id |-> 0]
      BY <3>2, <3>3, ClipOfHeader
    <3>5. ClipOf(info) = NoClip /\ ClipOf(header) = NoClip
      BY <3>1, NoClips DEF ClipOf
    <3>6. Promise!Finish(t)
      BY <2>1, <3>1, <3>4, <3>5 DEF Promise!Finish
    <3> QED BY <3>6 DEF Promise!Next
  <2> QED BY <1>5, <2>2, <2>3, ZenonT(30) DEF Finish
<1>6. CASE CommitHeader
  <2>1. UNCHANGED <<take, info>> /\ ready = FALSE /\ pc \in {"finish_write", "bind_write"}
    BY <1>1, <1>6, ZenonT(30) DEF CommitHeader, Control, Busy, Calls
  <2>2. header = Blank /\ info \in Header
    BY <1>1, <2>1 DEF Cache, Fits
  <2>3. CASE header' = info /\ ready' = TRUE
    <3>1. Promise!Write
      BY <2>1, <2>2, <2>3, ClipOfHeader, NoClips DEF Promise!Write
    <3> QED BY <3>1 DEF Promise!Next
  <2>4. CASE Fails /\ ready' = FALSE
    BY <1>1, <2>1, <2>4, FailedClip DEF Promise!Next
  <2> QED BY <1>6, <2>3, <2>4 DEF CommitHeader
<1>7. ASSUME NEW i \in Ids, Bind(i)
      PROVE  Promise!Next \/ UNCHANGED Promise!vars
  <2>1. /\ ready /\ info.id = 0 /\ ready' = FALSE /\ info' = [info EXCEPT !.id = i]
        /\ UNCHANGED <<header, take>>
    BY <1>7 DEF Bind, flash
  <2>2. info \in Header
    BY <1>1, <2>1 DEF Cache, Fits
  <2>3. info' \in Header /\ info'.take = info.take /\ info'.text = info.text /\ info'.id = i
    BY <2>1, <2>2 DEF Header
  <2>4. ClipOf(info) = [take |-> info.take, text |-> info.text, id |-> info.id]
        /\ ClipOf(info) # NoClip
    BY <2>2, ClipOfHeader
  <2>5. ClipOf(info)' = [take |-> info.take, text |-> info.text, id |-> i]
    BY <2>3, ClipOfHeader
  <2>6. ClipOf(info).id = 0 /\ ClipOf(info)' = [ClipOf(info) EXCEPT !.id = i]
    BY <2>1, <2>4, <2>5
  <2>7. Promise!Assign(i)
    BY <2>1, <2>4, <2>6 DEF Promise!Assign
  <2> QED BY <2>7 DEF Promise!Next
<1>8. CASE BindErase \/ ForgetZero \/ ForgetErase
  <2>1. UNCHANGED <<take, info>> /\ ready = FALSE /\ ready' = FALSE
    BY <1>1, <1>8, ZenonT(30) DEF BindErase, ForgetZero, ForgetErase, Call, Control, Busy, Calls,
       statics
  <2>2. CASE header' = Blank
    BY <2>1, <2>2, NoClips DEF Promise!Erase, Promise!Next
  <2>3. CASE header' = header
    BY <2>1, <2>3 DEF Promise!vars
  <2>4. CASE Fails
    BY <1>1, <2>1, <2>4, FailedClip DEF Promise!Next
  <2> QED BY <1>8, <2>2, <2>3, <2>4, ZenonT(30) DEF BindErase, ForgetZero, ForgetErase
<1>9. CASE (\E i \in Ids : Forget(i)) \/ Web \/ Play \/ PlayStart \/ PressStop \/ Playback
           \/ PlayOver \/ Decay
  <2>1. UNCHANGED <<take, header, info>>
    BY <1>9, ZenonT(60) DEF Forget, Web, OpenPortal, ClosePortal, PortalClosed, StreamStart,
       StreamVerify, StreamSend, Play, PlayStart, PressStop, Playback, Verify, VerifyFailed, Frame,
       WriteFrame, TaskEnds, Task, PlayOver, Decay, statics, flash
  <2>2. ready' = ready \/ ready' = FALSE
    <3>1. CASE VerifyFailed
      <4>1. ready \in BOOLEAN /\ stopped \in BOOLEAN /\ ready' = (ready /\ stopped)
        BY <1>1, <3>1 DEF VerifyFailed, Control, IInv, Playing, Ranges
      <4>2. CASE stopped = TRUE
        BY <4>1, <4>2
      <4>3. CASE stopped = FALSE
        BY <4>1, <4>3
      <4> QED BY <4>1, <4>2, <4>3
    <3>2. CASE ~VerifyFailed
      BY <1>9, <3>2, ZenonT(60) DEF Forget, Web, OpenPortal, ClosePortal, PortalClosed, StreamStart,
         StreamVerify, StreamSend, Play, PlayStart, PressStop, Playback, Verify, Frame,
         WriteFrame, TaskEnds, PlayOver, Decay, statics
    <3> QED BY <3>1, <3>2
  <2> QED BY <2>1, <2>2, WithdrawOnly DEF Promise!Next
<1>10. CASE PowerCut
  <2>1. /\ Fails /\ info' = (IF header' = Blank THEN Zero ELSE header')
        /\ ready' = (header' # Blank) /\ take' = take
    BY <1>10 DEF PowerCut
  <2>2. ClipOf(info)' = ClipOf(header)'
    <3>1. CASE header' = Blank
      BY <2>1, <3>1, NoClips
    <3>2. CASE header' # Blank
      BY <2>1, <3>2
    <3> QED BY <3>1, <3>2
  <2>3. (IF ready THEN ClipOf(info) ELSE NoClip)' = ClipOf(header)'
    <3>1. CASE header' = Blank
      BY <2>1, <3>1, NoClips
    <3>2. CASE header' # Blank
      BY <2>1, <2>2, <3>2
    <3> QED BY <3>1, <3>2
  <2>4. \/ ClipOf(header)' \in {ClipOf(header), NoClip}
        \/ ready = FALSE /\ header = Blank /\ ClipOf(header)' = ClipOf(info)
    <3>1. pc \in {"finish_write", "bind_write"} => ready = FALSE
      BY <1>1, ZenonT(30) DEF Control, Busy, Calls
    <3> QED BY <1>1, <2>1, <3>1, LeavesClip
  <2>5. Promise!Reboot
    BY <2>1, <2>2, <2>3, <2>4, NoClips DEF Promise!Reboot
  <2> QED BY <2>5 DEF Promise!Next
<1> QED BY <1>2, <1>3, <1>4, <1>5, <1>6, <1>7, <1>8, <1>9, <1>10 DEF Next, Recording, Notes

(* The cache implements Clip: through failed calls, power cuts and decay   *)
(* it keeps one clip or none, with the text of its own recording, bound at *)
(* most once, and never back once it has been erased.                      *)
THEOREM CacheIsAClip == Spec => KeepsPromise
<1>1. Init => Promise!Init
  BY NoClips DEF Init, Promise!Init
<1>2. IInv /\ [Next]_vars => [Promise!Next]_(Promise!vars)
  <2>1. UNCHANGED vars => UNCHANGED Promise!vars
    BY DEF vars, flash, statics, Promise!vars
  <2> QED BY <2>1, StepClip
<1> QED BY <1>1, <1>2, Invariance, PTL DEF Spec, KeepsPromise, Promise!Spec

-----------------------------------------------------------------------------
(* How much a playback has still to do.                                    *)

(* At most this many steps of the playback task: a chunk that is verified  *)
(* is a unit at least, and a frame takes two steps.                        *)
WorkFrom(place, n) ==
    CASE place = "verify" -> (info.units - n) + 2 * info.frames + 6
      [] place = "frame" -> 2 * (info.frames - n) + 3
      [] place = "write" -> 2 * (info.frames - n) + 2
      [] place \in {"verify_failed", "crc_failed"} -> 2
      [] place \in {"drain", "end"} -> 1
      [] OTHER -> 0
Work == WorkFrom(task, at)

(* And at most this many once the flag is set, however long the clip is.   *)
StepsToStop(place) ==
    CASE place = "verify" -> 4
      [] place = "write" -> 3
      [] place \in {"frame", "verify_failed", "crc_failed"} -> 2
      [] place \in {"drain", "end"} -> 1
      [] OTHER -> 0

(* A step of the task brings both down, and no other step puts them up.    *)
RunsDown ==
    pc = "playing" =>
      /\ Playback => /\ Work' < Work
                     /\ stopped => StepsToStop(task)' < StepsToStop(task)
      /\ ~Playback => /\ Work' <= Work
                      /\ stopped => StepsToStop(task)' <= StepsToStop(task)

(* Verification does not read behind the clip.                             *)
Verifying == task = "verify" => at <= info.units

(* The cases of the two measures.                                          *)
LEMMA Measures ==
    /\ \A n : WorkFrom("verify", n) = (info.units - n) + 2 * info.frames + 6
    /\ \A n : WorkFrom("frame", n) = 2 * (info.frames - n) + 3
    /\ \A n : WorkFrom("write", n) = 2 * (info.frames - n) + 2
    /\ \A n : /\ WorkFrom("verify_failed", n) = 2 /\ WorkFrom("crc_failed", n) = 2
              /\ WorkFrom("drain", n) = 1 /\ WorkFrom("end", n) = 1
              /\ WorkFrom("none", n) = 0
    /\ StepsToStop("verify") = 4 /\ StepsToStop("write") = 3
    /\ StepsToStop("frame") = 2 /\ StepsToStop("verify_failed") = 2
    /\ StepsToStop("crc_failed") = 2 /\ StepsToStop("drain") = 1
    /\ StepsToStop("end") = 1 /\ StepsToStop("none") = 0
BY SMT DEF WorkFrom, StepsToStop

(* What is known of the numbers while the task is at work.                 *)
LEMMA AtWork ==
    ASSUME IInv, Verifying, pc = "playing"
    PROVE  /\ info.units \in Nat /\ info.frames \in Nat /\ at \in Nat
           /\ task \in Tasks
           /\ task = "verify" => at <= info.units
           /\ task = "frame" => at <= info.frames
           /\ task = "write" => at < info.frames
<1>1. Fits(info)
  BY ZenonT(30) DEF IInv, Playing, Shown
<1>2. info.units \in Nat /\ info.frames \in Nat
  BY <1>1, SMT DEF Fits, Header
<1>3. at \in Nat
  BY DEF IInv, Playing, Ranges
<1>4. task \in Tasks
  BY ZenonT(30) DEF IInv, Control, Tasks
<1>5. /\ task = "frame" => at <= info.frames
      /\ task = "write" => at < info.frames
  BY ZenonT(30) DEF IInv, Playing, Progress
<1> QED BY <1>2, <1>3, <1>4, <1>5 DEF Verifying

(* While the task is at work, there is work.                               *)
LEMMA WorkLeft ==
    ASSUME IInv, Verifying, pc = "playing"
    PROVE  Work \in Nat \ {0}
<1>1. /\ info.units \in Nat /\ info.frames \in Nat /\ at \in Nat /\ task \in Tasks
      /\ task = "verify" => at <= info.units
      /\ task = "frame" => at <= info.frames
      /\ task = "write" => at < info.frames
  BY AtWork
<1>2. CASE task = "verify"
  BY <1>1, <1>2, Measures, SMT DEF Work
<1>3. CASE task = "frame" \/ task = "write"
  BY <1>1, <1>3, Measures, SMT DEF Work
<1>4. CASE task \in {"verify_failed", "crc_failed", "drain", "end"}
  BY <1>4, Measures, SMT DEF Work
<1> QED BY <1>1, <1>2, <1>3, <1>4 DEF Tasks

(* The steps of the task.                                                  *)
LEMMA TaskRunsDown ==
    ASSUME IInv, Verifying, pc = "playing", Playback
    PROVE  /\ Work' < Work
           /\ stopped => StepsToStop(task)' < StepsToStop(task)
           /\ Verifying'
<1> DEFINE w(place, n) == WorkFrom(place, n)
<1>1. /\ info.units \in Nat /\ info.frames \in Nat /\ at \in Nat
      /\ task = "verify" => at <= info.units
      /\ task = "frame" => at <= info.frames
      /\ task = "write" => at < info.frames
  BY AtWork
<1>2. info' = info
  BY DEF Playback, Verify, VerifyFailed, Frame, WriteFrame, TaskEnds, statics
<1>3. Work' = w(task', at')
  BY <1>2 DEF Work, WorkFrom
<1>4. StepsToStop(task)' = StepsToStop(task')
  BY DEF StepsToStop
<1>5. BufferUnits \in Nat \ {0}
  BY Sizes
<1>6. CASE Verify
  <2>1. task = "verify" /\ w(task, at) = (info.units - at) + 2 * info.frames + 6
    BY <1>6, Measures DEF Verify, Task
  <2>2. CASE task' = "verify_failed"
    BY <1>1, <2>1, <2>2, <1>3, <1>4, Measures, SMT DEF Work, Verifying
  <2>3. CASE /\ ~stopped /\ at < info.units /\ at' = Least(at + BufferUnits, info.units)
             /\ task' = task
    <3>1. at < at' /\ at' <= info.units /\ at' \in Nat
      BY <1>1, <1>5, <2>3, SMT DEF Least
    <3> QED BY <1>1, <1>2, <1>3, <2>1, <2>3, <3>1, Measures, SMT DEF Work, Verifying
  <2>4. CASE at' = 0 /\ task' \in {"frame", "crc_failed"}
    BY <1>1, <1>3, <1>4, <2>1, <2>4, Measures, SMT DEF Work, Verifying
  <2> QED BY <1>6, <2>2, <2>3, <2>4 DEF Verify
<1>7. CASE VerifyFailed
  <2>1. task \in {"verify_failed", "crc_failed"} /\ task' = "end"
    BY <1>7 DEF VerifyFailed
  <2> QED BY <1>3, <1>4, <2>1, Measures, SMT DEF Work, Verifying
<1>8. CASE Frame
  <2>1. /\ task = "frame" /\ at' = at /\ task' \in {"write", "drain", "end"}
        /\ stopped => task' # "write"
    BY <1>8 DEF Frame, Task
  <2> QED BY <1>1, <1>3, <1>4, <2>1, Measures, SMT DEF Work, Verifying
<1>9. CASE WriteFrame
  <2>1. /\ task = "write"
        /\ \/ at' = at + 1 /\ task' = "frame"
           \/ at' = at /\ task' = "drain"
    BY <1>9 DEF WriteFrame, Task
  <2>2. w("write", at) = 2 * (info.frames - at) + 2 /\ at < info.frames
    BY <1>1, <2>1, Measures
  <2>3. CASE at' = at + 1 /\ task' = "frame"
    <3>1. Work' = 2 * (info.frames - (at + 1)) + 3
      BY <1>3, <2>3, Measures
    <3>2. Work' < Work
      BY <1>1, <2>1, <2>2, <3>1, SMT DEF Work
    <3> QED BY <1>4, <2>1, <2>3, <3>2, Measures, SMT DEF Verifying
  <2>4. CASE at' = at /\ task' = "drain"
    <3>1. Work' = 1
      BY <1>3, <2>4, Measures
    <3>2. Work' < Work
      BY <1>1, <2>1, <2>2, <3>1, SMT DEF Work
    <3> QED BY <1>4, <2>1, <2>4, <3>2, Measures, SMT DEF Verifying
  <2> QED BY <2>1, <2>3, <2>4
<1>10. CASE TaskEnds
  <2>1. task \in {"drain", "end"} /\ task' = "none"
    BY <1>10 DEF TaskEnds
  <2> QED BY <1>3, <1>4, <2>1, Measures, SMT DEF Work, Verifying
<1> QED BY <1>6, <1>7, <1>8, <1>9, <1>10 DEF Playback

(* The steps beside it: the button, a power cut, the closing portal.       *)
LEMMA OthersWait ==
    ASSUME IInv, Verifying, pc = "playing", [Next]_vars, ~Playback
    PROVE  \/ UNCHANGED <<info, task, at>>
           \/ task' = "none"
<1>1. CASE UNCHANGED vars
  BY <1>1 DEF vars, statics, playback
<1>2. CASE PowerCut
  BY <1>2 DEF PowerCut
<1>3. CASE PressStop
  BY <1>3 DEF PressStop, statics
<1>4. CASE Web
  BY <1>4 DEF Web, OpenPortal, ClosePortal, PortalClosed, StreamStart, StreamVerify,
     StreamSend, statics, playback
<1>5. ~Begin /\ ~Recording /\ ~Notes /\ ~Play /\ ~PlayStart /\ ~PlayOver /\ ~Decay
  BY ZenonT(60) DEF Begin, Recording, BeginErase, CommitHeader, Append, Finish, Notes, Bind,
     BindErase, Forget, ForgetZero, ForgetErase, Decay, Play, PlayStart, PlayOver, WorkerMay, Call
<1> QED BY <1>1, <1>2, <1>3, <1>4, <1>5 DEF Next

(* Verification stays within the clip, and the measures go down.           *)
LEMMA RunsDownStep == IInv /\ Verifying /\ [Next]_vars => Verifying' /\ RunsDown
<1> SUFFICES ASSUME IInv, Verifying, [Next]_vars PROVE Verifying' /\ RunsDown
  OBVIOUS
<1>1. CASE pc = "playing" /\ Playback
  BY <1>1, TaskRunsDown DEF RunsDown
<1>2. CASE pc = "playing" /\ ~Playback
  <2>1. Work \in Nat \ {0} /\ task \in Tasks
    BY <1>2, WorkLeft, AtWork
  <2>2. StepsToStop(task) >= 0
    BY <2>1, Measures, SMT DEF Tasks
  <2>3. CASE UNCHANGED <<info, task, at>>
    <3>1. Work' = Work /\ StepsToStop(task)' = StepsToStop(task)
      BY <2>3 DEF Work, WorkFrom, StepsToStop
    <3> QED BY <1>2, <2>1, <2>3, <3>1, Measures, SMT DEF RunsDown, Verifying, Tasks
  <2>4. CASE task' = "none"
    <3>1. Work' = 0 /\ StepsToStop(task)' = 0
      BY <2>4, SMT DEF Work, WorkFrom, StepsToStop
    <3> QED BY <1>2, <2>1, <2>2, <2>4, <3>1, SMT DEF RunsDown, Verifying
  <2> QED BY <1>2, <2>3, <2>4, OthersWait
<1>3. CASE pc # "playing"
  <2>1. task = "none"
    BY <1>3, ZenonT(30) DEF IInv, Control
  <2>2. task' # "none" => PlayStart
    BY <2>1, ZenonT(60) DEF Next, Begin, Recording, BeginErase, CommitHeader, Append, Finish, Notes,
       Bind, BindErase, Forget, ForgetZero, ForgetErase, Decay, Web, OpenPortal, ClosePortal,
       PortalClosed, StreamStart, StreamVerify, StreamSend, Play, PressStop, Playback, Verify,
       VerifyFailed, Frame, WriteFrame, TaskEnds, Task, PlayOver, PowerCut, playback, vars
  <2>3. CASE PlayStart /\ task' = "verify"
    <3>1. at' = 0 /\ info' = info /\ pc = "play_shown"
      BY <2>1, <2>3 DEF PlayStart, statics
    <3>2. Fits(info)
      BY <3>1, ZenonT(30) DEF IInv, Playing, Shown
    <3>3. info.units \in Nat
      BY <3>2, SMT DEF Fits, Header
    <3> QED BY <1>3, <3>1, <3>3 DEF Verifying, RunsDown
  <2>4. PlayStart => task' \in {"verify", task}
    BY DEF PlayStart
  <2> QED BY <1>3, <2>1, <2>2, <2>3, <2>4 DEF Verifying, RunsDown
<1> QED BY <1>1, <1>2, <1>3

LEMMA VerifyingAlways == Spec => []Verifying
<1>1. Init => Verifying
  BY DEF Init, Verifying
<1> QED BY <1>1, RunsDownStep, Invariance, PTL DEF Spec

(* While the worker waits for the playback task there is work for the task *)
(* to do, and every step of the task brings it nearer to its end, which a  *)
(* cycle or a step back would not: after at most as many steps as the clip *)
(* has units, and two more for each of its frames, the worker gets the     *)
(* semaphore; and once the flag of memo_replay_stop is set, after at most  *)
(* four, whatever the length of the clip.  That the steps are taken at all *)
(* is the fairness of PlaybackEnds.                                        *)
THEOREM PlaybackRunsDown ==
    Spec => [](pc = "playing" => Work \in Nat \ {0}) /\ [][RunsDown]_vars
<1>1. IInv /\ Verifying => (pc = "playing" => Work \in Nat \ {0})
  BY WorkLeft
<1>2. IInv /\ Verifying /\ [Next]_vars => [RunsDown]_vars
  BY RunsDownStep
<1> QED BY <1>1, <1>2, Invariance, VerifyingAlways, PTL DEF Spec
=============================================================================
