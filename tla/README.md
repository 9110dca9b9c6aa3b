# A TLA+ model of Passport Memo

Passport Memo is firmware for an ESP32-C3 badge: hold a button and speak, the
speech is streamed to a recognition service, the text is reviewed, saved as a
note, and optionally pushed to an e-paper display (EE04) on the same network. This
directory models the parts whose correctness depends on the order in which
tasks, Flash writes and network events happen. Paths and line numbers are those of
the repository (`main/...`).

## The system

| Part | Code | State it keeps | Operations | What makes it hard |
|---|---|---|---|---|
| Note store | `memo_app.c` | NVS keys `n00`..`n31` and `draft`, the RAM list `ids`, `next_id` | save, edit, toggle, delete, draft, boot | each operation is several NVS calls; power may go between any two, every set, erasure and commit may fail, ids are reused after a boot |
| Replay cache | `memo_replay.c`, `memo_replay_format.c` | Flash partition with one clip and its header, RAM copy `info`, `ready`, write buffer | begin, append, finish, bind, forget, play, stream | pages written while the session may fail; a header that survives reboots names a note that may not; a task that plays what a handler streams |
| Recording session | `memo_asr.c` | event group, stop/cancel/failure flags, upload queue, transcript | run, stop, capture task, WebSocket events | three tasks and the button share it; everything is freed at the end; every wait has a time limit |
| Application | `memo_app.c`, `memo_actions.c` | `view`, key queue, application lock | keys by page, snapshot, status updates | keys are queued while the worker blocks; HTTP handlers use the same state |
| Portal and network | `memo_network.c`, `memo_portal.html` | HTTP server, access point, `portal_opened`, `station_dirty` | start, stop, expire, handlers, reconnect | two locks, a stop that waits for a handler, decisions kept across an unlock |
| E-paper sync | `memo_network.c` 567-616, `PassportLink.h`, `PassportProtocol.h` | four challenges, pairing key | challenge, signed write, signed reply | lost replies, expiry by a 32-bit clock |
| E-paper firmware | `companion/ee04/...` | frame, refresh counters, content, weather | pages, refresh, Wi-Fi, web page | partial and full refreshes with a panel that may hang |
| Helpers | `memo_core.c`, `memo_ogg.c`, `memo_clock.c`, ... | the fragment stream | stream feed, UTF-8 prefix, packet header | arithmetic at the buffer's edge |
| User interface, board | `memo_ui.c`, `ui_pixel*.c`, `components/bsp` | LVGL objects, drivers | draw, read, write | presentation and I/O |

How they meet: the button's callback (`memo_key`) puts keys in a queue, or, while
a session or a playback is on, sets atomic flags. The application worker takes the keys one at
a time and runs everything they start: NVS calls under the application lock;
the session, the synchronisation and the closing of the portal without it. The
HTTP server's task edits and deletes notes under the same lock. The capture
and WebSocket tasks live only inside a session and report to the page through
`memo_asr_update`.

## What is modelled

### NoteStore - notes, draft and clip on Flash

`NoteStore.tla` models `memo_app.c`'s storage operations and the header life cycle of
`memo_replay.c`. One action is one NVS or partition call together with the code
up to the next one; `op` names the call that comes next and `r` is the record in
the operation's hands. A multi-call operation keeps the application lock, so only
`PowerCut` can come between its steps. `pc` is what the worker does *without* the
lock: a session, a synchronisation (with the record it read in `sent`), or closing the
portal; then HTTP handlers may run.

| Model | Code |
|---|---|
| `note`, `draft` / `flashNote`, `flashDraft` | what `nvs_get` returns / what survives a power cut |
| `ids`, `nextId` | `ids[]`, `next_id` |
| `page`, `text`, `target`, `portal` | `view.phase`, `view.text`, `view.actions.record_id`, the HTTP server |
| `header`, `info`, `ready` | the clip's header on Flash and `memo_replay.c`'s statics |
| `SaveWrite .. SaveFlush` | `save_current` |
| `EraseRecord`, `RemoveCommit`, `Restore`, `Forget` | `remove_record` with `memo_replay_forget` |
| `ToggleDone`, `HttpEdit`, `SyncAcked` + `WriteCommit` | the three other callers of `write_record` |
| `SyncNote`, `SyncFails`, `SyncAcked` | the menu's synchronisation and the one after a save |
| `StartSession`, `EndSession`, `DraftCommit` | `memo_replay_begin`, `memo_replay_finish`, `save_draft` |
| `PowerCut`, `BootFrom` | any reset, and `memo_app_start` |

NVS is modelled from the way the code uses it: a set is visible at once and
durable when `nvs_commit` returns `ESP_OK`; at a power cut or a failed commit each
key that was set has its old or its new value. `PowerCut` allows any subset.
The faults are errors of sets, erasures and commits. Errors of reads are not modelled: at boot
`memo_app_start` takes a record it cannot read for an empty slot (592), and without a
`memo` partition (573-579) no note is shown and nothing can be stored, until the next boot.

Three ghosts: `limbo` (ids whose save or last deletion was reported failed; a deletion
that is then repeated and succeeds takes its id out),
`kept` (the last draft made durable and not yet replaced or saved) and the
`origin` field of a record (the text its recording was transcribed to).

Left out, because no property depends on it: seconds, timestamps, the selection on
the history page, messages, a record's `partial` flag, `memo_config_save` (one more
committer of the same NVS handle, which only makes durable what is already visible),
and playback (it changes nothing stored and blocks edits).

`Notebook.tla` is the promise behind all this, without rings, keys and commits: a note enters the
list because it was asked for, as the newest; it leaves because its deletion was asked
for; a reboot shows every note again, save those whose save or deletion was under
way or had been reported failed (`unsure`), which it may show or not. `NoteStore` implements it
(`KeepsPromise`) with `unsure <- limbo \cup InTransit`. One action of `Notebook` covers the step in
which the user learns the outcome; the calls before and after it are stutters.

### AsrSession - one recording session after another

`AsrSession.tla` models `memo_asr_run`, `capture`, `websocket_event` and the routing of
keys during a session. `worker`, `capture` and `socket`/`packet` are the program
counters of the three tasks; `bits` is the event group. A blocking call with a time
limit becomes one action per outcome, and the time-out is possible whenever the
awaited thing has not happened. `fail()` is two steps (claim; report), because the
tasks race in it. `receive_packet` is two steps as well: it stores the text, reads
`current_phase`, and then waits for the application lock in `memo_asr_update`.
Audio is counted: a batch of the queue is the interval of frames it carries, and the
Ogg headers are the empty interval.

After a session the model goes back to `idle` and may start another one, so
that state left behind by one session is met by the next. `memo_asr_run` starts the
session at the moment the page shows CONNECTING (`StartSession`); the reset of
the flags is a later step (`Reset`), because stopping the portal and playing the start sound
come in between.

Taken from the libraries: FreeRTOS queues, notifications and event groups do what
they document; `esp_websocket_client_stop` returns when the client's task has
finished the event it is handling (`Listening`, `CloseSocket`). One read of
the page and the flag it leads to (`memo_key`) is one step.

### ReplayCache and Clip - the latest recording

`Clip.tla` is the promise: the application's one recording is absent or is a whole clip of
one recording with the text transcribed from it, published once, given a note's id at most
once, and back after a reboot only as what was durable. `ReplayCache.tla` models
`memo_replay.c` and the slicing and export of `memo_replay_format.c` and `memo_replay_export.c`
call by call of the partition driver, and implements `Clip` (`KeepsPromise`, an
`INSTANCE ... WITH`).

| Model | Code |
|---|---|
| `header`, `data` | the partition: page 0 and, unit by unit, which recording each place holds |
| `info`, `ready`, `writing`, `buffered`, `written`, `checksum`, `stopped` | the statics of the same names |
| `Begin`/`BeginErase`, `Append` + `Flushed`, `Finish` + `CommitHeader` | `memo_replay_begin`, `_append`, `flush`, `_finish` |
| `Bind`/`BindErase`, `Forget`/`ForgetZero`/`ForgetErase` | `memo_replay_bind`, `memo_replay_forget` |
| `StreamStart`, `StreamVerify`, `StreamSend` | `audio_page` and `memo_replay_export` |
| `Play`, `PlayStart`, `Verify` .. `TaskEnds`, `PlayOver` | `process` 363-386, `memo_replay_play`, the task `playback` |
| `PowerCut`, `Interrupted`, `Decay` | a reset in the middle of an erase or write; Flash that no longer reads as written |

A recording is a row of units, numbered by the recording that wrote them; a packet has 2, the
write buffer 3, so that packets straddle writes as 40 bytes do in 4096. A CRC is
the recording and the number of units it was fed with: it is right exactly if the data are
those, all of them and of that recording. The read of the header at boot succeeds; an error there
(`memo_replay_init`, 48) only hides the clip until the next boot or recording.

### Portal - setup hotspot, station and their locks

`Portal.tla` models `memo_network.c`: `pc[t]` places the application's worker and
`network_worker` between two uses of shared state, `http` the one handler that
runs, `event` the event task. `portalLock` and `appLock` are the two mutexes. A section
under the application lock is one action, which needs the lock free, because no code waits
while it holds it; only `process`, which holds it from the key on, keeps it across actions.
`aged` is the comparison with `portal_opened`. The Wi-Fi driver is external: it stops or
refuses to (`WifiGoesOn`), accepts or refuses a configuration, and queues events, among them one
for a station it stops. A refusal to stop when the portal has just been closed leaves the access
point on the air, without a server, while screen and `portal_active` say closed - against
`docs/troubleshooting.md:10`, "setup closes its local HTTP service and hotspot" - until
`network_worker`, which finds the station marked, tries again.
The model starts after `memo_network_start` succeeded; when it fails, `memo_portal_start`
says so and nothing else runs.

### PassportLink and Epaper - the e-paper board

`PassportLink.tla` models both ends of the exchange: `memo_sync_record` with its 3.5-second
requests, and `PassportLink.h`, `PassportProtocol.h` and the note of `NetworkDemo.h`. `backlog` is
the port's queue of connections: the board serves them in its own time, so also those
whose sender has given up. Replies and requests may be lost. A signature is the key
and the fields it signs. `Age` turns a challenge of an attempt that is over young or old at
will, which includes the wrap-around of the 32-bit age after 49.7 days.

`Epaper.tla` composes it with `loop()`: keys and serial commands, `render`, the two halves of
`network.tick` - one request of the link (`Tick`), then one of the phone (`Phone`) - and
`applyNetworkChanges`, which looks at the note and then at the picture, so that a picture of the same
turn takes the display. The key diagnostics (`paused`) stop all but keys and commands. `frame` is what the firmware believes the panel shows, `glass`
what it shows; a failed refresh may leave anything. Simplifications: three pages (home, note, picture) stand for
eight; a picture is there or not; a long note has one sheet, as turning its sheets is a
key like turning pages; two calls of `applyNetworkChanges` in one turn are one; the 15 minutes and the
large rectangle are one choice; `panelInitialized` follows `frameValid`; a preference that
cannot be written leaves everything as it was. A body of a note is its text and whether it is done.
The two have been paired at the start, and may be unpaired and paired again.

### MemoApp - keys, pages and menu

`MemoApp.tla` models `memo_key`, `worker`, `process` and `memo_actions_step` over a note list whose
storage calls succeed or fail as a whole (`NoteStore` has them one by one). `keys` is the
queue, `pc` what the worker is blocked in, and a page's `text` is the note it is the text
of. The portal removes notes as it does in `NoteStore`.

## The runs

| Run | Module, cfg | Bounds | Shows |
|---|---|---|---|
| `store_cuts` | `NoteStoreMC`, `NoteStoreCuts.cfg` | 2 slots, 2 texts (symmetric), ids to 4 | `TypeOK`, `ClipMatchesNote` with power cuts at every step |
| `store_nvs_faults` | `NoteStoreNvsFaults.cfg` | 2 slots, 1 text, ids to 3, sets, erasures and commits may fail, no replay partition | `StoreMirrorsList`, `DraftSurvives`, `SentIsCurrent`, and the refinement of `Notebook` |
| `store_stale_audio` | `NoteStoreStaleAudio.cfg` | 2 slots, 1 text, ids to 2 | violation of `DeletedAudioGone` |
| `session` | `AsrSession`, `AsrSession.cfg` | queue of 2, batches of 2, 4 frames | eight invariants and `SessionEnds` |
| `session_lost_stop` | `AsrSessionLostStop.cfg` | queue of 1, batches of 2, 2 frames | violation of `StopNotLost` |
| `session_lost_audio` | `AsrSessionLostAudio.cfg` | as above | violation of `NothingLeftBehind` |
| `replay` | `ReplayCache`, `ReplayCache.cfg` | 2 texts, 2 ids, packets of 2 units, buffer of 3, up to 4 frames, 2 recordings | six invariants, `PlaybackEnds`, and the refinement of `Clip` |
| `portal` | `Portal`, `Portal.cfg` | 2 configurations, 1 Wi-Fi event waiting | five invariants, `WorkerReturns`, `ExpiryCloses`, `ConfigReaches` |
| `portal_lost_extension` | `PortalLostExtension.cfg` | 2 configurations, 2 events waiting | violation of `ExtensionHolds` |
| `epaper` | `Epaper`, `Epaper.cfg` | 2 bodies, ring of 2, 2 keys, 2 connections waiting, 2 partial refreshes, 3 events | five invariants and `NoteIsShown` |
| `app` | `MemoApp`, `MemoApp.cfg` | list of 3, ids to 4, queue of 2 | `TypeOK`, `ShownIsSelected`, `DeletesWhatIsShown` |
| `app_stale_key` | `MemoAppStaleKey.cfg` | list of 3, ids to 3, queue of 3 | violation of `ReviewedBeforeSaved` |

Why the bounds are enough. Two slots give a full ring, a hole in it and a wrap
around; ids to 3 or 4 give a second lap, a failed save that used up an id, and an
id taken again after a boot. One text is enough where no property compares texts of
different notes; two are needed for the wrong recording. `IdBound` only ends the
run: the proofs do not use it as a bound. The queue of 2 with batches of 2 and 4
frames has full batches, a last one with the padding, and a
queue that is full while the worker sends, which ends the capture. Two recordings of 4 frames have
a first one to be left over or torn, writes that end inside a packet, the frame limit and
the sample limit. Two configurations are one to be forgotten and one to replace it. A ring of 2 challenges
with 2 connections waiting is the ratio of the code the other way round: the
ring can be overrun by the dead requests, which `LiveChallengeKept` is about. Three
events (a key, an edit, a picture, a pause, a new pairing, an attempt, a failure, a restart) are one more than any
counterexample of a mutant needed; `EventBound` does not count the loop's own steps, nor
refreshes. A list of 3 has a first, a middle and a last note to remove. Deadlock is
checked in every run.

What the properties of a session say:

- `NoUseAfterFree`: at the frees of lines 464-476, and until the next session's
  resources exist, no other task can touch them, on every one of the error paths.
- `PageSettles`: when `memo_asr_run` has returned, no active phase is on the page (in
  which keys would go to a session that is over).
- `MicOnlyAfterRequest`: the comment at 210-211, including sessions torn down early.
- `AudioAccounted`: the frames sent, in hand, queued and in the chunk are one gapless
  sequence unless a failure was claimed. A last batch still in the queue when the session
  ends counts as accounted for: only `NothingLeftBehind` asks for an empty queue.
- `StopHasCause`: nothing of the last session stops this one.
- `EndExplained`: a session without a final result has a failure text, or was stopped by
  its user, or hit the text limit - the message shown at the end is never a guess.
- `WaitsEnd`: the three waits without a time limit - the worker's for the encoder (331) and for
  `CAPTURE_DONE` (457), the capture task's for its go-ahead (213) - are always for somebody
  who can still move, or for a bit that is already set. Nobody waits in a circle.
- `SessionEnds`: see fairness.

Of the replay cache: `ClipComplete` (a header that reads has all its audio behind it),
`WritesErasedFlash`, `PlaysTheRecording` (every sample of the clip, no pre-skip, no padding, never
an unverified take), `StopObeyed`, `ServedUndisturbed` (a clip that is being streamed to a
browser is neither replaced nor bound), `PlaybackEnds`.

Of the portal: `PortalOnlyInSettings` is what lets `NoteStore` and `ReplayCache` take the portal
for closed during sessions, saves and playbacks; `ViewShowsPortal` relates the screen, the
server, the radio and `portal_active`: an open portal is on an access point, and one that could not be
ended is marked for another attempt; `ConfigNotForgotten` and `ConfigReaches` follow a saved
configuration to the driver through failures (and `ConfigReaches` says that in the end no access point
is left over); `OnlineIsCurrent` is about events of an
earlier connection that are handled late.

Of the board: `ReceiptIsDurable` (through lost replies, dead requests served late and
restarts), `LiveChallengeKept`, `FrameIsGlass` and `GhostingBounded` (a partial refresh has a base
that is true, and not too many of them lie on a full one), `NoteIsShown` (of the notes and pictures
handed to the display the last one is drawn, unless the user turns the page, the board restarts or a full refresh
fails; a note may be displaced before it was ever drawn, by a picture of the same turn or while the
panel cools). `ReceiptIsDurable` is also what the wrap-around of a challenge's age could break;
`LiveChallengeKept` does not see it, as only challenges of attempts that are over age in the model.

**Fairness.** `NoteStore` and `MemoApp` state none; their properties are all safety. `AsrSession`
assumes weak fairness of the worker inside a session, of the capture task, of the result
being published and of a claimed failure being reported: FreeRTOS runs every ready task,
and all waits of the code but two (for the encoder and for `CAPTURE_DONE`) have a time limit.
`ReplayCache` assumes the same of the playback task and of the worker in a playback. `Portal`
assumes strong fairness of the two workers and of the handlers, because they wait
for mutexes, which FreeRTOS hands to the waiting task of highest priority and which no
holder keeps; handlers end, as their reads have 5-second limits and a stream is cut off after 15 seconds
(`recv_wait_timeout`, `audio_chunk`); and the driver does not refuse to stop, or a configuration, for
ever, as nobody could show it one otherwise. `Epaper` assumes weak fairness of the loop (which does nothing while it is paused) and strong
fairness of `Show`: an attempt may be turned down while the panel cools, 3 seconds at most.
Nothing is assumed anywhere of the button, of servers and browsers, of the connection, or of a
session ever being started.

## Findings

1. **Deleted audio survives a power cut** (`store_stale_audio`). `remove_record`
   commits the deletion and then forgets the clip; a cut in between leaves the recording on
   Flash with the id of a note that is gone, and `memo_app_start` does not compare them.
   `docs/security.md:5` promises that the deletion clears it. The clip is not offered
   for another note: `ClipMatchesNote` holds, because every path to a new note with
   a reused id goes through a session that erases the partition first, or saves a draft
   that came from the same recording. It holds only while storage works: with
   `NvsFaults = TRUE` in `NoteStoreCuts.cfg` TLC finds that a session whose draft is refused,
   but whose note is saved, bound and deleted with a power cut before each call's end,
   leaves an older draft to be saved under the clip's id.
2. **A Stop or Cancel can be lost** (`session_lost_stop`). The page shows CONNECTING before the portal
   is stopped and the start sound played; `memo_asr_run` clears the flags
   afterwards. The user has to press again. `memo_replay_play` clears its flag in the same
   way (line 295), with a shorter window.
3. **The last batch can be left in the queue** (`session_lost_audio`). The worker's receive
   times out, the capture task queues its last batch and sets `CAPTURE_DONE`, and the
   worker, seeing the bit, sends the end request. The window is a few instructions wide, but the
   capture task has the higher priority and does not block between the two. Checking the queue
   once more after `CAPTURE_DONE` would close it.
4. **An extension of the setup window can be lost** (`portal_lost_extension`). `network_worker`
   decides under `portal_lock` that ten minutes are over and calls `memo_portal_stop` after it has given
   the lock back. Comparing again inside would close it.
5. **A note can be saved that nobody reviewed** (`app_stale_key`). Keys pressed while a synchronisation
   blocks the worker are queued: hold UP, OK, OK on the list leave it, start a session, and
   save its transcript the moment it ends. Emptying the queue when a session ends would close it.

## What is proved

`NoteStoreProofs.tla` proves, for every ring size, every set of texts and every combination of
the fault switches, with power cuts at every step:

- `SaveFindsFreeSlot`: `save_current`'s loop, which stops after `MEMO_HISTORY` attempts
  *whether or not* it found an unused slot, always finds one. The argument is the pigeonhole
  principle: `History` consecutive ids have different slots (`ConsecutiveSlots`), and fewer
  than `History` of them are in use.
- `TypeCorrect`, `ListIsSound`, `NotesAreDurable`, `DraftIsKept`, `SyncLosesNoEdit`: the
  invariants `TypeOK`, `ListSound`, `StoreMirrorsList`, `DraftSurvives`, `SentIsCurrent`.

The inductive invariant `IInv` adds to them what the operations in progress know: `ControlSound`
(which page goes with which unlocked activity; the portal is up only in the settings or
while it is being closed - without it an edit could come during a synchronisation),
`RecordInHand` (a record being saved has a slot no listed note has; one being removed
is out of the store and still listed) and `DraftSound` (a text being saved is the draft
that was kept). There is one lemma per conjunct (`TypeStep`, `ControlStep`, `ListStep`,
`HandStep`, `DraftStep`, `SentStep`, `StoreStep`), each with a step per action.
The proofs assume the named assumptions of `NoteStore`, no more.

`NotebookProofs.tla` proves the refinement, `StoreKeepsPromise`: `Spec => KeepsPromise`, for every ring
size and with every error of a set, an erasure or a commit and every power cut. `IInv` is not enough for it: it relates Flash to
the list only where no failure was reported, and a reboot reads all of Flash. Two
conjuncts are added. `FlashIsListed`: every record on Flash is of a listed note or of one in
doubt, so a reboot cannot bring back a note whose deletion succeeded - `RemoveCommit` empties
the slot before the list forgets the id. `DoubtSound`: ids in doubt are below `nextId`, the id being
saved is not one of them, and a note that leaves the list has left Flash. The steps are
sorted by what the notebook sees: `AskSave` (`SaveWrite`), `Saved` (`DraftErase`), `AskRemove`
(`EraseRecord`), `Removed` (`Forget`), `Reboot` (`PowerCut`), and nothing (`UnsureFrame`,
`StoreFrame`). That a new id always has a free slot comes from `SaveFindsFreeSlot`.

For the clip, `OfferSurvivesReboot` (`OfferedIsDurable`) needs only that nothing is offered during a
session (`OfferSound`), and holds whatever calls fail. `ClipIsTheNotes` is
`Spec => [](StorageWorks => ClipMatchesNote)`, with `StorageWorks` for "no storage call returns
an error": `ClipSound` says that while a clip is bound to an id, every record of that id
and every draft, visible or durable, comes from the clip's recording, so an id taken again
can only go to the same text; a session, the one source of another draft, finds the clip
erased. The condition is needed (see finding 1).

`AsrSessionProofs.tla` proves, for every queue size, batch size and length of a recording, the
eight invariants of the `session` run: `TypeCorrect`, `SharedStateOutlivesTasks`
(`NoUseAfterFree`), `PageOfEndedSession` (`PageSettles`), `MicrophoneWaits`
(`MicOnlyAfterRequest`), `NoAudioLost` (`AudioAccounted`), `StopIsCaused` (`StopHasCause`),
`EndsExplained` (`EndExplained`) and `NobodyWaitsInCircles` (`WaitsEnd`). Beside the types, none is inductive alone. The inductive
invariant adds what each task's place says about the others: `CaptureLife` (the capture task
lives from its creation to its join, and `CAPTURE_DONE` is its last word), `SocketLife` (a result
is in hand only while the client runs), `FailLife` (who can be inside `fail()`, and what a claim
leaves), `GoAhead` (speech needs the go-ahead, the go-ahead needs the request), `AudioShape`
(a batch is in the worker's hand only on its way to the socket; no batch ends beyond the frames
encoded) and `ClosedWithCause` (a session being closed without success already has its
reason). `AudioAccounted` rests on two lemmas: `SameAccount` (moving a batch from the queue to the
hand leaves their concatenation alone) and `AppendAccount` (a batch that begins at the
chunk's first frame moves that frame to its own end). `WaitsEnd` adds `WaitSound`: before the request is accepted nothing is claimed by
others than the encoder, a claim that is reported has set `FAILED`, the queue is empty until the headers. The one
assumption is `SizeAssumption`.

How long a session can last is proved as far as safety goes, by measures.
`CaptureEndsInBoundedSteps`: each step of the capture task lowers `CaptureWork`, at most
`4 * MaxFrames + 9`, and no other task raises it; from the stop flag on the same holds of
`StopWork`, at most 9, wherever the task is. `WorkerEndsInBoundedSteps`: once the capture
task is done, each step of `memo_asr_run` lowers `WorkerWork`, three steps for each batch
still queued and a fixed number before and after. What the measures do not say is that a task takes a step;
`WaitsEnd` says that the three unlimited waits are no obstacle, and fairness the rest.

`ReplayCacheProofs.tla` proves, for every size of partition, packet, write buffer and frame and any
number of recordings and notes, all six invariants of the `replay` run - `TypeCorrect`,
`ClipsAreComplete` (`ClipComplete`), `WritesGoToErasedFlash` (`WritesErasedFlash`), `RecordingIsPlayed`
(`PlaysTheRecording`), `StopIsObeyed` (`StopObeyed`), `PreviewIsUndisturbed` (`ServedUndisturbed`) -
and the refinement: `CacheIsAClip`, `Spec => KeepsPromise`. The inductive invariant has four
parts. `Control`: a recording, a note's calls, a playback and a preview exclude each other, and
nothing is offered during the first two. `Cache`: a header that reads fits its audio (`Fits`,
`CrcMatches`); while a recording is written, the partition holds its flushed units and zeros
behind them, and flushed and buffered units are the packets counted (`Row`); a header to be
written belongs to a blank page and to audio that is there. `Preview`: what was sent. `Playing`:
what the playback task knows at each place (`Progress`), above all that the samples played
before frame `f` are `PlayedBy(f)`. `Slices` shows that the slices add up (this needs
`MEMO_REPLAY_PRESKIP` below one frame), `ExportFits` that the export asks for no frame
beyond the last. `StepClip` maps each step to one of `Clip`: an erase that fails half-way is an
erase, a header write that fails after its last byte is a write without an offer, a power cut
is a reboot that completes or undoes the call. Assumed: `SizesAssumption`,
`ValuesAssumption`, and that `NoClip` is not a record. `PlaybackRunsDown` is the measure of a
playback: while the worker waits for one, each step of the task lowers
`Work`, and no handler or button raises it.

`PortalProofs.tla` proves, for any number of configurations and waiting Wi-Fi events, the five
invariants of the `portal` run: `TypeCorrect`, `PortalStaysInSettings` (`PortalOnlyInSettings`),
`ViewIsTrue` (`ViewShowsPortal`), `ConfigsAreRemembered` (`ConfigNotForgotten`), `OnlineIsKnown`
(`OnlineIsCurrent`). The inductive invariant says who has each lock (`Locks`) and, for every place of
the portal lock's holder, how far screen, server, radio and flag have got (`Phases`); free, they
agree, save for an access point that could not be ended, which is marked (`Shows`). `Brought` is the configuration's way to the driver. `Current` is about late
events: outside a change of the radio, the newest waiting event tells how the station
stands, and when none is left the device knows (`Known`); without a configuration nothing
says "online" (`Unconfigured`). `PortalLockIsGivenBack` is what the liveness of the portal rests
on: `StepsLeft` puts a number on every place of the two tasks, and each step of the holder of
`portal_lock` gives the lock or lowers the number (at most 13), each step of the worker on its way through
a start or a stop lowers it (at most 14), on the failing paths too; nobody else's step changes them.
`LockWaits` is the lock order - `process` alone has the application lock, and then it neither has nor
awaits the portal's - and says that `httpd_stop` waits with a server that admits nothing; `HandlersDrain`
that the running handler has at most two steps left.

`EpaperProofs.tla` proves, for any number of waiting requests, challenges, keys and notes, the five
invariants of the `epaper` run: `TypeCorrect`, `ReceiptsAreDurable` (`ReceiptIsDurable`),
`ChallengesAreKept` (`LiveChallengeKept`), `FrameIsOnGlass` (`FrameIsGlass`), `GhostingIsBounded`
(`GhostingBounded`). For the panel: a valid frame is on the glass, and the firmware's count of partial
refreshes is then the true one (`Panel`). For the link (`Link`): what the badge holds for
synchronised is the stored note, and no write is waiting (`Kept`); the request it waits for is the
newest (`Asked`), and its write is alone, with its challenge in the ring while the keys agree
(`Live`). A nonce that was not used is always to be had, because ring, waiting writes and the attempt together hold fewer
than there are - a counting argument on finite sets. `TakenNoteIsNotForgotten` is the safety half
of `NoteIsShown`, for the note or the picture taken last: it is requested, or its page is chosen and due, or
it is in a valid frame (`TakenOnItsWay`); the next refresh that the panel accepts puts it on the
glass (`RefreshShowsTaken`); and only a later note or picture, which is then the one taken, a key that turns
the page, a restart or a failed full refresh gives it up (`GivenUpFor`). It rests on `Handed`:
a request is looked at in the turn that served it.

`MemoAppProofs.tla` proves, for any length of list and queue, `TypeCorrect`,
`SelectionIsShown` (`ShownIsSelected`) and the action property `DeletionIsAsked`
(`DeletesWhatIsShown`). The invariant adds which pages can go with what the worker is blocked in
(`Control`), and that the page's text is the selected note's while it may be removed by others
(`Shown`).

Every safety property of the passing runs is proved, the action property
`DeletesWhatIsShown` and both refinements among them; `ListIsSound` (`ListSound`) and
`OfferSurvivesReboot` are proved and run only as parts of other properties: a list that is not
sound cannot implement `Notebook`, and `ReplayCache`'s `ClipComplete` says of the offered header what
`OfferedIsDurable` says. Only model-checked is liveness under
fairness, which is out of the prover's reach: `SessionEnds`, `PlaybackEnds`, `WorkerReturns`,
`ExpiryCloses`, `ConfigReaches`, `NoteIsShown`. Their safety halves are proved: the measures of a session, a playback and the portal's lock,
`ConfigsAreRemembered` and `TakenNoteIsNotForgotten` say that nothing is forgotten and that every
step of the task in question brings the end nearer. That these steps are taken is the
fairness assumption, with ENABLED, and stays with TLC.

## Not modelled

- The font `memo_font_16.c`: 17963 generated lines of bitmaps, three quarters of the
  implementation by lines. The rest has about 5800, and the models map about
  a quarter of all lines at most however complete they are.
- The user interface (`memo_ui.c`, `ui_pixel*.c`): it draws from a snapshot of the view and
  writes nothing back but the scroll position.
- Board drivers (`components/bsp`): register sequences and start-up code with no state of
  their own that another task changes.
- Pure functions of one buffer: the ASR packet parser and `memo_stream_feed`, CRC, Ogg pages,
  PCM levels, UTF-8 prefixes. The repository's `tests/` call them directly; their
  results enter the models as outcomes.
- HTTP, JSON, TLS and HMAC; the pages of the two portals; the EE04's weather, the
  bytes of its pictures, note sheets and battery sampling, and the host tools.
- Brightness, sounds, messages and timestamps, on which no property depends.
