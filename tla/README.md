# Jukeboy firmware: TLA+ verification

Specifications, model-checking runs and machine-checked proofs for the firmware
in `src/main/`: an ESP32 music player that reads tracks from SD "cartridges",
decodes Opus and plays to I2S or Bluetooth. All paths below are relative to
`src/main/` unless they say otherwise.

1. Inventory of the system
2. Modules and how they correspond to the code
3. Runs: what is checked, with which bounds and fairness
4. Proofs
5. What the checks found
6. Abstractions, and what is not modelled
7. Plan

---

## 1. Inventory

The firmware is a set of services, each with FreeRTOS tasks, queues and static
state, which meet through direct calls, `esp_event` messages, task notifications
and shared variables.

| Component | State it keeps | Operations | Talks to | What makes it hard; what makes it correct |
|---|---|---|---|---|
| **Player pipeline** (`player_service.c`, tasks `player_svc`, `player_reader`, `player_decoder`) | command, chunk and start queues, buffer pool semaphore, PCM stream, idle bits, generations, `s_track_info` with its lookup window | start and stop of a track, chunk loop, decode loop, completion | cartridge reader (async reads), audio output (pulls PCM), event loop | three tasks and the API callers share state without a lock. No data of an old session, no lost buffer or wake-up, stops end, each track is completed once |
| **Cartridge reader** (`cartridge_service.c`, `cart_reader`) | request queue of one, two read buffers, result slot, mount generation | serve a read, refuse a read of an earlier mount | notifies the waiting task | one outstanding read, double buffering, unmount during a read |
| **Cartridge mount, metadata, status** (`cartridge_service.c`, `jukeboy_jbm_*`) | mounted flag, metadata blob, open file, status | mount, unmount, load and validate metadata | posts INSERTED (boot only), MOUNTED, UNMOUNTED | metadata freed under readers; validity of counts and offsets |
| **Playlist, modes, shuffle, seek** (`player_service.c`) | mode, shuffle order and position, index, second, paused, countable flag | NEXT, PREVIOUS, PLAY_INDEX, seeks, PAUSE, mode change, advance, insert, remove | play history and Last.fm via events | a mode change runs in the caller's task; refused starts. The order is a permutation, no repeats in a pass, a play counts once |
| **Resume state** (`player_service.c`, shutdown part of `power_mgmt_service.c`) | RTC copy, NVS blob | cache, persist, load, erase | power management's shutdown callbacks | resets at any moment, cartridge swaps, two copies, a timed-out callback |
| **Power management** (`power_mgmt_service.c`) | rail reference counts, overrides, DAC mute state, shutdown callbacks, pending action | request, release, override, all off, reboot, download | the LED, the one client that counts; every service with a shutdown callback | the lock is dropped while a rail's event is posted, counts are reset under their owners; pins, callbacks and posts fail. A rail is what its count and override say; none is on at a restart |
| **Audio output switch, I2S** (`audio_output_switch.c`, `i2s_service.c`) | target, provider; I2S state and command queue | select with roll-back, fall back when A2DP drops, start and stop | player (PCM provider), Bluetooth | select is several calls without a lock and races the Bluetooth events, queues fill up, a select rolls back, the I2S channel may refuse to start. The provider follows the target, never two outputs pull, a lost speaker leaves the sound on I2S |
| **Bluetooth** (`bluetooth_service.c`) | GAP/A2DP/AVRCP state, bonded peer, pairing window | connect, reconnect, pair, disconnect, media control | audio switch, player | callbacks of the Bluetooth stack against its own queue, which drops them when full |
| **Wi-Fi** (`wifi_service.c`) | state, slots, retry counters, SNTP | connect, disconnect, scan, autoreconnect | event handlers, companion, Last.fm | events of an abandoned attempt; retries |
| **Play history** (`play_history_service.c`) | inbox of events, cache of albums and tracks, dirty flag, commit request and result, history file | play, sync with the cartridge, clear, rebuild, commit | cartridge and player events, console, shutdown callback, Last.fm | capacity, the file rewritten in place and failing half way, one result for all who commit. Who is told "saved" has its changes on flash |
| **Last.fm** (`lastfm_service.c`) | session, command queue, scrobble queue, the queue set over both | authenticate, enqueue, send, requeue | HTTP, play history, Wi-Fi | lost answers and retries, scrobbles that can never be sent, entries of the queue set taken apart from their items. Order kept, a waiting scrobble wakes the task, the queue empties |
| **Companion API** (`companion_api_service.c`) | link, authentication, frame reassembly | requests and notifications | all services | sequence numbers, partial frames |
| **HID and ULP scanner** (`hid_service.c`, `ulp/ulp_hid.S`) | the status LED and whether its rail was requested; the button word the ULP program debounces | LED colour, brightness, off; copy the word, post differences | power management, player, console, companion, scripts | the strip and the LED's rail can each fail half way, also in a reboot. A call that succeeds leaves both as asked |
| **Scripts** (`script_service.c`, `script_socket_env.c`) | life cycle of one WASM script | run, stop | all services | stop races the script's end |
| **Console** (`console_service.c`) | none of its own | commands | all services | order of calls, for example unmount before reboot |
| **QEMU support, RAM disk, start-up, boot loader, host tools** | | | | not modelled: emulator plumbing, fixed initialisation, or not firmware |

The hazards, each at its line and with the properties aimed at it, are listed in
`PROJECT.json`.

---

## 2. Modules

| Module | Models, states or proves | Extends |
|---|---|---|
| `PlayerPipeline` | the pipeline and the cartridge reader | |
| `Playback` | abstract specification: one session at a time | |
| `PlayerPipelineSessions` | the refinement of `Playback` by `PlayerPipeline` | `PlayerPipeline` |
| `PlayerPipelineProofs` | theorems about `PlayerPipeline` that need no assumption on scheduling | `PlayerPipeline` |
| `PlayerPipelineSessionProofs` | theorems about sessions that do not overlap | `PlayerPipelineProofs` |
| `PlayerPipelineOrderProofs` | theorems about what a session plays, and the refinement of `Playback` | `PlayerPipelineSessionProofs`, `PlayerPipelineSessions` |
| `PlayerControl` | tracks, seconds, modes, shuffle | |
| `PlayerControlProofs` | theorems about `PlayerControl` | `PlayerControl` |
| `ResumeState`, `MCResumeState` | saved positions over reboots; its symmetry for TLC | |
| `ResumeStateProofs` | theorems about `ResumeState` | `ResumeState` |
| `PlayHistory`, `Scrobbles`, `Listens` | the play history; Last.fm's queue; the two together | `Listens` extends both |
| `ListensProofs` | theorems about `Listens` | `Listens` |
| `AudioOutput`, `MCAudioOutput` | the output switch over I2S and Bluetooth; its constraint for TLC | |
| `AudioOutputProofs` | theorems about `AudioOutput` | `AudioOutput` |
| `LedPower`, `MCLedPower` | the rails and the LED, up to the restart; its symmetry for TLC | |
| `LedPowerProofs` | theorems about `LedPower` | `LedPower` |

### PlayerPipeline (checked and proved)

The pipeline of the player and the cartridge reader it pulls its data from: the
core of the program and by far its most concurrent part.

| Actor in the model | Code | Steps |
|---|---|---|
| `Svc` | `player_service_task` and every handler | take a command; if the pipeline runs, set the stop flags and wait for the idle bits (`SvcStop`, `SvcStopWait`, `SvcStopTimeout`, `SvcStopReset`); load the track's header through the cartridge reader (`SvcStart`, `SvcLoaded`); commit; reset the pipeline; send the two start commands |
| `Reader` | `player_service_reader_task` | take the start, clear the idle bit, wait for the decoder; then for each chunk: lookup window, bounds, flush message, buffer token, SD read and notification, chunk message; end of file; idle bit |
| `Decoder` | `player_service_decoder_task` | take the start, clear the idle bit, open; receive, decode, write PCM; idle bit; wait for the reader; TRACK_COMPLETE |
| `Cart` | `cartridge_reader_task` | take a request, serve or refuse it under the mutex, notify the waiter |
| `Output`, `EventLoop`, `Callers` | `player_service_pcm_provider`, `player_service_on_cartridge_event`, public API, `sd mount`, `sd unmount` | |

One action is one stretch of code between two points where another task can
observe or change something it uses. The variables carry the source's names; a
chunk message additionally records, as history, the generation that queued it
and what its buffer held.

### Playback and the refinement (checked and proved)

`Playback` is what code that starts and stops tracks may rely on: a session plays
one track from one chunk on, chunk by chunk; it ends after the last chunk, or
earlier once it was cancelled; only then does the next one start; between
sessions the position belongs to whoever restores it.

| Playback | PlayerPipeline |
|---|---|
| `running` | `SessionRuns`: from the assignments of `player_service_start_track` until both tasks are through; a decoder that has only TRACK_COMPLETE left to report is through |
| `cancelled` | `stopRequested`, the flag `player_service_should_stop` reads |
| `session`, `track`, `at` | `activeGen`, `index`, `currentChunk` |

Every step of the pipeline is a step of `Playback` or a stutter (`OneSession`), with
two commands in flight, under the assumptions of `pipeline_prompt`; section 4 proves it for any
number of commands. Without the assumptions it is false: `pipeline_stale` is two sessions at the same time, and after a stop that timed
out the next one starts beside the old one.

### PlayerControl (checked and proved)

Which track and which second the player goes to next, and the shuffle order. A
handler that stops the pipeline is two steps (`Stop`, then one of the `Stopped…`
actions), because the decoder still moves `s_current_chunk` and
`s_countable_play_emitted`, and a mode setter may run, while the service waits.
`player_service_build_shuffle_order` is a small process of its own with one step
per array access (`BuildFill`, `BuildSwap`, `BuildPut`, `BuildFix`), run by
`player_svc` and by each task in `Setters`. The pipeline appears by what
`PlayerPipeline` checks of it: the position moves chunk by chunk (`PlaysInOrder`), the end reported
once (`CompletionOnce`), stops that end (`StopEnds`).

### ResumeState (checked and proved)

The two saved positions, the load and erase logic of
`player_service_load_saved_playback_status`, and the reboot: the player's
shutdown callback with its five-second limit, the callbacks after it, the pending
restart. `Crash`, `PowerLoss` and `Boot` happen at any moment, any number of
times; at every boot, and at every `sd mount`, any cartridge may be in the slot.
Playback appears by its effects on index, second, playing and paused.

### PlayHistory, Scrobbles and Listens (checked and proved)

A listen is an event TRACK_BECAME_COUNTABLE (the play that `PlayerControl` counts
once). It waits in the history's inbox until the main loop applies it to the
cache (`ApplyPlay`); the main loop then, with the history's lock released, hands
it to `lastfm_service_on_listen_count_incremented`, which puts it into the queue of
scrobbles (`SendScrobble`); the Last.fm task takes it, looks its track up in the
history (`Resolves`), sends it or puts it back at the front (`Receive`, `Process`,
`Sent`, `SendFails`, `Requeue`).

`PlayHistory` has the inbox with its compaction of repeated requests, the passes of
the main loop with their limit, the cache with the eviction of the album seen
first, and the commit: any task asks for it and polls (`AskCommit`,
`CommitReturns`), the main loop rewrites the file (`CommitWrites`) or fails
(`CommitFails`) and leaves the file as it was, cut, partly rewritten, or complete
though closing it failed. An album stands for its cartridge and its tracks, which
enter and leave the cache together.

`Scrobbles` has the FreeRTOS queue set at its centre. Each send to a member adds
an entry to the set; entries and items are taken together only by the task while
it is online. Offline the task receives commands without the set, and a full
queue of scrobbles drops an item whose entry stays. The set is kept as two
numbers, of entries of either queue.

`Listens` composes them: the listen goes through in one step of the main loop, an
album that is no longer `Kept` keeps its scrobble from being sent, so does a track
without a name or an artist (`Untitled`), and a restart (`Reset`) empties what is in
RAM on both sides. `able` is what `lastfm_scrobble` asks for before it makes a request: a
URL, a session and a clock that is set.

### AudioOutput (checked and proved)

`audio_output_switch_select` is a sequence of calls without a lock, one step each
per task (`Detach`, `Suspend`, `SetTarget`, `Attach`, `CheckConnected`,
`StartOutput`, `Undo`, `RollBack`). It runs in the event loop, which handles
A2DP_CONNECTION_STATE (`HandleEvent`), and in the tasks of console and companion
(`Users`). `I2sCommand` is the I2S task, `BtControl` and `BtConnection` are
Bluetooth's part of the main loop. The Bluetooth stack is external: its link comes
and goes (`LinkUp`, `LinkDown`) and calls back into the queue, which loses the message when it
is full (`CallBack`). `i2s_channel_enable` may fail when the I2S task is told to start
(`Started`): the channel stays off, and `refused` remembers it, until the next
command. The decision that a speaker connects itself, or because it was
asked to, makes no difference here.

### LedPower (checked and proved)

The rails' overrides, reference counts and states, and the status LED, the only
client that counts. What a task does under the service's lock without releasing it
is one step; the lock is released to post a rail's event, so each call that
changes a rail has a step after it (`RequestPosted`, `ReleasePosted`, `LedPostFails`,
`RailPosted`). `Reboot` follows the code through the LED's shutdown callback, the
callbacks after it, `power_mgmt_service_set_all_rails_off` rail by rail, the
pending action and, in the main loop, `Restart`. Any number of tasks reboot,
light the LED and set overrides in between.

Every call that reports an error may fail here. A rail's pins may refuse a change
(`PinsFail`): no event is posted, the rail stays as it was, and the count or override
that asked for the change stays too. Setting, refreshing and clearing the strip may fail
(`Show`, `ClearFails`), which ends the call with the rail still requested and gives up a
reboot. `power_mgmt_service_set_all_rails_off` goes on past a rail that fails and
reports it at the end (`ForceRails`).

---

## 3. Runs

| Run | Configuration | Shows |
|---|---|---|
| `pipeline_prompt` (pass) | `PlayerPipelinePrompt.cfg`: 2 tracks of 2 chunks, 1 chunk per read, 2 commands, 3 starts | with prompt hand-over: no stale chunk (`NoStaleChunk`), no overlapping reads (`SingleRead`), no chunk overwritten before it is decoded (`ChunkIntact`), only current PCM (`PcmFresh`), no buffer token lost (`PoolConserved`), a paused player is quiet (`PausedIsQuiet`), no start refused (`NeverGivenUp`), and the refinement of `Playback` (`OneSession`) |
| `pipeline_live` (pass) | `PlayerPipelineLive.cfg`: a track of 3 chunks, window of 2 entries, 2 chunks per read, 1 command, 2 starts, fairness | `PlaysInOrder`, `WholeTrack`, `StopEnds`, `AutoAdvance` |
| `pipeline_races` (pass) | `PlayerPipelineRaces.cfg`: late tasks, I/O errors, timeouts, one unmount and remount, 1 command, 2 starts | `TypeOK`, `NoLostWakeup`, `CompletionOnce`, `PlayingIsLoaded`: what holds whatever goes wrong |
| `pipeline_stale` (violation) | `PlayerPipelineStale.cfg`: as `pipeline_prompt`, without the promptness assumption | section 5 |
| `pipeline_bounds` (violation) | `PlayerPipelineBounds.cfg` | section 5 |
| `control` (pass) | `PlayerControl.cfg`: 3 tracks of 3 seconds, threshold 1, fast seek 2 | `OrderIsPermutation`, `CountedOnce`, `NoImmediateRepeat`, `ShuffleVisitsAll`, `TypeOK`, over unbounded sequences of commands |
| `control_overlap` (violation) | `PlayerControlOverlap.cfg`: two setters, builds interleave | section 5 |
| `resume` (pass) | `ResumeState.cfg`: 2 cartridges (symmetric) of 2 tracks of 2 seconds, queue of 2 | `ForeignErased`, `RtcCurrent`, `SavedBeforeRestart`, `ResumesAfterReset`, `TypeOK`, over any number of boots |
| `listens` (pass) | `Listens.cfg`: 3 listens of 1 album, the second of a track without names, queue of 2, 1 command, clear, fairness | the order of scrobbles (`InOrder`), a waiting scrobble has its entry in the queue set (`Awake`), the queue empties unless disturbed (`Delivered`), `TypeOK` |
| `listens_history` (pass) | `ListensHistory.cfg`: 2 albums with room for 1, 2 tasks that commit, inbox of 2, clear and rebuild, scrobbling off | a commit that reports success saved what the cache held when it was asked for (`CommitSaves`), a cache without changes is what a restart loads (`CleanMatches`) |
| `audio_output` (pass) | `AudioOutput.cfg`: event loop and 1 user, queues of 2, 1 and 2, sends that time out, a channel that may refuse to start, fairness | `FollowsTarget`, `OneOutput`, `FallsBack`, `TypeOK` |
| `led_power` (pass) | `LedPower.cfg`: 3 tasks (symmetric), 2 rails, 1 failure of the pins outside reboots, any number of any other | `LedFollows`, `OffAtRestart`, `TypeOK` |

**Bounds.** `MaxGen` (starts), `MaxCmds` (API commands) and `MaxUnmounts` cap the
counters of PlayerPipeline. Three generations are enough for the two sessions
that can overlap and one after them; two commands let one arrive while another is
being handled. Two chunks fill the chunk queue and both buffers (both have two in
the code); three chunks with a window of two entries and two chunks per read make
a track cross a window boundary and a read boundary. `pipeline_races` and
`pipeline_live` have one track and two starts: a start names its track only to load its
header, so one track after itself behaves as two; that tracks are told apart is
`pipeline_prompt`'s part, and the theorems hold for any number of each.
In PlayerControl only the
number of tracks and seconds is bounded: three tracks are the fewest for which a
shuffle order has a choice beyond "not the current one", three seconds lie
before, on and after a threshold of 1. In ResumeState two cartridges are enough
for "this one or another", and being the same or not is all that tells them apart, so
they are declared symmetric (only safety is checked there); `MaxStale` bounds how
many timed-out persist commands are pending at once.

In Listens, `MaxListens` listens go through a queue shorter than that, so it
overflows and a scrobble that is put back meets a full queue; `SetLength` is the sum
of the queues' lengths as in the code, and one command is enough to leave
an entry behind. `MaxPlays` bounds the plays told apart: 1 in
`listens_history`, where lost and saved must differ, and 0 in `listens`, where the
count does not matter. `Scrobbling` switches the Last.fm part on, `Requests` and
`Callers` the history's; each run leaves the half it says nothing of at rest. In
AudioOutput the events' queue holds one, so that the event of a callback is lost when
another waits. One user is enough for a select that overlaps the event loop's.
`MCAudioOutput` stops at a state in which selects have overlapped and something was
lost (`Told`): every invariant's premise is false there, the premises never become
true again, and `FallsBack` is fulfilled by `lost`. In LedPower `MaxFaults` bounds how often
pins cannot be set outside a reboot, since each time may leak a reference; one such failure
next to a lost event is enough for a count of three. Three tasks are one
in a call of the LED and two in reboots, or one in a reboot and two that disturb it; they do the
same, so `MCLedPower` declares them symmetric (only safety is checked there).
Proofs cover the rest.

**Assumptions, each a named constant.** `Prompt` (PlayerPipeline): a start
command is picked up, and its idle bit cleared, before the service handles its
next command, and the decoder blocks right after setting its idle bit. Nothing in
the code enforces this; it is the usual schedule, since a command needs a caller.
`pipeline_stale` shows what happens without it; the invariants of
`pipeline_races` and the theorems of `PlayerPipelineProofs` do without it, those about
sessions state it (section 4). `Undisturbed` (PlayerControl):
nobody else runs while an order is built; `control_overlap` is the run without
it. `IoErrors`, `Timeouts` and `MayTimeOut` switch failures on. FollowsTarget and
OneOutput speak of selects that did not overlap: two that do can leave both outputs
with the provider, since `audio_output_switch_select` has no lock.

**Fairness.** `FairSpec` of PlayerPipeline is weak fairness of each task (service, reader, decoder,
cartridge reader), the audio output and the event loop. FreeRTOS schedules every
ready task, the tasks block only on each other, and the output calls the PCM
provider periodically. Callers are not fair: nobody has to press a button. No
task needs strong fairness, since a blocked task's wait ends with a step of
another task that does not undo itself.

In Listens the Last.fm task is weakly fair, and two of its choices strongly:
`SelectScrobble`, because a queue set is a FIFO and the model only counts its entries, so that an
entry is not passed over for ever; and `Sent`, because a server that is asked again and
again while the connection holds answers in the end. Asked it must be: a scrobble that fails before
the request, for want of a connection, a session, a clock or names, is not helped by that, and
`Delivered` names these cases (`Disturbed`). It is void without the second and
promises nothing while one of them lasts, scrobbling is off or an entry is gone. In
AudioOutput every task that selects, the I2S task and the main loop are weakly fair;
neither the speaker nor the user is.

**Deadlock.** The runs of PlayerPipeline and PlayerControl have `CHECK_DEADLOCK FALSE`: the
pipeline's behaviours end when `MaxGen` or the commands are used up, the chip is
reset after a failed assertion, and a player without a cartridge or whose start
was refused rightly rests. The liveness properties do the work of a deadlock
check. All others check for deadlock.

Every property of a passing run has a mutant in `PROJECT.json`: a definition, changed as
a plausible bug in the mapped code would change it, that makes the property fail. The
mutated operators stand next to the definitions they replace and are commented
`Mutant:`, and nothing else uses them.

---

## 4. Proofs

All safety and action properties of the runs that pass, and the refinement of
`Playback`, are theorems, proved with TLAPS.

`PlayerPipelineProofs` proves, for every number of tracks, chunks, window entries, commands, starts and unmounts, with or
without errors, timeouts and promptness, from `PipelineAssumption` (the constants
are positive numbers and Booleans):

| Theorem | Property | Inductive invariant |
|---|---|---|
| `TypeCorrect` | `TypeOK` | `TypeOK` itself. Not only types: no queue beyond its depth, at most `PLAYER_SVC_CHUNK_BUF_COUNT` tokens, the reader's chunk inside the track wherever it is used |
| `WakeupsSafe` | `NoLostWakeup` | `WakeInv`: also, no queued request equals the value that stands for "no request" |
| `ReportedIsLoaded` | `PlayingIsLoaded` | `PlayInv`: extends it through the program counters of a start, since playing, index and the loaded track change at different steps |
| `CompletedOnce` | `CompletionOnce` | `CompletionInv`: also, every generation in a command, the decoder or the queue is at most `s_active_generation`, so that a new start's generation is fresh |

`PlayerPipelineSessionProofs` and `PlayerPipelineOrderProofs` prove the rest of PlayerPipeline's
properties, for every number of tracks, chunks, window entries, chunks per read, commands and
starts, from `PipelineAssumption` and one of three conditions on the constants, each
implying the one before it:

| Condition | Says | Why it is needed |
|---|---|---|
| `Orderly` | `Prompt`, and no wait for the idle bits runs out | `pipeline_stale` is the counterexample without `Prompt`; after a stop that timed out the next session starts beside the old one. I/O errors, unmounts and remounts are allowed |
| `Readable` | `Orderly`, and no read or `opus_dec_open` fails | a decoder that could not be opened ends without taking what the reader queues |
| `Faultless` | `Readable`, and the cartridge is not unmounted | a track that cannot be read to its end is not played to its end, and an unmount ends playback |

| Theorem | Property | Under |
|---|---|---|
| `NothingStale` | `NoStaleChunk` | `Orderly` |
| `PcmIsFresh` | `PcmFresh` | `Orderly` |
| `TokensKept` | `PoolConserved` | `Orderly` |
| `QuietWhenPaused` | `PausedIsQuiet` | `Orderly` |
| `OneRead` | `SingleRead` | `Orderly` |
| `OrderKept` | `PlaysInOrder` (an action property) | `Orderly` |
| `BuffersIntact` | `ChunkIntact` | `Readable` |
| `WholeTracks` | `WholeTrack` (an action property) | `Faultless` |
| `KeepsPlaying` | `NeverGivenUp` (an action property) | `Faultless` |
| `SessionsImplemented` | `OneSession`, the refinement of `Playback` | `Faultless` |

The proofs build on each other.

* `SessionInv`: sessions do not overlap. The idle bits say where the two tasks are (`Bits`), so
  whenever the service resets the pipeline both are at rest (`HandedOver`, `Rest`), and whatever is queued or at
  work is of the active generation (`Current`). The reset hands out both buffer tokens, which is
  right because no task holds one then (`Tokens`). `Quiet` follows a pause from the stop to the
  flag. `SingleRead` adds that the service reads headers only while the reader rests.
* `EndInv`: a session may also end by itself, and then nobody resets the pipeline. A decoder that
  ends without a stop has taken the end-of-file message, which the reader queues last (`Ended`, `EofLast`), and
  it takes nothing before the reader begins (`Begun`). So nothing is left over.
* `BufferInv`: the chunks not yet decoded, in the queue and in the decoder, form one line
  (`Line`). While the reader sends from a buffer, what it sent from it is behind the last
  flush message, everything before a flush is in the other buffer (`Split`). While it gets a buffer, all
  chunks have a flush behind them, and those with just one are in the buffer read last (`AllBehind`).
  A reader that holds a token leaves at most one flush in the line, since each flush carries a
  token and there are two; so no chunk in the line is in the buffer to be filled next.
* `OrderInv`: the chunk numbers of the queued messages lead, one by one, from the decoder's position to
  the chunk the reader reads next (`Chain`, `InLine`); a start sets both ends to the same chunk (`Fresh`).
* `FaultInv`: all of these with what holds where nothing fails. Reads succeed because they are of
  the mount that stays (`Seated`), the header that arrives is the one asked for (`Header`), the INSERTED
  command of the boot comes before anything plays (`Boot`). A reader that ends on its own has queued the
  last chunk; with `OrderInv` and `EofLast` the decoder that takes the end is at the last chunk (`Whole`).
  And who reports the end of the session that plays finds both tasks at rest, so the start
  that follows is not refused (`Finished`).

Each step of the pipeline then maps to a step of `Playback` or a stutter: `SvcCommit` starts a
session, a `DecReceive` of data plays it on (or takes the first chunk), a `SvcStop` that
finds the pipeline at work cancels it, the later of `RdrClose` and `DecFinish` ends it, and
`SvcRestore` restores a position. These invariants were checked by TLC before they were proved.

`LedPowerProofs` proves all of LedPower's properties, for any set of tasks and any
number of rails, from `LedPowerAssumption` (the LED's rail is one of the rails, "no
task" is no task):

| Theorem | Property |
|---|---|
| `TypeCorrect` | `TypeOK`, with the bound on leaked references |
| `LedCorrect` | `LedFollows` |
| `RestartOff` | `OffAtRestart` |

Failing pins, strips, clears and events are all allowed for, any number of each (`MaxFaults` is any
number). All three follow from one inductive invariant, `IInv`. None of its parts is inductive
alone:

* `RailsFollow`: each rail whose pins did not fail is what override and count say.
* `Exclusive`: the task inside a call of the LED is the one that holds its lock, so that
  the flag `s_led_rail_requested` read at the start of a call is still true at its end.
* `Known`: what that task knows of the flag at each step, with lost events too.
* `Leaked`: what may be counted beyond the flag, one reference for a lost event and one for each
  time the pins failed. A rail that could not be switched may change, and lose its event, at any
  later count; that is paid for by the failure that left it so (`Slack`).
* `Obeys`: what the strip was told at each step of a call, and hence when one ends without an error.
* `Balanced`: while no call failed after it had counted and no reboot took the count, the count is
  the flag, wherever the task is between changing the one and the other.
* `Passed`: a rail that some reboot has passed is forced off, was overridden since, or made that
  reboot fail; it speaks of each rebooting task's position, so that several reboots may be under way.

`stuck`, `faults`, `ledOk`, `skewed` and `overridden` are in the model for these.

`ListensProofs` proves all safety properties of Listens, for any number of listens,
albums and callers and any lengths of the queues, from the assumptions of the three
modules (lengths are positive, "no album", "no scrobble" and "unreadable file" are
nothing else):

| Theorem | Property |
|---|---|
| `TypeCorrect` | `TypeOK`, with the lengths of both queues and of the queue set |
| `Ordered` | `InOrder` |
| `Wakes` | `Awake` |
| `CleanIsOnFlash` | `CleanMatches` |
| `CommitsSave` | `CommitSaves` |

`InOrder` speaks of what is queued, but what is queued next comes from the inbox of
the history. The invariant therefore covers the whole way of a listen
(`QueueOrder`, `InboxOrder`): what the server took is older than the scrobble in
hand, this is older than those in the queue, and these are older than the plays in the
inbox, each in their order. `TypeOK` needs to know that the file, however a commit
failed, is what a cache could have held or cannot be read (`FileOK`), since a restart loads
it. `CommitSaves` follows from `Unsaved`: a caller whose changes are not on flash keeps the
cache dirty, and no commit has succeeded since it asked.

`ResumeStateProofs` proves all properties of ResumeState, for any cartridges, tracks,
seconds, length of the queue and number of late persist commands, from
`ResumeAssumption` (these are positive numbers, "nothing saved" is no position):

| Theorem | Property |
|---|---|
| `TypeCorrect` | `TypeOK`, with the length of the queue and the track of every saved position |
| `ForeignIsErased` | `ForeignErased` |
| `RtcIsCurrent` | `RtcCurrent` |
| `SavedFirst` | `SavedBeforeRestart` |
| `ResumesThere` | `ResumesAfterReset` (an action property) |

The two copies disagree during a boot, so the invariant `Inv` follows the boot's steps:
nothing is known in the dark (`Dark`); INSERTED comes first and once (`InsertedOnce`);
the playlist's cartridge stays in the slot or its removal is on the way (`Resident`);
what is saved is the playlist's, but for a blob that could not be erased (`Native`). `ResumesAfterReset`
needs `Remembered`: from a reset to the first track both RTC memory and the place to begin at
match what played when the chip was reset.

`PlayerControlProofs` proves all properties of PlayerControl, for any number of tracks and
seconds, any thresholds and any tasks that set the mode, from `ControlAssumption`:

| Theorem | Property | Holds |
|---|---|---|
| `TypeCorrect` | `TypeOK` | always |
| `CountedRight` | `CountedOnce` | always |
| `Permuted` | `OrderIsPermutation` | if `Undisturbed` |
| `NeverRepeats` | `NoImmediateRepeat` (an action property) | if `Undisturbed` |
| `VisitsAll` | `ShuffleVisitsAll` (an action property) | if `Undisturbed` |

`Undisturbed` is a constant: it says that no other task runs while the order is
being built. `control_overlap` is the counterexample without it, so the last three cannot do
without. Their inductive invariant is `ShuffleInv`. While an entry is being swapped the order holds one
track twice and another not at all: `Ordered` says that it is a permutation once the
entry in `tmp` is put into its hole, whatever step the build is at. `NoImmediateRepeat` is
about the last pass and the next, so `InPlace` says where the playing track is in the
order, or that a fresh order does not begin with it. `ShuffleVisitsAll` needs `PassKept`: what has been heard of
a pass is a stretch of the order, possibly across its end, that ends at the current position, through
handlers that wait for the pipeline and mode changes meanwhile; so the next entry either is
new or closes the circle. The lemmas about permutations and stretches (`PermSwap`,
`ArcGrows`, `PassFresh`, `PassGrows`) carry that.

`AudioOutputProofs` proves the safety properties of AudioOutput, for any set of tasks that
select and any lengths of the queues, from `AudioOutputAssumption` (I2S's queue has room for two:
`app_main` puts two commands into it before its task starts):

| Theorem | Property |
|---|---|
| `TypeCorrect` | `TypeOK`, with the lengths of the three queues |
| `FollowsTheTarget` | `FollowsTarget` |
| `OneDraws` | `OneOutput` |

The I2S task carries a select out late, so neither property is inductive over what I2S has now.
The invariant `OutputInv` speaks of what I2S will have once its queued commands are done
(`Provides`, `Runs`: the last command of each pair decides). The step at which the one task in a select stands then
determines what both outputs have, exactly while nothing was lost (`Followed`), and
enough to keep them apart if sends failed on the way (`KeptApart`). TLC checked it with one and two
users. What I2S was told is `On`: it runs, or was refused. `Tried` says that it is never both, so
`FollowsTarget` can tell a channel that could not be enabled from one that was not asked.

The argument is the same in each case: a frame lemma for the steps that leave the
relevant variables alone, one lemma per task or action, and the
temporal step from `Init => Inv` and `Inv /\ [Next]_vars => Inv'`. Each property was
checked by TLC before it was proved, and `IInv` and the invariants of `ListensProofs` as
well.

Only model-checked: liveness (`StopEnds`, `AutoAdvance`, `Delivered`, `FallsBack`), which the prover
cannot do under fairness.

---

## 5. What the checks found

* **Stale data after an overtaken start** (`pipeline_stale`, `NoStaleChunk`).
  Reader and decoder clear their idle bit only after taking the start command. A
  command handled in that window sees an idle pipeline and starts a second
  generation; the overtaken reader's chunk is then decoded by the new decoder.
  `docs/architecture.md:126-129` says the generation check prevents this.
* **`configASSERT` in the reader** (`pipeline_bounds`, `BoundsAssertion`). The
  seek handlers clear the lookup window before they stop the reader, which may be
  between checking that window and using it.
* **Shuffle order built twice at once** (`control_overlap`,
  `OrderIsPermutation`). `player_service_set_playback_mode` rebuilds the order in
  its caller's task. `player_service.c:1372-1373` promises a permutation and
  `player_service.h:108` a function that is safe to call from any task.

What the models show the code to do, and no line of the repository forbids:

* Two selects at the same time can leave the provider with both outputs, or the target
  without it (`AudioOutput`, excluded by `overlapped`). A select that fails at suspending the old output
  returns with its provider taken away (`audio_output_switch.c:71`), excluded by `lost`.
* A scrobble whose entry was taken when the connection broke waits until the next listen
  (`Scrobbles`, `missed`); a scrobble whose album left the history blocks the queue until a
  restart or until a full queue drops it, and so does one whose track has no name or no artist
  in its metadata, which nothing mends (`lastfm_service.c:1283`); stale entries fill the queue
  set until a send fails its assertion (`panicked`).
* An I2S channel that could not be enabled is not tried again: the target is I2S and silent until
  the next select that starts it (`AudioOutput`, `refused`).
* A clear that waits in the history's inbox swallows a second one, though plays were queued
  between them (`Queue`); plays that wait in the inbox at a reboot are lost.
* A rail event that cannot be posted leaks one reference of the LED's rail, and no more
  (`LedPower`, `TypeOK`), or makes a reboot fail half way. Pins that cannot be set leak one at every
  request that meets them. When a release fails, either way, the flag stays set with its reference gone:
  the LED never asks for its rail again, and putting it out, and with it every reboot, fails by underflow until
  the device is reset by other means. A strip that cannot be cleared keeps its rail on and gives up the reboot.
* `power_mgmt_service_apply_dac_pin_state_locked` may fail after it has switched the DAC's gate: the
  gate then is on and `s_rail_enabled` says off, so `power_mgmt_service_set_all_rails_off` finds
  nothing to do for it.

Disagreements between the documentation and the code that need no run:
`docs/architecture.md:133-134` has the position written to NVS every ten seconds,
the code writes it in the shutdown callback only (`player_service.c:918`);
`:148` calls shuffle a random pick, the code walks a shuffled order; `:151` has PREVIOUS
always sequential, the code follows the shuffle order (`player_service.c:2171`);
`:195-197` has a Bluetooth task that drains the queue, the code drains it in the main loop;
`:232-237` calls the I2S service a stub, its task pulls PCM and writes it out.

---

## 6. Abstractions, and what is not modelled

* A chunk is one unit of data and of PCM; Opus, volume scaling and the bytes of
  files are left out. An SD read returns the track and chunk it was asked for, or fails.
* `player_service_reset_pipeline`, mount and unmount are single steps; so is the
  work done under the cartridge service's mutex.
* The next track in PlayerPipeline is any track; which one is PlayerControl's
  subject. A restored position is any second of any track in PlayerControl;
  which one is ResumeState's subject.
* UNMOUNTED is posted without waiting, so a full event queue drops it before it reaches any
  handler. The models post it always; no property claims that an unmount reaches the player.
* The event loop may drop a removal when the command queue is full, as
  `player_service_queue_cmd` does. ResumeState remembers it (`missed`) and makes
  no claim about the player from then to the next boot.
* In ResumeState a cartridge is swapped within a boot only once the player has handled
  its removal; the caching of a position is atomic; a failed NVS write
  keeps the old blob; one task at a time asks for a reboot; what a late persist
  command may do to an unrelated stack frame is left out.
* A claim about where playback goes on after a reset is made for a cartridge
  that stayed mounted until then; `sd unmount` gives it up.
* In PlayHistory titles, artists and time stamps are left out, and a cartridge's tracks
  are not told apart; reading the metadata of the mounted cartridge does not fail.
* In Scrobbles the entries of the queue set are counted, not ordered; a command does
  nothing to the scrobbles. Which listens are of a track without names is a constant: metadata
  does not change while a scrobble waits. Any answer of
  the server but HTTP 200 counts as a failure, as in the code.
* In AudioOutput the provider pulls whenever an output has it and runs; what it pulls is
  PlayerPipeline's `Output`. The stream's start and suspend take effect when the main loop
  hands them to the stack.
* In LedPower `enabled` is `s_rail_enabled`, what the service believes of a rail, and not the pin:
  the two part where setting the DAC's pins fails half way (section 5). The pins and the mute that
  follow the DAC's rail are otherwise left out, as are the shutdown callbacks before the LED's (the player's is in ResumeState, the history's
  commit in PlayHistory).
* Volume, track titles, event payloads and logging are left out.

Not modelled yet, and could be: the Wi-Fi service's reconnection and the companion
link's framing and authentication states (section 7); the script service's run and
stop. Not modelled further in a component that is `partly`: validation of a cartridge's
metadata (bytes of a file); Bluetooth discovery, pairing, AVRCP and SPP, which
hand requests to the third-party stack; Last.fm's tokens and HTTP; the DAC's mute; the
ULP program's debounce counters (external assembler, one word copied by the main CPU).

Not to be modelled: console parsing, QEMU support, RAM disk, start-up,
boot loader, host tools, and third-party code under `components/` (ESP-IDF, the Bluetooth
stack, WAMR, Opus), which is by far the largest part of the source tree.

---

## 7. Plan

What exists is described above. What is left, in order of importance:

| # | Work | Content |
|---|---|---|
| 1 | Connectivity | Wi-Fi's connection state machine: events of an abandoned attempt never move the state; reconnection ends connected or given up; in place of the constant coming and going of `online` in Scrobbles |
| 2 | Companion | frames, sequence numbers and the authentication states of one link |
