# A TLA+ model of the Amlogic audio HAL

The repository is an Android audio HAL for Amlogic televisions and set-top
boxes. Applications write PCM or compressed audio through output streams;
tuners, HDMI and line inputs reach the speakers through *audio patches* that
run inside the HAL. Most of the code moves data through buffers between
threads. These modules model the parts whose correctness depends on the order
in which those threads run.

| Module | What it is | Source |
|---|---|---|
| `RingBuffer` | the byte ring every input path uses | `utils/aml_ringbuffer.c` |
| `BoundedFifo` | what a ring promises | abstract |
| `RingBufferProofs` | TLAPS proofs about `RingBuffer` | |
| `SubMixer` | input ports of the PCM sub mixer, their writers, the mixer thread and its life | `audio_hal/amlAudioMixer.c`, `audio_port.c` |
| `PortChannels` | what the sub mixer promises its streams | abstract |
| `SubMixerProofs` | TLAPS proofs about `SubMixer`, with its refinement of `PortChannels` | |
| `DtvPatch` | the DTV patch: control calls and its three threads | `input/dtv_patch.c`, `dtv_patch_utils.c` |
| `DtvPatchProofs` | TLAPS proofs about `DtvPatch` | |
| `TvPatch` | the patch from HDMI to the speaker: two threads around a ring, and its release | `input/tv_patch.c`, `tv_patch_ctrl.c` |
| `TvPatchProofs` | TLAPS proofs about `TvPatch` | |
| `SyncSearch` | the search for an IEC 61937 sync word in a ring | `utils/aml_ringbuffer.c` |
| `HeaderParser` | the headers of a tunnelled stream, cut anywhere | `audio_hal/audio_hwsync.c` |
| `HwSync` | a tunnelled stream on its way to MS12, and the apts table | `audio_hwsync.c`, `audio_hw.c`, `aml_audio_ms12_render.c`, `audio_hw_ms12_v2.c` |
| `HwSyncProofs` | TLAPS proofs about `HwSync` and the parser in it | |
| `Ms12Messages` | the calls of main streams and the message thread of MS12 | `audio_hw_ms12_common.c`, `audio_hw.c`, `audio_hw_ms12_v2.c` |
| `Ms12MessagesProofs` | TLAPS proofs about `Ms12Messages` | |
| `SinkFormat` | which format goes to HDMI and to S/PDIF | `audio_hal/aml_audio_stream.c`, `audio_hw_profile.c` |
| `SinkFormatProofs` | TLAPS proofs about `SinkFormat` | |
| `MC...` | the values of the constants for TLC | |

Comments that begin with `Mutation:` mark operators that are not part of a
specification: each is a definition with a bug put in, kept to show that a
property notices it.

## Inventory

For each part: its state, its operations, what it interacts with, what is hard
about it, what would make it correct.

**Ring buffer** (`utils/aml_ringbuffer.c`). State: storage, size, read and
write pointer, `last_is_write`. Operations: init, release, write, read, seek,
reset, clear, reset_size, and the two level queries; one mutex per ring. Used
by the TV patch (an input thread writes, an output thread reads, the format
parser resets and resizes), the mixer ports and the effects. Hard: full and
empty look alike but for one flag; a growing resize is three critical sections.
Correct: pointers in bounds; a bounded FIFO.

**PCM sub mixer, input side** (`audio_hal/amlAudioMixer.c`, `audio_port.c`).
State: `in_ports`, the masks `inportsMasks` and `inportsAvailMasks`, each
port's ring, chunk and flags, `inputPortID` in each stream. Operations: open,
write, close; the mixer thread reads a chunk from each port and mixes. Hard:
opens and writes take no lock, deletes and the mixer do. Correct: no freed port
is used, the tables agree, each stream's data arrives whole and in order, a
write returns.

**PCM sub mixer, life and output** (same files, `audio_hw_utils.c`). State:
`mixing_enable`, `exit_thread`, the thread, output ports with a lock each,
standby. Operations: created with its thread when the device is opened, exited,
joined and freed when it is closed; with MS12 it exists for a DTS stream and
goes with the first stream that closes. Hard: `exit_thread` is cleared by the
new thread; MS12 deletes the mixer while streams may be open. Correct: exit
returns; no output port is used after it was closed.

**DTV patch** (`input/dtv_patch.c`, `dtv_patch_utils.c`). State: two demux
paths with a handle and a kept package each, the working path, the command
list, the decoder state, the package list, three (with AD four) threads.
Operations: open, start, pause, resume, stop, close, create, release. It opens
its output stream in the HAL itself, and so is a second opener of mixer ports.
Hard: the commands are asynchronous, a close is not; threads are joined with a
mutex held; the condition is signalled without its mutex. Correct: no closed
demux is read; a package has one owner and keeps its order; threads and state
agree; control calls return.

**TV patch** (`input/tv_patch.c`, `tv_patch_ctrl.c`,
`tv_patch_format_parser.c`). State: the ring, the format and its change flag,
the output stream. An input thread writes what ALSA captures to the ring, empties
it when it is full and replaces it when HDMI changes its packets; an output
thread reads it, reopens its stream and empties the ring when the format
changes; a parser thread finds the format. Hard: the ring is reset and resized by
one thread under reads of another; search and read are two critical sections;
failed reopens; the format is set by two threads. Correct: what is played keeps
the order of capture and starts at a sync word, the output follows the input, the
release returns.

**HW AV sync** (`audio_hal/audio_hwsync.c`, `hw_avsync.c`). State: a table of
(offset, apts) records, the offset of the next payload, the header parser.
Operations: parse a write, check a pts in, look one up, reset. The table is
filled by the writing thread, read by MS12's thread, and its offsets are only
good as long as MS12's count of decoded bytes starts at the same byte, which a
message resets later. Hard: headers split anywhere; payloads without a pts; a
full table; a reset on two sides. Correct: a look-up gives the pts of the byte
that is played; no payload is lost.

**Streams and device** (`audio_hal/audio_hw.c`). Stream tables, the usecase
mask, standby, routing, parameters; the device lock and a lock per stream.
Hard: lock order, validation without the lock. Modelled as openers of mixer
ports, and for the calls of main streams that steer MS12.

**Digital output format** (`aml_audio_stream.c`, `audio_hw_profile.c`). A
decision over the sink's capabilities, the user's setting, the product and the
stream, taken whenever one of them changes. Hard: many cases, and `min()` over
numbers that were not made for it. Correct: the sink and S/PDIF get what they
take.

**MS12, its messages** (`audio_hw_ms12_common.c`, `audio_hw.c`,
`audio_hw_ms12_v2.c`). State: the message list and its thread, the pause flags
on both sides, which stream has the main decoder. Operations: write, pause,
resume, flush, take-over, close of each main stream; one message at a time is
handled, later, on whatever stream is the main one then. Hard: the handler takes
no lock and reads the main stream; a close must wait for it; three flags tell of
one pause. Correct: no stream that is gone is used, MS12 is not left paused, calls
return.

**MS12, the rest** (`audio_hw_ms12_v2.c` and neighbours): buffers and callbacks around a
closed library. **Rendering without MS12, decoders, scaletempo**: sequential.
**SPDIF, eARC, ALSA, A2DP, SCO, MMAP**: device and stack I/O. **Timers, ease,
virtual buffer, delay, hardware mixer buffer**: small leaf components; a few
are in the plan. **rcaudio, libamlaudioport, effects, vendored code**: outside
the playback core.

## Plan

Done, in the order of importance: `RingBuffer` with `BoundedFifo` and proofs;
`SubMixer` with `PortChannels`, then the life of the mixer thread, with proofs of
its invariants and of the refinement; `DtvPatch` for the multi-demux patch without
associated audio, with proofs; `TvPatch` with proofs, and with the search for sync
words as `SyncSearch`; the apts table with its way from a write to MS12 as
`HeaderParser` and `HwSync`, with proofs; `Ms12Messages` with proofs; `SinkFormat`
with proofs.

Next:

1. `DtvPatch`: the associated-audio thread and its list, and what the proofs then
   need.
2. `SubMixer` with the mixer that MS12 creates for a DTS stream, several access
   units per payload in `HwSync`, the usecase mask of the device.
3. Pure parts: the alignment of associated-audio packages, the hardware mixer
   buffer as a second instance of `BoundedFifo`.

Modules that are proved about use no RECURSIVE operator, and constants carry named
assumptions.

## The models

### RingBuffer

One action per call, since each call holds the ring's mutex from first to last
access. Pointers are offsets from `start_addr`; `mem` is the storage as a
function on offsets; a copy that straddles the end is `Ahead`, the distance
from the pointer. `ring_buffer_reset_size` is `ResizeRelease`,
`ResizeStoreSize`, `ResizeInit` (a larger size) or `ResizeShrink`; other calls
come in between the first three. `malloc` may fail. `io` records the result of
the last call, so that the abstract FIFO speaks of what callers see. `fault` is
the `memset` through NULL that a reset or clear makes after a failed
`malloc`; it ends the behaviour. Left out: the `cover` argument, which every
caller passes as `UNCOVER_WRITE`, and negative counts.

`BoundedFifo` admits one thing a queue would not do: `Shrink` may leave a queue
full of zeros. That is what the code does; the run `ring_resize` holds it
against the code's own comment.

### SubMixer

Per stream, `pc` and `local` are the program counter and the locals of the
thread that works for it. An open reads a mask in one step and stores it in the
next (`OpenStream`/`ClaimIndex`, `RegisterPort`/`SetMask`); a write looks the
port up (`FetchPort`) and fills its ring (`FillRing`); a close reads the port
without the lock (`CloseStream`) and deletes it with the lock held (`FreePort`,
`ClearMask`, `ReleaseIndex`). The mixer thread has two locked sections per
cycle, read and mix, each over a copy of `inportsMasks`. Its third, which
writes the output, changes nothing here.

A port object is named after the stream that allocated it. A byte is a *unit*
with the stream and its number, so that loss, duplication and mixing up show.
`NULL` in `in_ports`, a stream without a port and freed memory are all
represented; using freed memory sets `fault`.

Left out because the code never does it: port messages (`send_mixer_inport_message`
has no caller), the meta data callback (always NULL), and the early returns of
`mixer_do_mixing_16bit` (amlAudioMixer.c:1121, 1150-1152): every input port has two
channels whatever its stream has (`setPortConfig`, audio_port.c:266; nothing else
writes the field), so that two are needed, the output port has two (audio_port.c:986)
and is never exchanged, and a mixer whose output port cannot be allocated is not
created (amlAudioMixer.c:1478-1481). Left out as data: sample
formats, volume, silence of ports that are not ready; the port state STOPPED of
a direct port, which the first write makes ACTIVE, is part of `FillRing`.

`life` is the device and the two flags between it and the mixer thread.
`CloseDevice`, `RequestExit` and `JoinMixer` are the three statements of
`pcm_mixer_thread_exit`; `BeginThread` and `ClearExit` are the start of the
thread, two steps because an exit may come in between. That exit is lost
(amlAudioMixer.c:1332-1333): the thread runs on and the close of the device
hangs, and the model does so. `exit_thread` is tested when a cycle begins; the
device is closed after its streams, so a cycle begun earlier finds no port, and
one more of them changes nothing. `OpenDevice` starts again with a fresh mixer. The result of
`pthread_create` is ignored: a mixer may be without a thread from its start
(`NewMixer`), and then a write into a full ring does not return, which
`WritesReturn` excepts.

External: the audio policy service opens and closes its streams one at a time
(`PolicyIdle`), and the framework closes the device after its streams.
`Framework` says which streams are its own. In the run `submixer` all are; in
`submixer_race` one belongs to a DTV thread.

### DtvPatch

The client is the thread on which the framework calls `set_parameters` and the
patch calls; it keeps the protocol OPEN, START, (PAUSE, RESUME)*, STOP, CLOSE
on every path (`Allowed`, `After`: external), and may release the patch at any
time. A close has four steps: the call, the wait for the threads, destroying
the demux under `dtv_lock`, and clearing `demux_info` without it.

The command thread's `command` says where in its loop it is; from `get` to the
next wait it holds `dtv_cmd_process_mutex`, through the joins of a stop
(`CmdMutexFree`). The two tests of the exit flag of one turn are one step,
`CheckState`. Setting the exit flag and signalling in the release are one step:
what matters is that both may fall between the thread's test and its wait.

`CreateThreads` may fail to create either thread; nobody looks at the result
(dtv_patch.c:1835-1836), and the decoder is RUNNING without it, the place `failed`.
`ThreadsMatchState` excepts such a thread until the next START, and the rest is
checked with it: a stop then joins no thread that is not there.

The input thread holds `dtv_lock` from `VisitPath` to its return to the loop,
except while it sleeps on a full list (`full`); the package is in `input.package`
as in its local variable, and in `dtv_package[path]` as in `demux_info`. The
output thread gets and plays packages. `dtv_package_list` has a lock of its own
and each call on it is a step.

Where the program dies, `fault` ends the behaviour: `null` is the stop that
dereferences `dtv_aml_out` before the output thread has set it, `stale` a START
whose demux was closed before the command thread came to it, `closed` an input
thread reading a closed demux, which `InputDemuxOpen` excludes.

`SlowThreads = TRUE` lets the one-second wait of a close run out at any time,
the general case; `FALSE` only when the command thread has nothing left to do,
so that a counterexample does not rest on a slow machine.

### TvPatch

One action per critical section of the two threads and one per step of the
release. `aml_ringbuffer` is the ring as `BoundedFifo` describes it, and only what
`RingBuffer` says of a resize is added: one that grows first frees the storage
(`grow`, `allocate`: in between the ring has none, and the output thread finds it
empty), one that does not grow leaves `last_is_write`, so that a full ring
becomes a full ring of zeros. `input.at` and `output.at` are where the threads
are; `in_buf` and `out_buf` their buffers. A unit stands for a captured period,
numbered, and with or without a sync word.

`aformat` and `digital_input_fmt_change` have two writers. The input thread sets
the first when it starts, without a lock (tv_patch.c:192), and so may overwrite
what the parser has found; `overwritten` remembers that, and `FormatIsFollowed`
excepts it, because the output then stays in the wrong format until the next
change.

The level of the ring (tv_patch.c:563), the search (564), the test of the space (588)
and the read are steps of their own: `QueryLevel`, `SearchFinds` or `SearchFails`,
`CheckSpace`, `ReadRing`. `StartsAtSyncWord` has two exceptions that `searched`
names: the ring was empty when its level was asked, so that nothing is dropped when
the search then fails and what has come since is read; and the input thread emptied or
cleared the ring after the search. In both cases data without a sync word in front is
played as compressed.

Where the program dies, `fault` ends the behaviour: `no stream`, the output thread
uses the stream that a failed reopen did not give it, and `no ring`, a ring whose
storage could not be allocated is cleared.

External: the HDMI receiver (`hdmi`), the parser thread, whose result is an
action, and the framework that asks for the release. Abstracted: a kind of
packets stands for packet type and channel count. Left out: `mode_reconfig_in`,
which nothing sets; the signal detection thread; packets other than AUDS and
HBR; failures in `create_patch_l`, after one of which `aml_dev->audio_patch`
points to a freed patch.

`SyncSearch` translates `find_61937_sync_word_position_in_ringbuffer`: the part up
to the end of the storage, the part at its start, and the words that straddle the
end. `FindsASyncWord(n)` says that it finds a position of a sync word whenever the
contents, read in order, have one, and none otherwise.

### HeaderParser and HwSync

`HeaderParser` is `audio_header_find_frame` as a function from the parser's state
and the bytes of a write to the bytes taken, a payload if one is complete, and the
new state. A header has two units (its recognised start and the rest), so that a
cut may fall before, in and after it. `CutsDoNotMatter` says that whatever the
cuts, the payloads with their pts are those of the stream.

`HwSync` has a writing thread (`find`, `checkin`, `advance`, `feed` are the points
of `out_write_new` and `aml_audio_ms12_process_wrapper`), MS12's thread that
decodes and looks up, and the message thread that flushes MS12. `out_flush_new`
empties the table at once and waits at most 100 ms for the message
(`flush = "wait"`), and the wait may end early: then a write may come before MS12
is flushed, which `late` remembers. `payload_offset` does not move over a payload
in some paths of the code: `uncounted` remembers it. `accepted` is the history of
check-ins that found a slot since the table was emptied.

A full table refuses a check-in and nobody notices; a look-up gives up the records
before the one it finds. `LookupIsLatest` is about what remains: the answer is
the pts entered last at or before the byte that MS12 has reached.

`ms12_avsync_callback` reads the count of decoded bytes (`ReadConsumed`) and takes the
lock of the table later (`LookUp`); the decoder, check-ins and a flush come in between.
A look-up with a count from before a flush gives up records that MS12 has not reached
yet: `outdated` remembers it, until the next flush empties the table, and
`LookupIsLatest` excepts it.

A write that completes no payload (`FindNothing`) returns 0, since nothing was rendered
(audio_hw.c:8874, 8887), although the parser has taken its bytes. The framework writes
them again and they are parsed twice; `resent` remembers it, until the next flush, and
`NothingIsLost` excepts it. A header whose start is followed by its start again says
something that no header of the stream says: `Misread`, any size and pts. What holds even
then is that the parser stays inside its buffer (`TypeOK`), that offsets and MS12's input
agree, and that look-ups are right: those are about what was fed, whatever it is.

External: MS12 decodes what it holds, in order, at any speed; the framework
writes and flushes from one thread, writes again what a write has not taken, and begins
with a header after a flush. Assumed: one access unit per payload, no payload refused.

### Ms12Messages

`stream[s].at` is where the call on stream `s` is, one action per point at which
the message thread may come in between. `comm` is the message thread: it takes the
head of the list, handles it without the lock and removes it afterwards
(`HasMessage`), so that a close sees whether a message is being handled. `pause`
are the three flags: what MS12 was told, what the HAL thinks, and whether a resume
is owed. A take-over (`old`) is the first write of a stream while another has
the main decoder. `DestroyList` and `DestroyStep` are the end of the thread when
the device is closed.

Nothing keeps a call on one stream out while another stream takes the decoder over: a
pause, resume or flush of the stream that loses it comes at any point of the take-over
(`Pause`, `Resume`, `Flush` are enabled for every open stream, and a pause asks neither
who has the decoder nor whether the stream was ever written). What follows from that is
in three history variables, each of which a property excepts by name:

* `late`: a message was sent after `AwaitMessages` had found the list empty
  (audio_hw.c:3990) and before `MainClose` cleared `ms12_main_stream_out`
  (audio_hw_ms12_v2.c:3421). Its handler may have passed the test for NULL
  (audio_hw_ms12_common.c:265) and then use a stream that is gone: the fault
  `stream`. `NothingFreedIsUsed` says that this is the only way to it.
* `torn`: the decoder was closed while its PAUSE was being handled, which clears both
  flags before the handler sets one. `FlagsAgree` says that this is the only way in which
  the flags part at rest, until the next PAUSE or RESUME is handled.
* `dropped`: a pause was given up without a RESUME, by a flush of a stream that was never
  written (audio_hw.c:2156-2190), by the close of a stream without the decoder, or by a
  resume that comes between the RESUME of a write and its `need_resume = 0`
  (`ClearNeedResume`, audio_hw.c:8027, outside the lock). `PausedOnlyIfAsked` says that
  otherwise MS12 is paused for a stream: any stream, since the pause of one whose decoder
  was taken over pauses the one that plays.

Faults: `stream`, as above; `message`, the handler used a message that the destruction
of the list freed under it (`comm.freed`), which ends the behaviour: the device is being closed.

Assumed of the framework: it calls each stream from one thread, writes no paused
stream, closes the device last, makes no two writes at once, and closes no stream during
another one's write or close. MS12 is on, in continuous mode. Left out: the `eos`
flag, the FLUSH that the TV patch sends (tv_patch.c:134), standby by itself, associated and
system streams. A close waits at most a second for the message in hand; that is
taken to be enough.

A PAUSE that is sent while `is_continuous_paused` is still TRUE from the pause
before (audio_hw.c:2036) is dropped; `FlagsAgree` and `PausedOnlyIfAsked` are therefore
stated for states in which no call is in progress and no message waits.

### SinkFormat

`get_sink_format` and its helpers as operators of a record of everything they
read. A format is the high byte of its `audio_format_t`, in the order that `min()`
uses. Two things in the code that a reader may not expect are in the model: the
DDP case of the speaker branch has no `break`, and `strstr` for `AUDIO_FORMAT_DTS`
also finds `AUDIO_FORMAT_DTS_HD`. Left out: the `NO_SERVER` build, channel counts
and sample rates.

## What each run checks

| Run | Bounds | Result |
|---|---|---|
| `ring` | sizes 3 and 4; writes of 1, 2, 3 bytes; reads of 1 to 4; seeks of 1, 2 | `TypeOK`, `InBounds`, and the refinement of `BoundedFifo` (`FifoSpec`) hold |
| `ring_resize` | the same | `ResizeEmpties` fails: a full ring made smaller stays full |
| `submixer` | 2 streams, 2 indices, ring of 2 chunks of 2 units, writes of 1 or 3 units, 5 units per open; any number of opens of streams and device | `NothingFreedIsUsed`, `TablesAgree`, `StreamIntact`, refinement of `PortChannels`, `WritesReturn`, `ExitTaken` hold, with and without a mixer thread |
| `submixer_race` | the same, one stream not serialised | `IndexWasAvailable` fails |
| `dtv` | 2 paths, list of 2, 2 opens, 3 commands, 2 packages per path, slow threads, threads that cannot be created | `InputDemuxOpen`, `PackagesOwned`, `PackagesInOrder`, `ThreadsMatchState` hold |
| `dtv_control` | 1 path, list of 1, 2 opens, 5 commands, 2 packages, slow threads | `CommandsTaken`, `ControlReturns` hold |
| `dtv_close` | 1 path, 1 open, 3 commands | `ThreadsExitBeforeClose` fails |
| `dtv_new_data` | 1 path, 1 open, 4 commands | `FirstNewData` fails |
| `dtv_release` | 1 path, 1 command | `ReleaseReturns` fails, under fairness |
| `ms12` | 2 streams, one raw and synchronised; 8 calls, list of 12 (224,587 states) | `TypeOK`, `NothingFreedIsUsed`, `PausedOnlyIfAsked`, `FlagsAgree`, `DecoderIsReached`, `CallsReturn`, `ThreadJoined` hold |
| `hwsync` | 4 payloads of 2, 1, 1, 1 units, one without a pts, one after junk; writes of 3, 4, 7 units, the shortest of which need not complete a payload; table of 2, MS12 holds 3 units; 2 flushes (1,147,098 states) | `TypeOK`, `OffsetsMatchInput`, `LookupIsLatest`, `NothingIsLost` hold |
| `tv_patch` | PCM read by 1 unit, compressed by 2; ring of 2 units, 3 with HBR; 2 captured periods of data, 2 changes of format or packets | `TypeOK`, `InOrder`, `OldDataIsOnePeriod`, `StartsAtSyncWord`, `NothingFreedIsUsed`, `ReleaseReturns`, `FormatIsFollowed` hold |

Why the bounds are enough to be interesting. Ring: writes fill it exactly,
overflow it and wrap at both sizes, and every pointer pair occurs; the proofs
cover the rest. Mixer: a ring of two chunks with a threshold of three units has
a chunk that is ready but below the threshold, a write that blocks on a full
ring, and a left-over unit; two streams reopen any number of times, so indices
are reused without a bound. DTV: two paths with a list of two give picture in
picture, a change of the working path while packages wait, a full list, and a
close under a reading input thread; five commands on one path allow START,
PAUSE, STOP and a second START with a close and a reopen in between. MS12: eight
calls allow each stream to play, be paused and resumed, be taken over and take
back, and to be closed and opened again, with a pause of the other stream at any point;
all three exceptions occur; the list is never full, which the code does not limit. HW
sync: the payloads fill the table and one is refused; the writes cut headers and bodies,
and a write of three units ends before the first payload does, so that units are parsed
twice; a second flush comes while the message of the first waits, and either falls
between a reading of the count and its look-up. TV patch: the ring is full, grown, shrunk and
emptied under the reader; two changes are a change and its way back, in format, in
packets or one in each.

The assumptions TLC evaluates: in `hwsync`, `CutsDoNotMatter` for two lists of
payloads and every way to cut them into writes; in `tv_patch`,
`FindsASyncWord(5)`: every content of a ring of five bytes and every position of
its pointers, the smallest ring in which a word of four can lie across the end in
all three ways with a byte to spare.

### The disagreements

* `ring_buffer_reset_size` promises to reset and does not clear `last_is_write`
  when the size does not grow.
* `mixer_get_available_inport_index` promises an available index and reads and
  writes the mask without a lock.
* A DTV CLOSE promises to wait for the threads and does not when the commands
  before it have not been processed.
* A DTV STOP in the paused state does not release the package that the comment
  of the other STOP says must be released.
* `release_dtv_patch_l` can lose its wakeup and never return.

Lost data, lost exits and other behaviour that no line of the repository promises
to exclude is in the models, and named by an exception in the property it
concerns: `overwritten` and `searched` in `TvPatch`; `late`, `uncounted`, `resent` and
`outdated` in `HwSync`; `late`, `torn` and `dropped` in `Ms12Messages`; the places
`failed` in `ThreadsMatchState` and `ended` in `WritesReturn`, and the state `begun` in
`ExitTaken`.

## Fairness

`SubMixer`: the mixer thread and writers inside a write run; whoever waits for
`audio_mixer->lock` gets it (strong fairness of the mixer thread and of a
delete), because the mixer thread unlocks before it waits for the output and a
close holds the lock for a few statements. The close of a device goes on once it
has begun (weak fairness). Opening, writing and closing are never obliged.

`DtvPatch`: the three threads run (weak fairness); a client inside a call goes
on when it can (strong fairness, since its steps wait for a mutex or for
`dtv_lock`, which the others release between turns of their loops and hold
asleep only for a bounded time). Requests are never obliged.

`Ms12Messages`: a call that has begun goes on, the message thread runs, and so
does the end of the device (weak fairness; the lock of the list is held for a few
statements). No call is obliged. `TvPatch`: the input and the output thread run
and a release that has begun goes on (weak fairness); neither HDMI nor the
framework is obliged to anything. `HwSync` has safety properties only.

Without these
assumptions any thread may simply stop, which the scheduler does not do.

## What is proved

`RingBufferProofs`, with TLAPS, for every set of sizes (positive integers),
counts, chunks and bytes (`RingAssumption`):

* `RingTypeOK`: `Spec => []TypeOK`.
* `RingInBounds`: `Spec => []InBounds`.
* `RingRefinesFifo`: `Spec => FifoSpec`.

Neither `TypeOK` nor `InBounds` is inductive alone: that a written pointer is in
the storage needs the types of both pointers and that the storage is as long as
the size, and that a ring without storage is empty needs the stages of a
resize. `RingInv` is their conjunction; there is one lemma per call, and they
rest on `update_pointer` keeping a pointer in range for an advance of at most
the size. The refinement adds that the resize's argument is one of `Sizes` and,
per call, a lemma that the sequence of readable bytes changes as the FIFO's
queue does. The heart is the write: the bytes read before it are still those,
and the ones after them are the data, which comes down to the distances from
the read and from the write pointer around the ring.

`SubMixerProofs`, for every number of streams and ports, every chunk, every ring
of at least two chunks and every length of write (`SubMixerAssumption`):

* `MixerTypeOK`, `MixerUsesNothingFreed`, `MixerTablesAgree`, `MixerStreamIntact`:
  the four invariants of the run `submixer`.
* `MixerRefinesChannels`: `Spec => ChannelsSpec`, that is, `SubMixer` implements
  `PortChannels`.

The hypothesis `Framework = Streams` says that the audio policy service orders the
opens and closes of all streams. It is needed: the run `submixer_race` shows two
opens taking one index when it does not hold. None of the four is inductive. They
rest on `MixerInv`, whose parts are the argument: a stream works on one index from
the moment its open takes it until its close puts it back (`Index`), two streams
never on the same (`Distinct`); the place of a stream decides what `in_ports` and the
masks hold at its index (`Placed`, `Registered`), and an index without a stream is
free (`FreeIndices`); what an open or close has read from a mask is still in it, since
no other one is under way (`OneAtATime`, `LocalsFresh`); and the port that the mixer
thread fetched stays in the table while it holds the lock (`LockHeld`, `MixerPort`).
`DataKept` is that mix, chunk and ring together are what was written. A step of a
stream touches the tables at its own index only (`StreamEffect`), so that one lemma
carries the invariant over the other streams for every kind of step. The
refinement maps a stream's queue to the chunk and the ring of its port; every step
is shown to be a step of `PortChannels` or a stutter.

`DtvPatchProofs`, for every finite set of paths, every capacity of the list and
every bound, and whether or not a second is enough for a close (`SlowThreads`):

* `DtvTypeOK`, `DtvInputDemuxOpen`, `DtvThreadsMatchState`, `DtvPackagesInOrder`,
  `DtvPackagesOwned`: the invariants of the run `dtv`.

`DtvInv` adds where each thread may be in which state of the decoder
(`ThreadsJoined`, `DecoderThreads`), that the input thread is on a path whose demux is
open while it reads (`InputPlaced`), and for the packages that whatever has left the
input thread was delivered before what it and `demux_info` still hold (`Passed`,
`KeptDelivered`, `InSequence`), which is what makes one owner and the order follow:
a new package is later than all.

`TvPatchProofs`, for every size of ring, of period and of read, and any number of
periods and changes:

* `TvTypeOK`, `TvInOrder`, `TvOldDataIsOnePeriod`, `TvStartsAtSyncWord`,
  `TvUsesNothingFreed`: the invariants of the run `tv_patch`.

`TvInv` orders what was read, what is in the ring and what the input thread holds
(`PeriodsInOrder`, `HeldIsLast`): every period in them is unplayed and no older than
the reopening of the stream, and the held one, if it has data, is the last captured,
so that the retry after a full ring keeps the order. `SyncWordInFront` carries the
sync word from the search to the read: the ring may grow at its end or be emptied,
which clears `searched`, and does not change in front. `StreamThere` is where the
output thread may be without a stream.

`Ms12MessagesProofs`, for every set of streams, whichever of them are raw or
synchronised, and every bound on calls and messages:

* `Ms12TypeOK`, `Ms12UsesNothingFreed`, `Ms12DecoderIsReached`, `Ms12FlagsAgree`,
  `Ms12PausedOnlyIfAsked`: the invariants of the run `ms12`.

`Ms12Inv` says which calls exclude each other (`Exclusive`: a write, a take-over or a
close against another; the other calls may be anywhere), that the stream with the main
decoder is `ms12_main_stream_out`, in a take-over too until the moment it is closed
(`Decoder`), and that the message in hand keeps the main stream from being closed unless
it is `late` (`Held`). A stream inside a write or close is not paused (`NotPaused`). The
pause is argued over the whole list: the last PAUSE or RESUME in it that has not been
handled decides what `pause_flag` will be (`WillBePaused`), and that is "paused" only if it
is `Expected`: a stream is paused, a resume is owed and not about to be forgotten, a pause
was `dropped`, or a call is on its way that sends the RESUME (`PauseAccounted`).
`PausedStream` adds that MS12 is paused on some stream. Without the messages that wait
neither flag property is inductive.

`HwSyncProofs`, for every sequence of payloads (any junk before them, any size up to
`MaxBody` and `Capacity`, no pts or any), every set of lengths of writes, every size of
the table, and with or without a return after each payload (`HwSyncAssumption`,
`HeaderAssumption`):

* `HwTypeOK`, `HwOffsetsMatchInput`, `HwLookupIsLatest`, `HwNothingIsLost`: the
  invariants of the run `hwsync`.

`HwInv` is what makes them inductive (`HwInvariant`). Of every behaviour it says that the
parser is `Sound` (what is missing of a payload is no more than its size, and the units
before are in the buffer), that a write is the stream from `sent` on (`WritesFrom`, so
that `Position` is what the write's turns have parsed), and `RecordedIn`: each valid record
was entered. The other parts stand under the exceptions. Unless `resent`, `Follows` ties
the parser to its place: with q units of the stream read it is between two payloads, one
unit behind the start of a header, or in payload k with as many of its units stored as q
says, and nothing in its buffer is from behind q; `Delivers` is `NothingIsLost` in the
middle of a write: a payload that ends at or before `Position` has reached MS12 before
any later one, or is the one in hand; `InputSeen`, that MS12 holds nothing from behind
`Position`, gives the order. Unless `uncounted`, `Matches` is `OffsetsMatchInput`. Unless
`outdated`, `KeptIn` says that for each entry there is a valid record at least as far on
that is not beyond the bytes the next look-up may be told of (`ReadCount`) unless it is at
the entry's own offset, which is what `AfterLookup` keeps and a look-up needs. `Quiet`
is the window of a flush: nothing is written between the emptying of the table and that
of MS12, or else `late` is set.

The layout of the stream (where payloads begin and end, and what is at each place), the
parser's loop and the offsets in MS12's input are recursive functions. That they exist
and what they satisfy is shown by induction over a set (`UpTo`, `Recursion`), with
well-founded induction on the naturals as the only library principle; the heart is
`TakeUnitKeeps`, that a turn of `audio_header_find_frame()` keeps `CallAt`, from which
`FrameFound` says what a call returns. The table rests on `FoundIsLatest`,
`LookupKeeps` and the lemmas on check-ins; then one lemma per action.

`SinkFormatProofs`, for every product, setting, sink and stream (no assumptions
besides the ranges of the fields):

* `SinkTakesFormat`: in the modes AUTO and BYPASS the sink is sent a format it
  takes, DTS streams as DTS or PCM and others never as DTS. The hypothesis
  `Layered` is what `min()` relies on: with a format the sink takes the lower ones
  of its family. Without it a sink of MAT alone would be sent Dolby Digital Plus.
* `OpticalFits`: where S/PDIF carries something else than the sink it carries PCM,
  DD or DTS, but for HE-AAC streams, whose number is below that of AC3, and for the
  bypass of the DCV library.

They rest on lemmas that the two capabilities are formats the sink takes, and that
`Lower` stays in the family of its arguments.

Only model-checked:

* liveness: `WritesReturn`, `ExitTaken`, `CommandsTaken`, `ControlReturns`,
  `CallsReturn`, `ThreadJoined`, `ReleaseReturns`, `FormatIsFollowed`. Liveness under
  fairness and ENABLED are beyond TLAPS as used here;
* the sync word search (`FindsASyncWord`), and that the parser alone finds the payloads of
  a stream under every set of cuts (`CutsDoNotMatter`), which TLC compares with their
  definitions over bounded inputs. What a recursive definition computes takes an
  induction over data; for the parser inside `HwSync` the invariant above does it
  instead;
* the disagreements, each of which is a counterexample.

## Not modelled

See the component list in `PROJECT.json` for the reason in each case. In the
modelled files:

* mixer: output ports and their locks, standby, sample processing, the mixer of a
  DTS stream while MS12 is on;
* DTV: associated audio, the single-demux (UIO) read path, allocation failures, AV
  sync;
* TV patch: the format parser thread (its result is an input), the signal
  detection thread, failures while a patch is created;
* HW AV sync: the start and drop policies of msync and mediasync, several access
  units per payload. The pts of a payload's later units is computed from the
  first one's, also when that is `HWSYNC_PTS_NA`; the sum then wraps round to a
  small pts (audio_hw.c:8185);
* MS12: the library, its callbacks, its clean-up and reconfiguration, associated
  and system streams.

Device and stack I/O (ALSA, A2DP, SCO, MMAP), the decoder wrappers and the signal
processing have little control that is shared between threads; the vendored code
is not the program's own.
