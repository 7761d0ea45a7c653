------------------------------- MODULE TvPatch -------------------------------
(***************************************************************************)
(* The patch from the HDMI input to the speaker (tv_patch.c):              *)
(*   - the input thread captures periods and writes them to the ring; it   *)
(*     empties the ring when it is full and replaces it when HDMI changes  *)
(*     its packets (reconfig_read_param_through_hdmiin(), tv_patch_ctrl.c);*)
(*   - the output thread follows the format the parser thread detects: it  *)
(*     reopens its stream and empties the ring; it aligns compressed data  *)
(*     to its IEC 61937 sync words and writes what it reads to the stream; *)
(*   - release_patch_l() stops the threads one after another.              *)
(*                                                                         *)
(* The ring's calls are atomic and keep the order (BoundedFifo); growing   *)
(* it is not, and a resize that does not grow leaves last_is_write as it   *)
(* was (RingBuffer).  A unit stands for a period captured; a sync word is  *)
(* in one unit.  MS12 decodes the compressed format.                       *)
(*                                                                         *)
(* External: the HDMI receiver, the parser thread and the framework.  The  *)
(* threads have been created; mode_reconfig_in, which no code sets, is     *)
(* FALSE.  The signal detection thread shares nothing with the others.     *)
(***************************************************************************)
EXTENDS Integers, Sequences

CONSTANTS WriteBytes,    \* what the output thread reads at once, for each format
          RingSize,      \* the ring's size for each kind of packets
          MaxCaptured,   \* bound: the periods of data HDMI delivers
          MaxChanges     \* bound: the changes of format and of packets

Formats == {"pcm", "compressed"}
Packets == DOMAIN RingSize

ASSUME TvPatchAssumption ==
  /\ WriteBytes \in [Formats -> Nat \ {0}] /\ "AUDS" \in Packets /\ RingSize \in [Packets -> Nat \ {0}]
  /\ MaxCaptured \in Nat /\ MaxChanges \in Nat

VARIABLES
  hdmi,        \* external: the packets and the detected type, and the changes
  aformat, digital_input_fmt_change,
  aml_ringbuffer,
  input,       \* the input thread, with its local variables
  output,      \* the output thread, with its local variables
  control,     \* where release_patch_l() is
  captured,    \* history: the periods of data captured
  played,      \* history: the last of them the output stream was given
  opened,      \* history: how many there were when the ring was emptied for a new stream
  searched,    \* history: in this turn of the output thread's loop a sync word was
               \* found, or the ring held something when its read space was taken;
               \* and it was not emptied or cleared since the search
  overwritten, \* history: the input thread overwrote a format that was detected
  fault        \* what a thread stumbled over: that ends the behaviour

patch == <<aformat, digital_input_fmt_change>>
marks == <<opened, played>>
vars == <<hdmi, patch, aml_ringbuffer, input, output, control, captured,
          marks, searched, overwritten, fault>>

Silence == [n |-> 0, sync |-> FALSE]
Empty(size) == [size |-> size, storage |-> TRUE, units |-> <<>>, last_is_write |-> FALSE]

Init ==
  /\ hdmi = [packet |-> "AUDS", type |-> "pcm", changes |-> 0]
  /\ aformat = "pcm" /\ digital_input_fmt_change = FALSE
  /\ aml_ringbuffer = Empty(RingSize["AUDS"])
  /\ input = [at |-> "open", exit |-> FALSE, in_buf |-> Silence, retry |-> FALSE,
              packet |-> "AUDS"]
  /\ output = [at |-> "open", exit |-> FALSE, stream |-> "none", found |-> FALSE,
               read_space |-> 0, drop |-> 0, out_buf |-> <<>>]
  /\ control = "idle"
  /\ captured = 0 /\ played = 0 /\ opened = 0
  /\ searched = FALSE /\ overwritten = FALSE /\ fault = "none"

Alive == fault = "none"
ReadSpace == Len(aml_ringbuffer.units)

----------------------------------------------------------------------------
(* HDMI and the parser thread (external).                                   *)

HdmiChanges ==
  /\ Alive /\ hdmi.changes < MaxChanges
  /\ \/ \E p \in Packets \ {hdmi.packet} :
          hdmi' = [hdmi EXCEPT !.packet = p, !.changes = @ + 1]
     \/ \E t \in Formats \ {hdmi.type} :
          hdmi' = [hdmi EXCEPT !.type = t, !.changes = @ + 1]
  /\ UNCHANGED <<patch, aml_ringbuffer, input, output, control, captured,
                 marks, searched, overwritten, fault>>

----------------------------------------------------------------------------
(* audio_patch_input_threadloop().                                          *)

InputOnly == UNCHANGED <<hdmi, digital_input_fmt_change, control, marks>>

\* The format of the patch is set before the stream is opened, while the output
\* thread may have detected another one.
InputOpen ==
  /\ Alive /\ input.at = "open"
  /\ aformat' = "pcm" /\ overwritten' = (aformat # "pcm")
  /\ \E ok \in BOOLEAN : input' = [input EXCEPT !.at = IF ok THEN "loop" ELSE "done"]
  /\ InputOnly /\ UNCHANGED <<aml_ringbuffer, output, captured, searched, fault>>

\* A period of data, which may have been overwritten with zeros.
Capture ==
  /\ Alive /\ input.at = "loop" /\ ~input.exit /\ captured < MaxCaptured
  /\ captured' = captured + 1
  /\ \E sync \in BOOLEAN :
       /\ hdmi.type = "pcm" => ~sync
       /\ input' = [input EXCEPT !.at = "reconfig", !.in_buf = [n |-> captured + 1, sync |-> sync]]
  /\ InputOnly /\ UNCHANGED <<aformat, overwritten, aml_ringbuffer, output, searched, fault>>

\* The signal is not stable or tv_mute is set: ring_buffer_clear() overwrites
\* what is in the ring and leaves it there.
CaptureUnstable ==
  /\ Alive /\ input.at = "loop" /\ ~input.exit
  /\ aml_ringbuffer' = [aml_ringbuffer EXCEPT !.units = [i \in DOMAIN @ |-> Silence]]
  /\ searched' = FALSE
  /\ input' = [input EXCEPT !.at = "reconfig", !.in_buf = Silence]
  /\ InputOnly /\ UNCHANGED <<aformat, overwritten, output, captured, fault>>

\* reconfig_read_param_through_hdmiin(): other packets than the input stream
\* was configured for.  The period captured is given up.
Reconfig ==
  LET size == RingSize[hdmi.packet]
      r == aml_ringbuffer
  IN  /\ Alive /\ input.at = "reconfig" /\ input.packet # hdmi.packet
      /\ \/ /\ size > r.size
            /\ aml_ringbuffer' = [Empty(0) EXCEPT !.storage = FALSE]
            /\ input' = [input EXCEPT !.at = "grow", !.packet = hdmi.packet]
         \/ /\ size <= r.size
            /\ aml_ringbuffer' =
                 [Empty(size) EXCEPT !.last_is_write = r.last_is_write,
                    !.units = IF r.last_is_write THEN [i \in 1..size |-> Silence] ELSE <<>>]
            /\ input' = [input EXCEPT !.at = "loop", !.packet = hdmi.packet]
      /\ searched' = FALSE
      /\ InputOnly /\ UNCHANGED <<aformat, overwritten, output, captured, fault>>

\* ring_buffer_reset_size() stores the new size without the lock ...
GrowSize ==
  /\ Alive /\ input.at = "grow"
  /\ aml_ringbuffer' = [aml_ringbuffer EXCEPT !.size = RingSize[input.packet]]
  /\ input' = [input EXCEPT !.at = "allocate"]
  /\ InputOnly /\ UNCHANGED <<aformat, overwritten, output, captured, searched, fault>>

\* ... and has ring_buffer_init() allocate the storage.
GrowInit ==
  /\ Alive /\ input.at = "allocate"
  /\ aml_ringbuffer' = Empty(RingSize[input.packet])
  /\ input' = [input EXCEPT !.at = "loop"]
  /\ InputOnly /\ UNCHANGED <<aformat, overwritten, output, captured, searched, fault>>

NoReconfig ==
  /\ Alive /\ input.at = "reconfig" /\ input.packet = hdmi.packet
  /\ input' = [input EXCEPT !.at = "write"]
  /\ InputOnly /\ UNCHANGED <<aformat, overwritten, aml_ringbuffer, output, captured, searched, fault>>

\* What is not compressed is not searched for sync words.
AfterWait == IF output.stream = "pcm" THEN "space" ELSE "query"

\* pthread_cond_signal(&patch->cond), without the mutex.
Signal == output' = IF output.at = "wait" THEN [output EXCEPT !.at = AfterWait] ELSE output

Written == [aml_ringbuffer EXCEPT !.units = Append(@, input.in_buf), !.last_is_write = TRUE]

\* Mutation: the period is written whether or not there is room.
WriteRing_Unchecked ==
  /\ Alive /\ input.at = "write"
  /\ aml_ringbuffer' = Written
  /\ input' = [input EXCEPT !.at = "loop", !.retry = FALSE, !.in_buf = Silence]
  /\ Signal
  /\ InputOnly /\ UNCHANGED <<aformat, overwritten, captured, searched, fault>>

\* Mutation: retry is not taken back.
WriteRing_KeepsRetry ==
  /\ Alive /\ input.at = "write" /\ ReadSpace < aml_ringbuffer.size
  /\ aml_ringbuffer' = Written
  /\ input' = [input EXCEPT !.at = IF input.retry /\ ~input.exit THEN "reconfig" ELSE "loop"]
  /\ Signal
  /\ InputOnly /\ UNCHANGED <<aformat, overwritten, captured, searched, fault>>

WriteRing ==
  /\ Alive /\ input.at = "write" /\ ReadSpace < aml_ringbuffer.size
  /\ aml_ringbuffer' = Written
  /\ input' = [input EXCEPT !.at = "loop", !.retry = FALSE, !.in_buf = Silence]
  /\ Signal
  /\ InputOnly /\ UNCHANGED <<aformat, overwritten, captured, searched, fault>>

\* No space: what the output thread has not read yet is given up, and the period
\* is tried again unless the thread is to exit.
WriteFull ==
  /\ Alive /\ input.at = "write" /\ ReadSpace = aml_ringbuffer.size
  /\ input' = [input EXCEPT !.at = "full", !.retry = TRUE]
  /\ Signal
  /\ InputOnly /\ UNCHANGED <<aformat, overwritten, aml_ringbuffer, captured, searched, fault>>

ResetFull ==
  /\ Alive /\ input.at = "full"
  /\ aml_ringbuffer' = Empty(aml_ringbuffer.size)
  /\ searched' = FALSE
  /\ input' = [input EXCEPT !.at = IF input.exit THEN "loop" ELSE "reconfig"]
  /\ InputOnly /\ UNCHANGED <<aformat, overwritten, output, captured, fault>>

InputExit ==
  /\ Alive /\ input.at = "loop" /\ input.exit
  /\ input' = [input EXCEPT !.at = "done"]
  /\ InputOnly /\ UNCHANGED <<aformat, overwritten, aml_ringbuffer, output, captured, searched, fault>>

Input == \/ InputOpen \/ Capture \/ CaptureUnstable \/ Reconfig \/ GrowSize \/ GrowInit
         \/ NoReconfig \/ WriteRing \/ WriteFull \/ ResetFull
         \/ InputExit

----------------------------------------------------------------------------
(* audio_patch_output_threadloop().                                         *)

OutputOnly == UNCHANGED <<hdmi, input, control, captured, overwritten>>
At(place) == Alive /\ output.at = place

OutputOpen ==
  /\ At("open")
  /\ \E ok \in BOOLEAN :
       output' = IF ok THEN [output EXCEPT !.at = "check", !.stream = "pcm"]
                 ELSE [output EXCEPT !.at = "done"]
  /\ OutputOnly /\ UNCHANGED <<patch, aml_ringbuffer, marks, searched, fault>>

\* Mutation: only the change to a compressed format is a change.
FormatCheck_CompressedOnly ==
  /\ At("check") /\ ~output.exit
  /\ aformat' = hdmi.type
  /\ digital_input_fmt_change' =
       (digital_input_fmt_change \/ (hdmi.type # aformat /\ hdmi.type = "compressed"))
  /\ output' = [output EXCEPT !.at = IF digital_input_fmt_change' THEN "reopen" ELSE "level"]
  /\ searched' = FALSE
  /\ OutputOnly /\ UNCHANGED <<aml_ringbuffer, marks, fault>>

\* audio_digital_input_format_check().
FormatCheck ==
  /\ At("check") /\ ~output.exit
  /\ aformat' = hdmi.type
  /\ digital_input_fmt_change' = (digital_input_fmt_change \/ hdmi.type # aformat)
  /\ output' = [output EXCEPT !.at = IF digital_input_fmt_change' THEN "reopen" ELSE "level"]
  /\ searched' = FALSE
  /\ OutputOnly /\ UNCHANGED <<aml_ringbuffer, marks, fault>>

\* The log line dereferences the stream, which is gone if it could not be
\* reopened the last time.
Reopen ==
  /\ At("reopen")
  /\ IF output.stream = "none"
     THEN fault' = "no stream" /\ UNCHANGED output
     ELSE /\ \E ok \in BOOLEAN :
               output' = IF ok THEN [output EXCEPT !.at = "opened", !.stream = aformat,
                                       !.found = @ /\ aformat = "pcm"]
                         ELSE [output EXCEPT !.at = "check", !.stream = "none"]
          /\ UNCHANGED fault
  /\ OutputOnly /\ UNCHANGED <<patch, aml_ringbuffer, marks, searched>>

\* Mutation: what is in the ring goes to the new stream.
ResetForStream_KeepsRing ==
  /\ At("opened")
  /\ opened' = captured
  /\ digital_input_fmt_change' = FALSE
  /\ output' = [output EXCEPT !.at = "level"]
  /\ OutputOnly /\ UNCHANGED <<aformat, aml_ringbuffer, played, searched, fault>>

\* ring_buffer_reset(), which writes to the storage even if it has none.
ResetForStream ==
  LET r == aml_ringbuffer
  IN  /\ At("opened")
      /\ IF ~r.storage /\ r.size > 0
         THEN fault' = "no ring" /\ UNCHANGED <<aml_ringbuffer, opened>>
         ELSE /\ aml_ringbuffer' = [r EXCEPT !.units = <<>>, !.last_is_write = FALSE]
              /\ opened' = captured
              /\ UNCHANGED fault
      /\ digital_input_fmt_change' = FALSE
      /\ output' = [output EXCEPT !.at = "level"]
      /\ OutputOnly /\ UNCHANGED <<aformat, played, searched>>

Wanted == WriteBytes[output.stream]

CheckLevel ==
  /\ At("level")
  /\ output' = [output EXCEPT !.at = IF ReadSpace < Wanted THEN "wait" ELSE AfterWait]
  /\ OutputOnly /\ UNCHANGED <<patch, aml_ringbuffer, marks, searched, fault>>

\* Mutation: the wait has no timeout.
WaitEnds_OnSignal == At("wait") /\ FALSE /\ UNCHANGED vars

\* 300 ms have passed; or the input thread ends the wait (Signal).
WaitEnds ==
  /\ At("wait")
  /\ output' = [output EXCEPT !.at = AfterWait]
  /\ OutputOnly /\ UNCHANGED <<patch, aml_ringbuffer, marks, searched, fault>>

\* The ring's level is taken before the ring is searched, each under the ring's
\* lock: by the time of the search the level may be another.
QueryLevel ==
  /\ At("query")
  /\ output' = [output EXCEPT !.at = "search", !.read_space = ReadSpace]
  /\ OutputOnly /\ UNCHANGED <<patch, aml_ringbuffer, marks, searched, fault>>

SyncWords == {i \in DOMAIN aml_ringbuffer.units : aml_ringbuffer.units[i].sync}

\* The units before a sync word, not always the first (SyncSearch).
SearchFinds ==
  /\ At("search")
  /\ \E i \in SyncWords :
       output' = [output EXCEPT !.at = IF i = 1 THEN "space" ELSE "drop", !.found = TRUE,
                                !.read_space = 0, !.drop = i - 1]
  /\ searched' = TRUE
  /\ OutputOnly /\ UNCHANGED <<patch, aml_ringbuffer, marks, fault>>

\* Mutation: data without a sync word is played once one was found.
SearchFails_PlaysOn ==
  LET level == output.read_space
  IN  /\ At("search") /\ SyncWords = {}
      /\ output' = [output EXCEPT !.read_space = 0, !.drop = level,
                      !.at = IF level > 0 /\ ~output.found THEN "drop" ELSE "space"]
      /\ searched' = (level > 0)
      /\ OutputOnly /\ UNCHANGED <<patch, aml_ringbuffer, marks, fault>>

\* None is there: as much as the level said is dropped if none was found before,
\* or if it said that there is more than a frame; otherwise the sync word may
\* come with the next period.
SearchFails ==
  LET level == output.read_space
      give_up == ~output.found \/ level > Wanted
  IN  /\ At("search") /\ SyncWords = {}
      /\ output' = [output EXCEPT !.read_space = 0, !.drop = IF give_up THEN level ELSE 0,
                      !.at = IF ~give_up THEN "check"
                             ELSE IF level > 0 THEN "drop" ELSE "space"]
      /\ searched' = (level > 0)
      /\ OutputOnly /\ UNCHANGED <<patch, aml_ringbuffer, marks, fault>>

Least(a, b) == IF a < b THEN a ELSE b
TakeUnits(k) == [aml_ringbuffer EXCEPT !.units = SubSeq(@, k + 1, Len(@)),
                                       !.last_is_write = @ /\ k = 0]

\* ring_buffer_seek().
Drop ==
  /\ At("drop")
  /\ aml_ringbuffer' = TakeUnits(Least(output.drop, ReadSpace))
  /\ output' = [output EXCEPT !.at = "check", !.drop = 0]
  /\ OutputOnly /\ UNCHANGED <<patch, marks, searched, fault>>

\* There is enough to read, now.
CheckSpace ==
  /\ At("space")
  /\ output' = [output EXCEPT !.at = IF ReadSpace < Wanted THEN "check" ELSE "read"]
  /\ OutputOnly /\ UNCHANGED <<patch, aml_ringbuffer, marks, searched, fault>>

\* ring_buffer_read() returns less if the ring was emptied.
ReadRing ==
  LET k == Least(Wanted, ReadSpace)
  IN  /\ At("read")
      /\ aml_ringbuffer' = TakeUnits(k)
      /\ output' = [output EXCEPT !.at = "write", !.out_buf = SubSeq(aml_ringbuffer.units, 1, k)]
      /\ OutputOnly /\ UNCHANGED <<patch, marks, searched, fault>>

\* The units that hold data, not silence.
Periods(units) == {i \in DOMAIN units : units[i].n # 0}

\* The period is written, or skipped by aml_dev_try_avsync().
WriteOut ==
  LET periods == Periods(output.out_buf)
  IN  /\ At("write")
      /\ \/ \E i \in periods : /\ \A j \in periods : j <= i
                              /\ played' = output.out_buf[i].n
         \/ UNCHANGED played
      /\ output' = [output EXCEPT !.at = "check", !.out_buf = <<>>]
      /\ OutputOnly /\ UNCHANGED <<patch, aml_ringbuffer, opened, searched, fault>>

\* After the loop the stream is closed, if it is there or not.
OutputExit ==
  /\ At("check") /\ output.exit
  /\ IF output.stream = "none"
     THEN fault' = "no stream" /\ UNCHANGED output
     ELSE output' = [output EXCEPT !.at = "done"] /\ UNCHANGED fault
  /\ OutputOnly /\ UNCHANGED <<patch, aml_ringbuffer, marks, searched>>

Output == \/ OutputOpen \/ FormatCheck \/ Reopen \/ ResetForStream \/ CheckLevel \/ WaitEnds
          \/ QueryLevel \/ SearchFinds \/ SearchFails \/ Drop \/ CheckSpace \/ ReadRing
          \/ WriteOut \/ OutputExit

----------------------------------------------------------------------------
(* release_patch_l().                                                       *)

ReleaseOnly == UNCHANGED <<hdmi, patch, aml_ringbuffer, captured, marks, searched,
                           overwritten, fault>>

StartRelease ==
  /\ Alive /\ control = "idle" /\ control' = "join output"
  /\ output' = [output EXCEPT !.exit = TRUE]
  /\ ReleaseOnly /\ UNCHANGED input

OutputJoined ==
  /\ Alive /\ control = "join output" /\ output.at = "done"
  /\ control' = "join input"
  /\ input' = [input EXCEPT !.exit = TRUE]
  /\ ReleaseOnly /\ UNCHANGED output

\* Mutation: the input thread was told to exit, and is not joined.
InputJoined_NoJoin ==
  /\ Alive /\ control = "join input" /\ control' = "released"
  /\ ReleaseOnly /\ UNCHANGED <<input, output>>

\* Then the ring and the patch are freed.
InputJoined ==
  /\ Alive /\ control = "join input" /\ input.at = "done" /\ control' = "released"
  /\ ReleaseOnly /\ UNCHANGED <<input, output>>

Release == OutputJoined \/ InputJoined

----------------------------------------------------------------------------
Next == HdmiChanges \/ Input \/ Output \/ StartRelease \/ Release

\* The threads run; nobody need release the patch.
Spec == /\ Init /\ [][Next]_vars
        /\ WF_vars(Input) /\ WF_vars(Output) /\ WF_vars(Release)

----------------------------------------------------------------------------
Units == [n : 0..MaxCaptured, sync : BOOLEAN]

\* Every variable keeps its type; the ring never holds more than its size.
TypeOK ==
  /\ aformat \in Formats /\ digital_input_fmt_change \in BOOLEAN
  /\ aml_ringbuffer.size \in Nat /\ ReadSpace \in 0..aml_ringbuffer.size
  /\ aml_ringbuffer.units \in Seq(Units)
  /\ aml_ringbuffer.last_is_write \in BOOLEAN
  /\ input.at \in {"open", "loop", "reconfig", "grow", "allocate", "write", "full", "done"}
  /\ input.in_buf \in Units /\ input.packet \in Packets
  /\ output.at \in {"open", "check", "reopen", "opened", "level", "wait", "query", "search",
                    "drop", "space", "read", "write", "done"}
  /\ output.stream \in Formats \cup {"none"} /\ output.read_space \in Nat
  /\ output.out_buf \in Seq(Units)
  /\ control \in {"idle", "join output", "join input", "released"}
  /\ fault \in {"none", "no stream", "no ring"}

\* The periods that were played, are being written, are in the ring and are to
\* be written to it are in the order they were captured in, each once: across
\* the full ring and its retry, the resizes, and the stream's reopening.
InOrder ==
  LET pending == IF input.at \in {"reconfig", "write", "full"} THEN <<input.in_buf>> ELSE <<>>
      units == output.out_buf \o aml_ringbuffer.units \o pending
  IN  /\ \A i \in Periods(units) : units[i].n > played
      /\ \A i, j \in Periods(units) : i < j => units[i].n < units[j].n

\* "reset audio patch ringbuffer": of what was captured before the stream was
\* reopened, the new one gets at most the period the input thread was holding.
OldDataIsOnePeriod ==
  \A i \in DOMAIN output.out_buf :
    output.out_buf[i].n # 0 => output.out_buf[i].n >= opened

\* What a decoder of compressed data is given starts at a sync word.  There are
\* two exceptions, as the level, the search and the read are three critical
\* sections (tv_patch.c:563-564, 588-589): the ring was empty when its level was
\* taken, had data without a sync word when it was searched or read, and the
\* stream has not found one yet; or the input thread emptied or cleared the ring
\* after the search.
StartsAtSyncWord ==
  output.at = "write" /\ output.stream = "compressed" /\ searched =>
    output.out_buf # <<>> /\ output.out_buf[1].sync

\* The ring and the patch are freed when no thread uses them any more.
NothingFreedIsUsed == control = "released" => input.at = "done" /\ output.at = "done"

\* release_patch_l() returns, whatever the threads were doing, and if they gave
\* up at their start; or the process has died.
ReleaseReturns == control = "join output" ~> control = "released" \/ ~Alive

\* The output stream ends up in the format of the input.  It does not when the
\* input thread starts so late that it overwrites a format detected, and the
\* input was PCM again by then: aformat is then PCM, and there is no change.
FormatIsFollowed ==
  \A f \in Formats :
    <>[](hdmi.type = f) =>
      <>[](output.stream = f \/ output.exit \/ output.at = "done" \/ ~Alive
           \/ (overwritten /\ f = "pcm"))
=============================================================================
