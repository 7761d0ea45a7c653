----------------------------- MODULE TvPatchProofs -----------------------------
(***************************************************************************)
(* Theorems about TvPatch for any sizes of the ring and of the reads, and  *)
(* any number of periods and changes: the periods stay in order, a new     *)
(* stream gets at most one period of what was captured before it, what is  *)
(* decoded starts at a sync word, and what is freed is used no more.       *)
(***************************************************************************)
EXTENDS TvPatch, TLAPS, SequenceTheorems

----------------------------------------------------------------------------
(* The invariant.                                                           *)

\* The types, one by one.
HdmiState == [packet : Packets, type : Formats, changes : Nat]

RingState == [size : Nat, storage : BOOLEAN, units : Seq(Units), last_is_write : BOOLEAN]

InputAt == {"open", "loop", "reconfig", "grow", "allocate", "write", "full", "done"}

InputState == [at : InputAt, exit : BOOLEAN, in_buf : Units, retry : BOOLEAN, packet : Packets]

OutputAt == {"open", "check", "reopen", "opened", "level", "wait", "query", "search", "drop", "space",
             "read", "write", "done"}

OutputState == [at : OutputAt, exit : BOOLEAN, stream : Formats \cup {"none"},
                found : BOOLEAN, read_space : Nat, drop : Nat, out_buf : Seq(Units)]

Typed ==
  /\ hdmi \in HdmiState /\ aformat \in Formats /\ digital_input_fmt_change \in BOOLEAN
  /\ aml_ringbuffer \in RingState /\ input \in InputState /\ output \in OutputState
  /\ control \in {"idle", "join output", "join input", "released"}
  /\ captured \in 0..MaxCaptured /\ played \in 0..MaxCaptured /\ opened \in 0..MaxCaptured
  /\ played <= captured /\ opened <= captured
  /\ searched \in BOOLEAN /\ overwritten \in BOOLEAN
  /\ fault \in {"none", "no stream", "no ring"}

\* The ring holds no more than its size, also while it is replaced.
Fits ==
  /\ Len(aml_ringbuffer.units) <= aml_ringbuffer.size
  /\ input.at \in {"grow", "allocate"} => aml_ringbuffer.units = <<>>

\* The output thread goes past the reopening only with a stream, and what it
\* has read waits nowhere but at the write.
StreamThere ==
  /\ output.stream = "none" =>
       /\ output.at \in {"open", "check", "reopen", "done"}
       /\ output.at = "check" => digital_input_fmt_change
  /\ output.at = "reopen" => digital_input_fmt_change
  /\ output.at # "write" => output.out_buf = <<>>

\* The input thread has a period that it has not written.
Holding == input.at \in {"reconfig", "write", "full"}

\* u was captured before v, if both hold data.
Earlier(u, v) == u.n # 0 /\ v.n # 0 => u.n < v.n

\* u was not played yet, and the stream was not reopened since it was captured.
Unplayed(u) == u.n <= captured /\ (u.n # 0 => u.n > played /\ u.n >= opened)

Sorted(s) == \A i, j \in 1..Len(s) : i < j => Earlier(s[i], s[j])

\* The periods read, in the ring and held by the input thread are in order.
PeriodsInOrder ==
  /\ \A i \in 1..Len(output.out_buf) : Unplayed(output.out_buf[i])
  /\ \A i \in 1..Len(aml_ringbuffer.units) : Unplayed(aml_ringbuffer.units[i])
  /\ Sorted(output.out_buf) /\ Sorted(aml_ringbuffer.units)
  /\ \A i \in 1..Len(output.out_buf), j \in 1..Len(aml_ringbuffer.units) :
       Earlier(output.out_buf[i], aml_ringbuffer.units[j])

HeldIsLast ==
  Holding =>
    /\ input.in_buf.n \in {0, captured} /\ Unplayed(input.in_buf)
    /\ \A i \in 1..Len(output.out_buf) : Earlier(output.out_buf[i], input.in_buf)
    /\ \A i \in 1..Len(aml_ringbuffer.units) : Earlier(aml_ringbuffer.units[i], input.in_buf)

\* Between the search and the read of compressed data, the sync word that was
\* found stays in front unless the input thread empties or clears the ring.
SyncWordInFront ==
  /\ output.at \in {"space", "read"} /\ output.stream = "compressed" /\ searched =>
       aml_ringbuffer.units # <<>> /\ aml_ringbuffer.units[1].sync
  /\ StartsAtSyncWord

Joined ==
  /\ control \in {"join input", "released"} => output.at = "done"
  /\ control = "released" => input.at = "done"

TvInv ==
  /\ Typed /\ Fits /\ StreamThere
  /\ PeriodsInOrder /\ HeldIsLast
  /\ SyncWordInFront /\ Joined

----------------------------------------------------------------------------
(* What a step starts from.                                                 *)

\* The fields of a unit.
LEMMA UnitFields ==
  /\ \A u \in Units : u.n \in 0..MaxCaptured /\ u.n \in Nat /\ u.sync \in BOOLEAN
  /\ Silence \in Units /\ Silence.n = 0
<1>1. MaxCaptured \in Nat
  BY TvPatchAssumption
<1>2. \A u \in Units : u.n \in 0..MaxCaptured /\ u.sync \in BOOLEAN
  BY DEF Units
<1>3. Silence \in Units /\ Silence.n = 0
  BY <1>1 DEF Units, Silence
<1> QED
  BY <1>1, <1>2, <1>3

\* The fields of the ring.
LEMMA RingFields ==
  ASSUME NEW r \in RingState
  PROVE  /\ r.size \in Nat /\ r.storage \in BOOLEAN /\ r.units \in Seq(Units)
         /\ r.last_is_write \in BOOLEAN
BY DEF RingState

\* The fields of the input thread.
LEMMA InputFields ==
  ASSUME NEW r \in InputState
  PROVE  /\ r.at \in InputAt /\ r.exit \in BOOLEAN /\ r.in_buf \in Units
         /\ r.retry \in BOOLEAN /\ r.packet \in Packets
BY DEF InputState

\* The fields of the output thread.
LEMMA OutputFields ==
  ASSUME NEW r \in OutputState
  PROVE  /\ r.at \in OutputAt /\ r.exit \in BOOLEAN /\ r.stream \in Formats \cup {"none"}
         /\ r.found \in BOOLEAN /\ r.read_space \in Nat /\ r.drop \in Nat /\ r.out_buf \in Seq(Units)
BY DEF OutputState

\* The invariant, part by part.
LEMMA Facts ==
  ASSUME TvInv
  PROVE  /\ Typed /\ Fits /\ StreamThere /\ PeriodsInOrder /\ HeldIsLast
         /\ SyncWordInFront /\ Joined
         /\ hdmi \in HdmiState /\ hdmi.packet \in Packets /\ hdmi.type \in Formats
         /\ aformat \in Formats /\ digital_input_fmt_change \in BOOLEAN
         /\ aml_ringbuffer \in RingState /\ aml_ringbuffer.size \in Nat
         /\ aml_ringbuffer.units \in Seq(Units)
         /\ input \in InputState /\ input.at \in InputAt /\ input.in_buf \in Units
         /\ input.packet \in Packets
         /\ output \in OutputState /\ output.at \in OutputAt /\ output.drop \in Nat
         /\ output.read_space \in Nat
         /\ output.stream \in Formats \cup {"none"} /\ output.out_buf \in Seq(Units)
         /\ captured \in 0..MaxCaptured /\ played \in 0..MaxCaptured /\ opened \in 0..MaxCaptured
         /\ played <= captured /\ opened <= captured
         /\ searched \in BOOLEAN /\ overwritten \in BOOLEAN
<1>1. hdmi \in HdmiState => hdmi.packet \in Packets /\ hdmi.type \in Formats
  BY DEF HdmiState
<1> QED
  BY <1>1, RingFields, InputFields, OutputFields DEF TvInv, Typed

----------------------------------------------------------------------------
(* The order of the periods.                                                *)

\* The ring as it is, seen as what is left of it.
LEMMA ShiftedByNone ==
  ASSUME NEW u \in Seq(Units)
  PROVE  \A i \in 1..Len(u) : i + 0 \in 1..Len(u) /\ u[i] = u[i + 0]
<1>1. Len(u) \in Nat
  BY LenProperties
<1> QED
  BY <1>1

\* What is left of a ring, from its k-th unit on and with some of it silenced,
\* is still in order, with the period the input thread holds.
LEMMA OrderKept ==
  ASSUME TvInv, NEW k \in Nat, aml_ringbuffer' \in RingState, input' \in InputState,
         UNCHANGED <<captured, played, opened>>, output'.out_buf = output.out_buf,
         \A i \in 1..Len(aml_ringbuffer.units') :
           \/ aml_ringbuffer.units'[i].n = 0
           \/ /\ i + k \in 1..Len(aml_ringbuffer.units)
              /\ aml_ringbuffer.units'[i] = aml_ringbuffer.units[i + k],
         Holding' => input'.in_buf.n = 0 \/ (Holding /\ input'.in_buf = input.in_buf)
  PROVE  PeriodsInOrder' /\ HeldIsLast'
<1>1. PICK u \in Seq(Units), v \in Seq(Units), o \in Seq(Units) :
        /\ u = aml_ringbuffer.units /\ v = aml_ringbuffer'.units /\ o = output.out_buf
  BY Facts, RingFields
<1>2. PICK b \in Units : b = input'.in_buf
  BY InputFields
<1>3. \A i \in 1..Len(v) : \/ v[i].n = 0
                           \/ i + k \in 1..Len(u) /\ v[i] = u[i + k]
  BY <1>1
<1>4. /\ \A i \in 1..Len(o) : Unplayed(o[i]) /\ o[i] \in Units
      /\ \A i \in 1..Len(u) : Unplayed(u[i]) /\ u[i] \in Units
      /\ \A i \in 1..Len(v) : v[i] \in Units
      /\ Sorted(o) /\ Sorted(u)
      /\ \A i \in 1..Len(o), j \in 1..Len(u) : Earlier(o[i], u[j])
  BY <1>1, Facts DEF PeriodsInOrder
<1>5. \A i \in 1..Len(v) : Unplayed(v[i])
  <2> TAKE i \in 1..Len(v)
  <2>1. CASE v[i].n = 0
    BY <2>1, Facts DEF Unplayed
  <2>2. CASE i + k \in 1..Len(u) /\ v[i] = u[i + k]
    BY <1>4, <2>2
  <2> QED
    BY <1>3, <2>1, <2>2
<1>6. Sorted(v)
  <2> SUFFICES ASSUME NEW i \in 1..Len(v), NEW j \in 1..Len(v), i < j
               PROVE  Earlier(v[i], v[j])
    BY DEF Sorted
  <2>1. CASE v[i].n = 0 \/ v[j].n = 0
    BY <2>1 DEF Earlier
  <2>2. CASE v[i].n # 0 /\ v[j].n # 0
    <3>1. /\ i + k \in 1..Len(u) /\ v[i] = u[i + k]
          /\ j + k \in 1..Len(u) /\ v[j] = u[j + k]
      BY <1>3, <2>2
    <3>2. i + k < j + k
      OBVIOUS
    <3> QED
      BY <1>4, <3>1, <3>2 DEF Sorted
  <2> QED
    BY <2>1, <2>2
<1>7. \A i \in 1..Len(o), j \in 1..Len(v) : Earlier(o[i], v[j])
  <2> TAKE i \in 1..Len(o), j \in 1..Len(v)
  <2>1. CASE v[j].n = 0
    BY <2>1 DEF Earlier
  <2>2. CASE j + k \in 1..Len(u) /\ v[j] = u[j + k]
    BY <1>4, <2>2
  <2> QED
    BY <1>3, <2>1, <2>2
<1>8. PeriodsInOrder'
  BY <1>1, <1>4, <1>5, <1>6, <1>7 DEF PeriodsInOrder, Unplayed
<1>9. ASSUME Holding'
      PROVE  /\ b.n \in {0, captured} /\ Unplayed(b)
             /\ \A i \in 1..Len(o) : Earlier(o[i], b)
             /\ \A i \in 1..Len(v) : Earlier(v[i], b)
  <2>1. CASE b.n = 0
    BY <2>1, Facts DEF Unplayed, Earlier
  <2>2. CASE b.n # 0
    <3>1. Holding /\ b = input.in_buf
      BY <1>2, <1>9, <2>2
    <3>2. /\ b.n \in {0, captured} /\ Unplayed(b)
          /\ \A i \in 1..Len(o) : Earlier(o[i], b)
          /\ \A i \in 1..Len(u) : Earlier(u[i], b)
      BY <1>1, <3>1, Facts DEF HeldIsLast
    <3>3. \A i \in 1..Len(v) : Earlier(v[i], b)
      <4> TAKE i \in 1..Len(v)
      <4>1. CASE v[i].n = 0
        BY <4>1 DEF Earlier
      <4>2. CASE i + k \in 1..Len(u) /\ v[i] = u[i + k]
        BY <3>2, <4>2
      <4> QED
        BY <1>3, <4>1, <4>2
    <3> QED
      BY <3>2, <3>3
  <2> QED
    BY <2>1, <2>2
<1>10. HeldIsLast'
  BY <1>1, <1>2, <1>9 DEF HeldIsLast, Unplayed
<1> QED
  BY <1>8, <1>10

----------------------------------------------------------------------------
(* The input thread.                                                        *)

\* The output thread goes on, or is woken from its wait.
OutputSignalled ==
  /\ output' \in OutputState /\ output'.exit = output.exit
  /\ output'.stream = output.stream /\ output'.out_buf = output.out_buf
  /\ \/ output'.at = output.at
     \/ /\ output.at = "wait" /\ output'.at \in {"space", "query"}
        /\ output'.at = "space" => output.stream = "pcm"

\* What is left for a step of the input thread to show.
LEMMA InputInv ==
  ASSUME TvInv, UNCHANGED <<hdmi, digital_input_fmt_change, control, played, opened, fault>>,
         captured' \in 0..MaxCaptured, captured <= captured',
         aformat' \in Formats, overwritten' \in BOOLEAN, searched' \in {searched, FALSE},
         aml_ringbuffer' \in RingState, input' \in InputState, input.at # "done",
         OutputSignalled, Fits', PeriodsInOrder', HeldIsLast',
         searched' /\ aml_ringbuffer.units # <<>> =>
           /\ aml_ringbuffer.units' # <<>>
           /\ aml_ringbuffer.units'[1] = aml_ringbuffer.units[1]
  PROVE  TvInv'
<1> USE Facts DEF OutputSignalled
<1>1. Typed'
  <2>1. played' <= captured' /\ opened' <= captured'
    BY TvPatchAssumption
  <2> QED
    BY <2>1 DEF Typed
<1>2. StreamThere'
  BY DEF StreamThere
<1>3. SyncWordInFront'
  <2>1. ASSUME output'.at \in {"space", "read"}, output'.stream = "compressed", searched'
        PROVE  aml_ringbuffer'.units # <<>> /\ aml_ringbuffer'.units[1].sync
    <3>1. output.at \in {"space", "read"} /\ output.stream = "compressed" /\ searched
      BY <2>1
    <3>2. aml_ringbuffer.units # <<>> /\ aml_ringbuffer.units[1].sync
      BY <3>1 DEF SyncWordInFront
    <3>3. aml_ringbuffer'.units # <<>> /\ aml_ringbuffer'.units[1] = aml_ringbuffer.units[1]
      BY <2>1, <3>2
    <3> QED
      BY <3>2, <3>3
  <2>2. StartsAtSyncWord'
    <3> SUFFICES ASSUME output'.at = "write", output'.stream = "compressed", searched'
                 PROVE  output'.out_buf # <<>> /\ output'.out_buf[1].sync
      BY DEF StartsAtSyncWord
    <3>1. output.at = "write" /\ output.stream = "compressed" /\ searched
      OBVIOUS
    <3>2. output.out_buf # <<>> /\ output.out_buf[1].sync
      BY <3>1 DEF SyncWordInFront, StartsAtSyncWord
    <3> QED
      BY <3>2
  <2> QED
    BY <2>1, <2>2 DEF SyncWordInFront
<1>4. Joined'
  BY DEF Joined
<1> QED
  BY <1>1, <1>2, <1>3, <1>4 DEF TvInv

\* pthread_cond_signal() ends a wait.
LEMMA Signalled ==
  ASSUME TvInv, Signal
  PROVE  OutputSignalled
<1> USE Facts
<1>1. CASE output.at = "wait"
  BY <1>1 DEF Signal, OutputSignalled, AfterWait, OutputState, OutputAt
<1>2. CASE output.at # "wait"
  BY <1>2 DEF Signal, OutputSignalled
<1> QED
  BY <1>1, <1>2

\* The same when the output thread is left alone.
LEMMA NotSignalled ==
  ASSUME TvInv, output' = output
  PROVE  OutputSignalled
BY Facts DEF OutputSignalled

\* The steps that leave the ring alone.
LEMMA InputMovesInv ==
  ASSUME TvInv, InputOnly, InputOpen \/ NoReconfig \/ WriteFull \/ InputExit
  PROVE  TvInv'
<1> USE Facts
<1>1. /\ UNCHANGED <<hdmi, digital_input_fmt_change, control, played, opened, fault, captured,
                     searched, aml_ringbuffer>>
      /\ aformat' \in Formats /\ overwritten' \in BOOLEAN /\ input.at # "done"
  BY DEF InputOnly, InputOpen, NoReconfig, WriteFull, InputExit, marks, Formats
<1>2. OutputSignalled
  BY Signalled, NotSignalled DEF InputOpen, NoReconfig, WriteFull, InputExit
<1>3. /\ input' \in InputState /\ input'.in_buf = input.in_buf /\ input'.at \notin {"grow", "allocate"}
      /\ Holding' => Holding
  <2>1. CASE InputOpen
    BY <2>1 DEF InputOpen, InputState, InputAt, Holding
  <2>2. CASE NoReconfig
    BY <2>2 DEF NoReconfig, InputState, InputAt, Holding
  <2>3. CASE WriteFull
    BY <2>3 DEF WriteFull, InputState, InputAt, Holding
  <2>4. CASE InputExit
    BY <2>4 DEF InputExit, InputState, InputAt, Holding
  <2> QED
    BY <2>1, <2>2, <2>3, <2>4
<1>4. output'.out_buf = output.out_buf
  BY <1>2 DEF OutputSignalled
<1>5. PeriodsInOrder' /\ HeldIsLast'
  <2>1. PICK u \in Seq(Units) : u = aml_ringbuffer.units
    OBVIOUS
  <2>2. \A i \in 1..Len(u) : i + 0 \in 1..Len(u) /\ u[i] = u[i + 0]
    OBVIOUS
  <2>3. 0 \in Nat /\ aml_ringbuffer.units' = u
    BY <1>1, <2>1
  <2> QED
    BY <1>1, <1>3, <1>4, <2>1, <2>2, <2>3, OrderKept
<1>6. Fits'
  BY <1>1, <1>3 DEF Fits
<1> QED
  BY <1>1, <1>2, <1>3, <1>5, <1>6, InputInv

\* The ring loses what it has, or gets silence.
LEMMA RingLosesInv ==
  ASSUME TvInv, InputOnly, UNCHANGED <<aformat, overwritten, output, captured, fault>>,
         searched' \in {searched, FALSE}, searched' => aml_ringbuffer.units = <<>>,
         aml_ringbuffer' \in RingState, input' \in InputState, input.at # "done", Fits',
         \A i \in 1..Len(aml_ringbuffer.units') : aml_ringbuffer.units'[i].n = 0,
         Holding' => input'.in_buf.n = 0 \/ (Holding /\ input'.in_buf = input.in_buf)
  PROVE  TvInv'
<1> USE Facts
<1>1. OutputSignalled
  BY NotSignalled
<1>2. UNCHANGED <<hdmi, digital_input_fmt_change, control, played, opened>>
  BY DEF InputOnly, marks
<1>3. PeriodsInOrder' /\ HeldIsLast'
  <2>1. 0 \in Nat
    OBVIOUS
  <2> QED
    BY <1>2, <2>1, OrderKept
<1>4. captured' \in 0..MaxCaptured /\ captured <= captured'
  <2>1. PICK c \in 0..MaxCaptured : c = captured
    OBVIOUS
  <2>2. c <= c
    BY TvPatchAssumption
  <2> QED
    BY <2>1, <2>2
<1> QED
  BY <1>1, <1>2, <1>3, <1>4, InputInv

\* An empty ring of some size.
LEMMA EmptyRing ==
  ASSUME NEW size \in Nat
  PROVE  /\ Empty(size) \in RingState /\ Empty(size).units = <<>> /\ Empty(size).size = size
         /\ Len(Empty(size).units) = 0
         /\ [Empty(size) EXCEPT !.storage = FALSE] \in RingState
         /\ [Empty(size) EXCEPT !.storage = FALSE].units = <<>>
         /\ [Empty(size) EXCEPT !.storage = FALSE].size = size
<1>1. <<>> \in Seq(Units) /\ Len(<<>>) = 0
  BY EmptySeq
<1> QED
  BY <1>1 DEF Empty, RingState

\* The steps of the input thread that empty, clear or replace the ring keep the
\* invariant.
LEMMA RingReplacedInv ==
  ASSUME TvInv, CaptureUnstable \/ Reconfig \/ GrowSize \/ GrowInit \/ ResetFull
  PROVE  TvInv'
<1> USE Facts
<1>1. \A p \in Packets : RingSize[p] \in Nat
  BY TvPatchAssumption DEF Packets
<1>2. CASE CaptureUnstable
  <2>1. PICK u \in Seq(Units) : u = aml_ringbuffer.units
    OBVIOUS
  <2>2. PICK v \in Seq(Units) : /\ v = [i \in DOMAIN u |-> Silence] /\ Len(v) = Len(u)
                                /\ \A i \in 1..Len(v) : v[i].n = 0
    <3>1. DOMAIN u = 1..Len(u) /\ Len(u) \in Nat
      BY LenProperties
    <3>2. [i \in 1..Len(u) |-> Silence] \in Seq(Units) /\ Len([i \in 1..Len(u) |-> Silence]) = Len(u)
      BY <3>1, UnitFields
    <3>3. \A i \in 1..Len(u) : [j \in 1..Len(u) |-> Silence][i].n = 0
      BY UnitFields
    <3> QED
      BY <3>1, <3>2, <3>3
  <2>3. /\ aml_ringbuffer' = [aml_ringbuffer EXCEPT !.units = v] /\ searched' = FALSE
        /\ input' = [input EXCEPT !.at = "reconfig", !.in_buf = Silence] /\ input.at = "loop"
        /\ InputOnly /\ UNCHANGED <<aformat, overwritten, output, captured, fault>>
    BY <1>2, <2>1, <2>2 DEF CaptureUnstable
  <2>4. /\ aml_ringbuffer' \in RingState /\ aml_ringbuffer'.units = v
        /\ aml_ringbuffer'.size = aml_ringbuffer.size
    BY <2>3 DEF RingState
  <2>5. input' \in InputState /\ input'.in_buf.n = 0 /\ input'.at = "reconfig"
    BY <2>3, UnitFields DEF InputState, InputAt
  <2>6. Fits'
    BY <2>1, <2>2, <2>4, <2>5 DEF Fits
  <2> QED
    BY <2>2, <2>3, <2>4, <2>5, <2>6, RingLosesInv
<1>3. CASE Reconfig
  <2>1. PICK size \in Nat : size = RingSize[hdmi.packet]
    BY <1>1
  <2>2. /\ searched' = FALSE /\ input.at = "reconfig"
        /\ InputOnly /\ UNCHANGED <<aformat, overwritten, output, captured, fault>>
    BY <1>3 DEF Reconfig
  <2>3. CASE /\ aml_ringbuffer' = [Empty(0) EXCEPT !.storage = FALSE]
             /\ input' = [input EXCEPT !.at = "grow", !.packet = hdmi.packet]
    <3>1. /\ aml_ringbuffer' \in RingState /\ aml_ringbuffer'.units = <<>>
          /\ aml_ringbuffer'.size = 0
      BY <2>3, EmptyRing
    <3>2. input' \in InputState /\ input'.at = "grow"
      BY <2>3 DEF InputState, InputAt
    <3>3. Fits'
      BY <3>1 DEF Fits
    <3>4. \A i \in 1..Len(aml_ringbuffer'.units) : aml_ringbuffer'.units[i].n = 0
      BY <3>1
    <3> QED
      BY <2>2, <3>1, <3>2, <3>3, <3>4, RingLosesInv DEF Holding
  <2>4. CASE /\ aml_ringbuffer' =
                  [Empty(size) EXCEPT !.last_is_write = aml_ringbuffer.last_is_write,
                     !.units = IF aml_ringbuffer.last_is_write
                               THEN [i \in 1..size |-> Silence] ELSE <<>>]
             /\ input' = [input EXCEPT !.at = "loop", !.packet = hdmi.packet]
    <3>1. PICK w \in Seq(Units) : /\ w = [i \in 1..size |-> Silence] /\ Len(w) = size
                                  /\ \A i \in 1..Len(w) : w[i].n = 0
      <4>1. [i \in 1..size |-> Silence] \in Seq(Units) /\ Len([i \in 1..size |-> Silence]) = size
        BY UnitFields
      <4>2. \A i \in 1..size : [j \in 1..size |-> Silence][i].n = 0
        BY UnitFields
      <4> QED
        BY <4>1, <4>2
    <3>2. PICK v : v = IF aml_ringbuffer.last_is_write THEN w ELSE <<>>
      OBVIOUS
    <3>3. v \in Seq(Units) /\ Len(v) <= size /\ \A i \in 1..Len(v) : v[i].n = 0
      <4>1. CASE v = w
        BY <3>1, <4>1
      <4>2. CASE v = <<>>
        <5>1. <<>> \in Seq(Units) /\ Len(<<>>) = 0 /\ 1..0 = {}
          BY EmptySeq
        <5> QED
          BY <4>2, <5>1
      <4> QED
        BY <3>2, <4>1, <4>2
    <3>4. /\ aml_ringbuffer' \in RingState /\ aml_ringbuffer'.units = v
          /\ aml_ringbuffer'.size = size
      <4>1. aml_ringbuffer.last_is_write \in BOOLEAN
        BY RingFields
      <4> QED
        BY <2>4, <3>1, <3>2, <3>3, <4>1, EmptyRing DEF RingState
    <3>5. input' \in InputState /\ input'.at = "loop"
      BY <2>4 DEF InputState, InputAt
    <3>6. Fits'
      BY <3>3, <3>4, <3>5 DEF Fits
    <3> QED
      BY <2>2, <3>3, <3>4, <3>5, <3>6, RingLosesInv DEF Holding
  <2> QED
    BY <1>3, <2>1, <2>3, <2>4 DEF Reconfig
<1>4. CASE GrowSize
  <2>1. PICK size \in Nat : size = RingSize[input.packet]
    BY <1>1
  <2>2. /\ aml_ringbuffer' = [aml_ringbuffer EXCEPT !.size = size]
        /\ input' = [input EXCEPT !.at = "allocate"] /\ input.at = "grow"
        /\ InputOnly
        /\ UNCHANGED <<aformat, overwritten, output, captured, searched, fault>>
    BY <1>4, <2>1 DEF GrowSize
  <2>3. /\ aml_ringbuffer' \in RingState /\ aml_ringbuffer'.units = <<>>
        /\ aml_ringbuffer'.size = size /\ aml_ringbuffer.units = <<>>
    BY <2>2 DEF RingState, Fits
  <2>4. input' \in InputState /\ input'.at = "allocate"
    BY <2>2 DEF InputState, InputAt
  <2>5. Fits'
    BY <2>3, <2>4 DEF Fits
  <2>6. \A i \in 1..Len(aml_ringbuffer'.units) : aml_ringbuffer'.units[i].n = 0
    BY <2>3
  <2> QED
    BY <2>2, <2>3, <2>4, <2>5, <2>6, RingLosesInv DEF Holding
<1>5. CASE GrowInit
  <2>1. /\ aml_ringbuffer' = Empty(RingSize[input.packet]) /\ RingSize[input.packet] \in Nat
        /\ input' = [input EXCEPT !.at = "loop"] /\ input.at = "allocate"
        /\ InputOnly
        /\ UNCHANGED <<aformat, overwritten, output, captured, searched, fault>>
    BY <1>1, <1>5 DEF GrowInit
  <2>2. /\ aml_ringbuffer' \in RingState /\ aml_ringbuffer'.units = <<>>
        /\ aml_ringbuffer'.size \in Nat
    BY <2>1, EmptyRing
  <2>3. input' \in InputState /\ input'.at = "loop"
    BY <2>1 DEF InputState, InputAt
  <2>4. Fits'
    BY <2>2 DEF Fits
  <2>5. \A i \in 1..Len(aml_ringbuffer'.units) : aml_ringbuffer'.units[i].n = 0
    BY <2>2
  <2>6. aml_ringbuffer.units = <<>>
    BY <2>1 DEF Fits
  <2> QED
    BY <2>1, <2>2, <2>3, <2>4, <2>5, <2>6, RingLosesInv DEF Holding
<1>6. CASE ResetFull
  <2>1. /\ aml_ringbuffer' = Empty(aml_ringbuffer.size) /\ searched' = FALSE
        /\ input' = [input EXCEPT !.at = IF input.exit THEN "loop" ELSE "reconfig"]
        /\ input.at = "full" /\ InputOnly
        /\ UNCHANGED <<aformat, overwritten, output, captured, fault>>
    BY <1>6 DEF ResetFull
  <2>2. /\ aml_ringbuffer' \in RingState /\ aml_ringbuffer'.units = <<>>
        /\ aml_ringbuffer'.size \in Nat
    BY <2>1, EmptyRing
  <2>3. /\ input' \in InputState /\ input'.at \in {"loop", "reconfig"}
        /\ input'.in_buf = input.in_buf
    BY <2>1 DEF InputState, InputAt
  <2>4. Fits'
    BY <2>2 DEF Fits
  <2>5. \A i \in 1..Len(aml_ringbuffer'.units) : aml_ringbuffer'.units[i].n = 0
    BY <2>2
  <2> QED
    BY <2>1, <2>2, <2>3, <2>4, <2>5, RingLosesInv DEF Holding
<1> QED
  BY <1>2, <1>3, <1>4, <1>5, <1>6

\* The period captured is later than all there are.
LEMMA CaptureInv ==
  ASSUME TvInv, Capture
  PROVE  TvInv'
<1> USE Facts
<1>1. PICK c \in 0..MaxCaptured : c = captured
  OBVIOUS
<1>2. PICK d \in 0..MaxCaptured : d = c + 1 /\ c < d
  <2>1. c < MaxCaptured /\ MaxCaptured \in Nat
    BY <1>1, TvPatchAssumption DEF Capture
  <2> QED
    BY <2>1
<1>3. PICK b \in Units : b.n = d /\ input' = [input EXCEPT !.at = "reconfig", !.in_buf = b]
  <2>1. PICK sync \in BOOLEAN :
          input' = [input EXCEPT !.at = "reconfig", !.in_buf = [n |-> d, sync |-> sync]]
    BY <1>1, <1>2 DEF Capture
  <2>2. [n |-> d, sync |-> sync] \in Units /\ [n |-> d, sync |-> sync].n = d
    BY DEF Units
  <2> QED
    BY <2>1, <2>2
<1>4. /\ captured' = d /\ input.at = "loop"
      /\ UNCHANGED <<hdmi, digital_input_fmt_change, control, played, opened, aformat,
                     overwritten, aml_ringbuffer, output, searched, fault>>
  BY <1>1, <1>2 DEF Capture, InputOnly, marks
<1>5. input' \in InputState /\ input'.in_buf = b /\ input'.at = "reconfig"
  BY <1>3 DEF InputState, InputAt
<1>6. OutputSignalled
  BY <1>4, NotSignalled
<1>7. Fits'
  BY <1>4, <1>5 DEF Fits
<1>8. PICK u \in Seq(Units), o \in Seq(Units) : u = aml_ringbuffer.units /\ o = output.out_buf
  OBVIOUS
<1>9. PICK p \in 0..MaxCaptured, q \in 0..MaxCaptured :
        p = played /\ q = opened /\ p <= c /\ q <= c
  BY <1>1
<1>10. ASSUME NEW x \in Units, Unplayed(x)
       PROVE  x.n <= d /\ (x.n # 0 => x.n > p /\ x.n >= q) /\ Earlier(x, b)
  <2>1. PICK m \in 0..MaxCaptured : m = x.n
    BY UnitFields
  <2>2. m <= c /\ (m # 0 => m > p /\ m >= q)
    BY <1>1, <1>9, <1>10, <2>1 DEF Unplayed
  <2>3. m <= d /\ m < d
    BY <1>2, <2>2
  <2> QED
    BY <1>3, <2>1, <2>2, <2>3 DEF Earlier
<1>11. /\ \A i \in 1..Len(o) : Unplayed(o[i]) /\ o[i] \in Units
       /\ \A i \in 1..Len(u) : Unplayed(u[i]) /\ u[i] \in Units
  BY <1>8 DEF PeriodsInOrder
<1>12. PeriodsInOrder'
  <2>1. /\ \A i \in 1..Len(o) : o[i].n <= d /\ (o[i].n # 0 => o[i].n > p /\ o[i].n >= q)
        /\ \A i \in 1..Len(u) : u[i].n <= d /\ (u[i].n # 0 => u[i].n > p /\ u[i].n >= q)
    BY <1>10, <1>11
  <2> QED
    BY <1>4, <1>8, <1>9, <2>1 DEF PeriodsInOrder, Unplayed
<1>13. HeldIsLast'
  <2>1. /\ \A i \in 1..Len(o) : Earlier(o[i], b)
        /\ \A i \in 1..Len(u) : Earlier(u[i], b)
    BY <1>10, <1>11
  <2>2. d <= d /\ d > p /\ d >= q
    BY <1>2, <1>9
  <2>3. b.n = d
    BY <1>3
  <2> QED
    BY <1>4, <1>5, <1>8, <1>9, <2>1, <2>2, <2>3 DEF HeldIsLast, Unplayed
<1>14. captured' \in 0..MaxCaptured /\ captured <= captured'
  BY <1>1, <1>2, <1>4
<1> QED
  BY <1>4, <1>5, <1>6, <1>7, <1>12, <1>13, <1>14, InputInv

\* The period held goes behind those in the ring.
LEMMA WriteRingInv ==
  ASSUME TvInv, WriteRing
  PROVE  TvInv'
<1> USE Facts
<1>1. PICK u \in Seq(Units), o \in Seq(Units), b \in Units :
        u = aml_ringbuffer.units /\ o = output.out_buf /\ b = input.in_buf
  OBVIOUS
<1>2. PICK v \in Seq(Units) : v = Append(u, b)
  BY AppendProperties
<1>3. /\ Len(u) \in Nat /\ Len(v) = Len(u) + 1 /\ v[Len(u) + 1] = b /\ v # <<>>
      /\ \A i \in 1..Len(u) : v[i] = u[i]
  BY <1>2, AppendProperties, LenProperties
<1>4. /\ input.at = "write" /\ Len(u) < aml_ringbuffer.size
      /\ aml_ringbuffer' = [aml_ringbuffer EXCEPT !.units = v, !.last_is_write = TRUE]
      /\ input' = [input EXCEPT !.at = "loop", !.retry = FALSE, !.in_buf = Silence]
      /\ UNCHANGED <<hdmi, digital_input_fmt_change, control, played, opened, captured,
                     aformat, overwritten, searched, fault>>
  BY <1>1, <1>2 DEF WriteRing, Written, ReadSpace, InputOnly, marks
<1>5. /\ aml_ringbuffer' \in RingState /\ aml_ringbuffer'.units = v
      /\ aml_ringbuffer'.size = aml_ringbuffer.size
  BY <1>4 DEF RingState
<1>6. input' \in InputState /\ input'.at = "loop"
  BY <1>4, UnitFields DEF InputState, InputAt
<1>7. OutputSignalled /\ output'.out_buf = o
  BY <1>1, Signalled DEF WriteRing, OutputSignalled
<1>8. Fits'
  <2>1. PICK s \in Nat : s = aml_ringbuffer.size
    OBVIOUS
  <2>2. Len(v) <= s
    BY <1>3, <1>4, <2>1
  <2> QED
    BY <1>5, <1>6, <2>1, <2>2 DEF Fits
<1>9. /\ \A i \in 1..Len(o) : Unplayed(o[i]) /\ Earlier(o[i], b)
      /\ \A i \in 1..Len(u) : Unplayed(u[i]) /\ Earlier(u[i], b)
      /\ Sorted(o) /\ Sorted(u) /\ Unplayed(b)
      /\ \A i \in 1..Len(o), j \in 1..Len(u) : Earlier(o[i], u[j])
  BY <1>1, <1>4 DEF PeriodsInOrder, HeldIsLast, Holding
<1>10. ASSUME NEW i \in 1..Len(v)
       PROVE  (i \in 1..Len(u) /\ v[i] = u[i]) \/ (i = Len(u) + 1 /\ v[i] = b)
  BY <1>3
<1>11. \A i \in 1..Len(v) : Unplayed(v[i])
  BY <1>9, <1>10
<1>12. \A i \in 1..Len(o), j \in 1..Len(v) : Earlier(o[i], v[j])
  BY <1>9, <1>10
<1>13. Sorted(v)
  <2> SUFFICES ASSUME NEW i \in 1..Len(v), NEW j \in 1..Len(v), i < j
               PROVE  Earlier(v[i], v[j])
    BY DEF Sorted
  <2>1. i \in 1..Len(u) /\ v[i] = u[i]
    BY <1>3
  <2>2. CASE j \in 1..Len(u) /\ v[j] = u[j]
    BY <1>9, <2>1, <2>2 DEF Sorted
  <2>3. CASE v[j] = b
    BY <1>9, <2>1, <2>3
  <2> QED
    BY <1>10, <2>2, <2>3
<1>14. PeriodsInOrder'
  BY <1>4, <1>5, <1>7, <1>9, <1>11, <1>12, <1>13 DEF PeriodsInOrder, Unplayed
<1>15. HeldIsLast'
  BY <1>6 DEF HeldIsLast, Holding
<1>16. aml_ringbuffer.units # <<>> =>
         aml_ringbuffer.units' # <<>> /\ aml_ringbuffer.units'[1] = aml_ringbuffer.units[1]
  <2>1. ASSUME u # <<>>
        PROVE  v[1] = u[1]
    <3>1. Len(u) # 0
      BY <2>1, EmptySeq
    <3>2. 1 \in 1..Len(u)
      BY <1>3, <3>1
    <3> QED
      BY <1>3, <3>2
  <2> QED
    BY <1>1, <1>3, <1>5, <2>1
<1>17. captured' \in 0..MaxCaptured /\ captured <= captured'
  <2>1. PICK c \in 0..MaxCaptured : c = captured
    OBVIOUS
  <2>2. c <= c
    BY TvPatchAssumption
  <2> QED
    BY <1>4, <2>1, <2>2
<1> QED
  BY <1>4, <1>5, <1>6, <1>7, <1>8, <1>14, <1>15, <1>16, <1>17, InputInv

\* The input thread keeps the invariant.
LEMMA InputStepInv ==
  ASSUME TvInv, Input
  PROVE  TvInv'
<1>1. InputOpen \/ NoReconfig \/ WriteFull \/ InputExit => InputOnly
  BY DEF InputOpen, NoReconfig, WriteFull, InputExit
<1> QED
  BY <1>1, InputMovesInv, RingReplacedInv, CaptureInv, WriteRingInv DEF Input

----------------------------------------------------------------------------
(* The output thread.                                                       *)

\* What is left for a step of the output thread to show.
LEMMA OutputInv ==
  ASSUME TvInv, OutputOnly, aformat' \in Formats, digital_input_fmt_change' \in BOOLEAN,
         aml_ringbuffer' \in RingState, output' \in OutputState, output.at # "done",
         played' \in 0..MaxCaptured, opened' \in 0..MaxCaptured,
         played' <= captured, opened' <= captured, searched' \in BOOLEAN,
         fault' \in {fault, "no stream", "no ring"},
         Fits', StreamThere', PeriodsInOrder', HeldIsLast', SyncWordInFront'
  PROVE  TvInv'
<1> USE Facts DEF OutputOnly
<1>1. Typed'
  BY DEF Typed
<1>2. Joined'
  BY DEF Joined
<1> QED
  BY <1>1, <1>2 DEF TvInv

\* The steps that leave the ring and the periods read alone.
LEMMA OutputMovesInv ==
  ASSUME TvInv, OutputOnly, UNCHANGED <<aml_ringbuffer, played, opened>>,
         aformat' \in Formats, digital_input_fmt_change' \in BOOLEAN, searched' \in BOOLEAN,
         fault' \in {fault, "no stream", "no ring"},
         output' \in OutputState, output'.out_buf = output.out_buf,
         output.at # "done", output.at # "write", output'.at # "write",
         output'.stream = "none" => /\ output'.at \in {"check", "reopen", "done"}
                                    /\ output'.at = "check" => digital_input_fmt_change',
         output'.at = "reopen" => digital_input_fmt_change',
         output'.at \in {"space", "read"} /\ output'.stream = "compressed" /\ searched' =>
           aml_ringbuffer.units # <<>> /\ aml_ringbuffer.units[1].sync
  PROVE  TvInv'
<1> USE Facts
<1>1. Fits'
  BY DEF Fits, OutputOnly
<1>2. StreamThere'
  BY DEF StreamThere
<1>3. SyncWordInFront'
  BY DEF SyncWordInFront, StartsAtSyncWord
<1>4. PeriodsInOrder' /\ HeldIsLast'
  <2>1. PICK u \in Seq(Units) : u = aml_ringbuffer.units
    OBVIOUS
  <2>2. \A i \in 1..Len(u) : i + 0 \in 1..Len(u) /\ u[i] = u[i + 0]
    BY ShiftedByNone
  <2>3. 0 \in Nat /\ aml_ringbuffer'.units = u
    BY <2>1
  <2>4. Holding' => Holding /\ input'.in_buf = input.in_buf
    BY DEF OutputOnly, Holding
  <2>5. UNCHANGED <<captured, played, opened>> /\ input' \in InputState
        /\ aml_ringbuffer' \in RingState
    BY DEF OutputOnly
  <2>6. \A i \in 1..Len(aml_ringbuffer'.units) :
          /\ i + 0 \in 1..Len(aml_ringbuffer.units)
          /\ aml_ringbuffer'.units[i] = aml_ringbuffer.units[i + 0]
    BY <2>1, <2>2, <2>3
  <2> QED
    BY <2>3, <2>4, <2>5, <2>6, OrderKept
<1> QED
  BY <1>1, <1>2, <1>3, <1>4, OutputInv

\* Opening and closing the stream.
LEMMA StreamInv ==
  ASSUME TvInv, OutputOpen \/ FormatCheck \/ Reopen \/ OutputExit
  PROVE  TvInv'
<1> USE Facts
<1>1. CASE OutputOpen
  <2>1. /\ output.at = "open"
        /\ UNCHANGED <<aformat, digital_input_fmt_change, aml_ringbuffer, played, opened,
                       searched, fault>>
        /\ OutputOnly
        /\ \/ output' = [output EXCEPT !.at = "check", !.stream = "pcm"]
           \/ output' = [output EXCEPT !.at = "done"]
    BY <1>1 DEF OutputOpen, At, patch, marks
  <2>2. /\ output' \in OutputState /\ output'.at \in {"check", "done"}
        /\ output'.out_buf = output.out_buf
        /\ output'.at = "check" => output'.stream = "pcm"
    BY <2>1 DEF OutputState, OutputAt, Formats
  <2> QED
    BY <2>1, <2>2, OutputMovesInv
<1>2. CASE FormatCheck
  <2>1. PICK f \in BOOLEAN : f = digital_input_fmt_change'
    BY <1>2 DEF FormatCheck
  <2>2. /\ output.at = "check" /\ aformat' = hdmi.type /\ searched' = FALSE
        /\ UNCHANGED <<aml_ringbuffer, played, opened, fault>> /\ OutputOnly
        /\ output' = [output EXCEPT !.at = IF f THEN "reopen" ELSE "level"]
        /\ digital_input_fmt_change => f
    BY <1>2, <2>1 DEF FormatCheck, At, marks
  <2>3. /\ output' \in OutputState /\ output'.at \in {"reopen", "level"}
        /\ output'.out_buf = output.out_buf /\ output'.stream = output.stream
        /\ output'.at = "reopen" <=> f
    BY <2>2 DEF OutputState, OutputAt
  <2>4. output'.stream = "none" => f
    BY <2>2, <2>3 DEF StreamThere
  <2> QED
    BY <2>1, <2>2, <2>3, <2>4, OutputMovesInv
<1>3. CASE Reopen
  <2>1. /\ output.at = "reopen" /\ digital_input_fmt_change
        /\ UNCHANGED <<aformat, digital_input_fmt_change, aml_ringbuffer, played, opened,
                       searched>>
        /\ OutputOnly
    BY <1>3 DEF Reopen, At, patch, marks, StreamThere
  <2>2. PICK f \in BOOLEAN : f = (output.found /\ aformat = "pcm")
    OBVIOUS
  <2>3. /\ fault' \in {fault, "no stream"}
        /\ \/ output' = output
           \/ output' = [output EXCEPT !.at = "opened", !.stream = aformat, !.found = f]
           \/ output' = [output EXCEPT !.at = "check", !.stream = "none"]
    BY <1>3, <2>2 DEF Reopen
  <2>4. /\ output' \in OutputState /\ output'.at \in {"reopen", "opened", "check"}
        /\ output'.out_buf = output.out_buf
        /\ output'.at = "opened" => output'.stream \in Formats
    <3>1. CASE output' = output
      BY <2>1, <3>1
    <3>2. CASE output' = [output EXCEPT !.at = "opened", !.stream = aformat, !.found = f]
      BY <3>2 DEF OutputState, OutputAt
    <3>3. CASE output' = [output EXCEPT !.at = "check", !.stream = "none"]
      BY <3>3 DEF OutputState, OutputAt
    <3> QED
      BY <2>3, <3>1, <3>2, <3>3
  <2>5. output'.at = "opened" => output'.stream # "none"
    BY <2>4 DEF Formats
  <2> QED
    BY <2>1, <2>3, <2>4, <2>5, OutputMovesInv
<1>4. CASE OutputExit
  <2>1. /\ output.at = "check" /\ fault' \in {fault, "no stream"}
        /\ UNCHANGED <<aformat, digital_input_fmt_change, aml_ringbuffer, played, opened,
                       searched>>
        /\ OutputOnly
        /\ output' = output \/ output' = [output EXCEPT !.at = "done"]
    BY <1>4 DEF OutputExit, At, patch, marks
  <2>2. /\ output' \in OutputState /\ output'.at \in {"check", "done"}
        /\ output'.out_buf = output.out_buf /\ output'.stream = output.stream
    BY <2>1 DEF OutputState, OutputAt
  <2>3. output'.stream = "none" /\ output'.at = "check" => digital_input_fmt_change
    BY <2>1, <2>2 DEF StreamThere
  <2> QED
    BY <2>1, <2>2, <2>3, OutputMovesInv
<1> QED
  BY <1>1, <1>2, <1>3, <1>4

\* The level of the ring, the wait and the search.
LEMMA SearchInv ==
  ASSUME TvInv,
         CheckLevel \/ WaitEnds \/ QueryLevel \/ SearchFinds \/ SearchFails \/ CheckSpace
  PROVE  TvInv'
<1> USE Facts
<1>1. /\ output.at \in {"level", "wait", "query", "search", "space"}
      /\ UNCHANGED <<aformat, digital_input_fmt_change, aml_ringbuffer, played, opened, fault>>
      /\ OutputOnly
  BY DEF CheckLevel, WaitEnds, QueryLevel, SearchFinds, SearchFails, CheckSpace, At, patch, marks
<1>2. output.stream # "none"
  BY <1>1 DEF StreamThere
<1>3. PICK u \in Seq(Units) : u = aml_ringbuffer.units
  OBVIOUS
<1>4. /\ output' \in OutputState /\ searched' \in BOOLEAN
      /\ output'.at \in {"wait", "query", "search", "space", "drop", "check", "read"}
      /\ output'.out_buf = output.out_buf /\ output'.stream = output.stream
      /\ output'.at \in {"space", "read"} /\ output.stream = "compressed" /\ searched' =>
           u # <<>> /\ u[1].sync
  <2>1. CASE CheckLevel \/ WaitEnds
    <3>1. PICK a \in {"wait", "query", "space"} :
            /\ output' = [output EXCEPT !.at = a] /\ searched' = searched
            /\ a = "space" => output.stream = "pcm"
      BY <2>1 DEF CheckLevel, WaitEnds, AfterWait
    <3> QED
      BY <3>1 DEF OutputState, OutputAt
  <2>2. CASE SearchFinds
    <3>1. PICK i \in DOMAIN u :
            /\ u[i].sync /\ searched' = TRUE
            /\ output' = [output EXCEPT !.at = IF i = 1 THEN "space" ELSE "drop",
                                        !.found = TRUE, !.read_space = 0, !.drop = i - 1]
      BY <1>3, <2>2 DEF SearchFinds, SyncWords
    <3>2. i \in 1..Len(u) /\ Len(u) \in Nat /\ i - 1 \in Nat
      BY LenProperties
    <3>3. u # <<>>
      BY <3>2, EmptySeq
    <3>4. /\ output' \in OutputState /\ output'.at \in {"space", "drop"}
          /\ output'.out_buf = output.out_buf /\ output'.stream = output.stream
          /\ output'.at = "space" => i = 1
      BY <3>1, <3>2 DEF OutputState, OutputAt
    <3> QED
      BY <3>1, <3>3, <3>4
  <2>3. CASE SearchFails
    <3>1. PICK level \in Nat : level = output.read_space
      OBVIOUS
    <3>2. PICK d \in Nat, a \in {"check", "drop", "space"} :
            /\ output' = [output EXCEPT !.read_space = 0, !.drop = d, !.at = a]
            /\ searched' = (level > 0)
            /\ a = "space" => ~(level > 0)
      BY <2>3, <3>1 DEF SearchFails
    <3>3. /\ output' \in OutputState /\ output'.at = a
          /\ output'.out_buf = output.out_buf /\ output'.stream = output.stream
      BY <3>2 DEF OutputState, OutputAt
    <3>4. searched' \in BOOLEAN /\ (a = "space" => searched' = FALSE)
      <4>1. CASE level > 0
        <5>1. (level > 0) = TRUE
          BY <4>1
        <5> QED
          BY <3>2, <4>1, <5>1
      <4>2. CASE ~(level > 0)
        <5>1. (level > 0) = FALSE
          BY <4>2
        <5>2. searched' = FALSE
          BY <3>2, <5>1
        <5> QED
          BY <5>2
      <4> QED
        BY <4>1, <4>2
    <3> QED
      BY <3>2, <3>3, <3>4
  <2>4. CASE QueryLevel
    <3>1. /\ output' = [output EXCEPT !.at = "search", !.read_space = Len(u)]
          /\ searched' = searched
      BY <1>3, <2>4 DEF QueryLevel, ReadSpace
    <3>2. Len(u) \in Nat
      BY LenProperties
    <3> QED
      BY <3>1, <3>2 DEF OutputState, OutputAt
  <2>5. CASE CheckSpace
    <3>1. PICK a \in {"check", "read"} :
            output' = [output EXCEPT !.at = a] /\ searched' = searched /\ output.at = "space"
      BY <2>5 DEF CheckSpace, At
    <3>2. /\ output' \in OutputState /\ output'.at = a
          /\ output'.out_buf = output.out_buf /\ output'.stream = output.stream
      BY <3>1 DEF OutputState, OutputAt
    <3>3. output.stream = "compressed" /\ searched => u # <<>> /\ u[1].sync
      BY <1>3, <3>1 DEF SyncWordInFront
    <3> QED
      BY <3>1, <3>2, <3>3
  <2> QED
    BY <2>1, <2>2, <2>3, <2>4, <2>5
<1> QED
  BY <1>1, <1>2, <1>3, <1>4, OutputMovesInv

\* What ring_buffer_read() and ring_buffer_seek() leave in the ring.
LEMMA UnitsTaken ==
  ASSUME aml_ringbuffer \in RingState, NEW u \in Seq(Units), u = aml_ringbuffer.units,
         NEW k \in 0..Len(u)
  PROVE  /\ TakeUnits(k) \in RingState /\ TakeUnits(k).size = aml_ringbuffer.size
         /\ Len(TakeUnits(k).units) = Len(u) - k
         /\ \A i \in 1..Len(TakeUnits(k).units) :
              i + k \in 1..Len(u) /\ TakeUnits(k).units[i] = u[i + k]
<1>1. Len(u) \in Nat /\ k \in Nat /\ k <= Len(u)
  BY LenProperties
<1>2. PICK v : v = SubSeq(u, k + 1, Len(u))
  OBVIOUS
<1>3. \A i \in (k + 1)..Len(u) : u[i] \in Units
  BY <1>1
<1>4. /\ v \in Seq(Units) /\ Len(v) = IF k + 1 <= Len(u) THEN Len(u) - (k + 1) + 1 ELSE 0
      /\ \A i \in 1..(Len(u) - (k + 1) + 1) : v[i] = u[(k + 1) + i - 1]
  BY <1>1, <1>2, <1>3, SubSeqProperties
<1>5. Len(v) = Len(u) - k
  BY <1>1, <1>4
<1>6. ASSUME NEW i \in 1..Len(v)
      PROVE  i + k \in 1..Len(u) /\ v[i] = u[i + k]
  <2>1. i \in 1..(Len(u) - (k + 1) + 1) /\ (k + 1) + i - 1 = i + k /\ i + k \in 1..Len(u)
    BY <1>1, <1>5
  <2> QED
    BY <1>4, <2>1
<1>7. PICK b \in BOOLEAN : b = (aml_ringbuffer.last_is_write /\ k = 0)
  OBVIOUS
<1>8. TakeUnits(k) = [aml_ringbuffer EXCEPT !.units = v, !.last_is_write = b]
  BY <1>2, <1>7 DEF TakeUnits
<1>9. /\ TakeUnits(k) \in RingState /\ TakeUnits(k).units = v
      /\ TakeUnits(k).size = aml_ringbuffer.size
  BY <1>4, <1>8 DEF RingState
<1> QED
  BY <1>5, <1>6, <1>9

\* A ring that something was taken from still fits.
LEMMA TakenFits ==
  ASSUME TvInv, NEW u \in Seq(Units), NEW v \in Seq(Units), NEW k \in 0..Len(u),
         u = aml_ringbuffer.units, v = aml_ringbuffer'.units, Len(v) = Len(u) - k,
         aml_ringbuffer'.size = aml_ringbuffer.size, OutputOnly
  PROVE  Fits'
<1> USE Facts
<1>1. PICK s \in Nat : s = aml_ringbuffer.size
  OBVIOUS
<1>2. Len(u) \in Nat /\ Len(u) <= s
  BY <1>1, LenProperties DEF Fits
<1>3. Len(v) <= s /\ Len(v) <= Len(u)
  BY <1>2
<1>4. u = <<>> => v = <<>>
  <2>1. SUFFICES ASSUME u = <<>>
                 PROVE  v = <<>>
    OBVIOUS
  <2>2. Len(u) = 0
    BY <2>1
  <2>3. Len(v) = 0
    <3>1. PICK m \in Nat : m = Len(v)
      BY LenProperties
    <3>2. m <= 0
      BY <1>3, <2>2, <3>1
    <3> QED
      BY <3>1, <3>2
  <2> QED
    BY <2>3, EmptySeq
<1> QED
  BY <1>1, <1>3, <1>4 DEF Fits, OutputOnly

\* The smaller of two numbers.
LEMMA LeastIs ==
  ASSUME NEW a \in Nat, NEW b \in Nat
  PROVE  Least(a, b) \in 0..b /\ (a # 0 /\ b # 0 => Least(a, b) # 0)
BY DEF Least

\* ring_buffer_seek() over what comes before the sync word.
LEMMA DropInv ==
  ASSUME TvInv, Drop
  PROVE  TvInv'
<1> USE Facts
<1>1. PICK u \in Seq(Units) : u = aml_ringbuffer.units
  OBVIOUS
<1>2. PICK k \in 0..Len(u) : k = Least(output.drop, ReadSpace)
  <2>1. PICK d \in Nat : d = output.drop
    OBVIOUS
  <2>2. Len(u) \in Nat /\ ReadSpace = Len(u)
    BY <1>1, LenProperties DEF ReadSpace
  <2> QED
    BY <2>1, <2>2, LeastIs
<1>3. /\ output.at = "drop" /\ aml_ringbuffer' = TakeUnits(k)
      /\ output' = [output EXCEPT !.at = "check", !.drop = 0]
      /\ UNCHANGED <<aformat, digital_input_fmt_change, played, opened, searched, fault>>
      /\ OutputOnly
  BY <1>2 DEF Drop, At, patch, marks
<1>4. /\ output' \in OutputState /\ output'.at = "check" /\ output'.out_buf = output.out_buf
      /\ output'.stream = output.stream
  BY <1>3 DEF OutputState, OutputAt
<1>5. PICK v \in Seq(Units) : v = aml_ringbuffer'.units
  BY <1>1, <1>3, UnitsTaken, RingFields
<1>6. /\ aml_ringbuffer' \in RingState /\ aml_ringbuffer'.size = aml_ringbuffer.size
      /\ Len(v) = Len(u) - k
      /\ \A i \in 1..Len(v) : i + k \in 1..Len(u) /\ v[i] = u[i + k]
  BY <1>1, <1>3, <1>5, UnitsTaken
<1>7. Fits'
  BY <1>1, <1>3, <1>5, <1>6, TakenFits
<1>8. StreamThere'
  BY <1>3, <1>4 DEF StreamThere
<1>9. SyncWordInFront'
  BY <1>4 DEF SyncWordInFront, StartsAtSyncWord
<1>10. PeriodsInOrder' /\ HeldIsLast'
  <2>1. \A i \in 1..Len(aml_ringbuffer'.units) :
          /\ i + k \in 1..Len(aml_ringbuffer.units)
          /\ aml_ringbuffer'.units[i] = aml_ringbuffer.units[i + k]
    BY <1>1, <1>5, <1>6
  <2>2. k \in Nat
    BY LenProperties
  <2>3. /\ UNCHANGED <<captured, played, opened>> /\ input' \in InputState
        /\ Holding' => Holding /\ input'.in_buf = input.in_buf
    BY <1>3 DEF OutputOnly, Holding
  <2> QED
    BY <1>4, <1>6, <2>1, <2>2, <2>3, OrderKept
<1> QED
  BY <1>3, <1>4, <1>6, <1>7, <1>8, <1>9, <1>10, OutputInv

\* What is read was in front of what is left in the ring.
LEMMA ReadRingInv ==
  ASSUME TvInv, ReadRing
  PROVE  TvInv'
<1> USE Facts
<1>1. PICK u \in Seq(Units) : u = aml_ringbuffer.units
  OBVIOUS
<1>2. Len(u) \in Nat /\ ReadSpace = Len(u)
  BY <1>1, LenProperties DEF ReadSpace
<1>3. PICK w \in Nat \ {0} : w = Wanted
  <2>1. output.stream \in Formats
    BY DEF ReadRing, At, StreamThere
  <2> QED
    BY <2>1, TvPatchAssumption DEF Wanted
<1>4. PICK k \in 0..Len(u) : k = Least(Wanted, ReadSpace) /\ (Len(u) # 0 => k # 0)
  BY <1>2, <1>3, LeastIs
<1>5. PICK o : o = SubSeq(u, 1, k)
  OBVIOUS
<1>6. o \in Seq(Units) /\ Len(o) = k /\ \A i \in 1..Len(o) : i \in 1..Len(u) /\ o[i] = u[i]
  <2>1. k \in Nat /\ k <= Len(u)
    BY <1>2
  <2>2. \A i \in 1..k : u[i] \in Units
    BY <1>2, <2>1
  <2>3. /\ o \in Seq(Units) /\ Len(o) = IF 1 <= k THEN k - 1 + 1 ELSE 0
        /\ \A i \in 1..(k - 1 + 1) : o[i] = u[1 + i - 1]
    BY <1>5, <2>1, <2>2, SubSeqProperties
  <2>4. Len(o) = k
    BY <2>1, <2>3
  <2>5. ASSUME NEW i \in 1..Len(o)
        PROVE  i \in 1..Len(u) /\ o[i] = u[i]
    <3>1. i \in 1..(k - 1 + 1) /\ 1 + i - 1 = i /\ i \in 1..Len(u)
      BY <1>2, <2>1, <2>4
    <3> QED
      BY <2>3, <3>1
  <2> QED
    BY <2>3, <2>4, <2>5
<1>7. /\ output.at = "read" /\ aml_ringbuffer' = TakeUnits(k)
      /\ output' = [output EXCEPT !.at = "write", !.out_buf = o]
      /\ UNCHANGED <<aformat, digital_input_fmt_change, played, opened, searched, fault>>
      /\ OutputOnly
  BY <1>1, <1>4, <1>5 DEF ReadRing, At, patch, marks
<1>8. /\ output' \in OutputState /\ output'.at = "write" /\ output'.out_buf = o
      /\ output'.stream = output.stream
  BY <1>6, <1>7 DEF OutputState, OutputAt
<1>9. PICK v \in Seq(Units) : v = aml_ringbuffer'.units
  BY <1>1, <1>7, UnitsTaken, RingFields
<1>10. /\ aml_ringbuffer' \in RingState /\ aml_ringbuffer'.size = aml_ringbuffer.size
       /\ Len(v) = Len(u) - k
       /\ \A i \in 1..Len(v) : i + k \in 1..Len(u) /\ v[i] = u[i + k]
  BY <1>1, <1>7, <1>9, UnitsTaken
<1>11. Fits'
  BY <1>1, <1>7, <1>9, <1>10, TakenFits
<1>12. StreamThere'
  BY <1>7, <1>8 DEF StreamThere
<1>13. SyncWordInFront'
  <2> SUFFICES ASSUME output.stream = "compressed", searched
               PROVE  o # <<>> /\ o[1].sync
    BY <1>7, <1>8 DEF SyncWordInFront, StartsAtSyncWord
  <2>1. u # <<>> /\ u[1].sync
    BY <1>1, <1>7 DEF SyncWordInFront
  <2>2. Len(u) # 0
    BY <2>1, EmptySeq
  <2>3. 1 \in 1..Len(o)
    BY <1>2, <1>4, <1>6, <2>2
  <2>4. o # <<>>
    <3>1. o \in Seq(Units) /\ Len(o) # 0
      BY <1>6, <2>3
    <3> QED
      BY <3>1, EmptySeq
  <2>5. o[1] = u[1]
    BY <1>6, <2>3
  <2> QED
    BY <2>1, <2>4, <2>5
<1>14. /\ \A i \in 1..Len(u) : Unplayed(u[i])
       /\ \A i, j \in 1..Len(u) : i < j => Earlier(u[i], u[j])
       /\ Holding => /\ input.in_buf.n \in {0, captured} /\ Unplayed(input.in_buf)
                     /\ \A i \in 1..Len(u) : Earlier(u[i], input.in_buf)
  BY <1>1 DEF PeriodsInOrder, Sorted, HeldIsLast
<1>15. PeriodsInOrder'
  <2>1. \A i \in 1..Len(o) : Unplayed(o[i])
    BY <1>6, <1>14
  <2>2. \A i \in 1..Len(v) : Unplayed(v[i])
    BY <1>10, <1>14
  <2>3. Sorted(o)
    BY <1>6, <1>14 DEF Sorted
  <2>4. Sorted(v)
    <3> SUFFICES ASSUME NEW i \in 1..Len(v), NEW j \in 1..Len(v), i < j
                 PROVE  Earlier(v[i], v[j])
      BY DEF Sorted
    <3>1. i + k < j + k
      BY <1>2
    <3> QED
      BY <1>10, <1>14, <3>1
  <2>5. \A i \in 1..Len(o), j \in 1..Len(v) : Earlier(o[i], v[j])
    <3> TAKE i \in 1..Len(o), j \in 1..Len(v)
    <3>1. i < j + k
      BY <1>2, <1>6
    <3> QED
      BY <1>6, <1>10, <1>14, <3>1
  <2> QED
    BY <1>7, <1>8, <1>9, <2>1, <2>2, <2>3, <2>4, <2>5 DEF PeriodsInOrder, Unplayed, OutputOnly
<1>16. HeldIsLast'
  <2>1. PICK b \in Units : b = input.in_buf
    OBVIOUS
  <2>2. Holding =>
          /\ b.n \in {0, captured} /\ Unplayed(b)
          /\ \A i \in 1..Len(o) : Earlier(o[i], b)
          /\ \A i \in 1..Len(v) : Earlier(v[i], b)
    BY <1>6, <1>10, <1>14, <2>1
  <2>3. input'.in_buf = b /\ (Holding' => Holding)
    BY <1>7, <2>1 DEF OutputOnly, Holding
  <2> QED
    BY <1>7, <1>8, <1>9, <2>2, <2>3 DEF HeldIsLast, Unplayed, OutputOnly
<1> QED
  BY <1>7, <1>8, <1>10, <1>11, <1>12, <1>13, <1>15, <1>16, OutputInv

\* What is written was in front of all there is.
LEMMA WriteOutInv ==
  ASSUME TvInv, WriteOut
  PROVE  TvInv'
<1> USE Facts
<1>1. PICK u \in Seq(Units), o \in Seq(Units), b \in Units :
        u = aml_ringbuffer.units /\ o = output.out_buf /\ b = input.in_buf
  OBVIOUS
<1>2. /\ output.at = "write"
      /\ output' = [output EXCEPT !.at = "check", !.out_buf = <<>>]
      /\ UNCHANGED <<aformat, digital_input_fmt_change, aml_ringbuffer, opened, searched, fault>>
      /\ OutputOnly
  BY DEF WriteOut, At, patch
<1>3. <<>> \in Seq(Units) /\ Len(<<>>) = 0 /\ 1..0 = {}
  BY EmptySeq
<1>4. /\ output' \in OutputState /\ output'.at = "check" /\ output'.out_buf = <<>>
      /\ output'.stream = output.stream
  BY <1>2, <1>3 DEF OutputState, OutputAt
<1>5. PICK p \in 0..MaxCaptured, q \in 0..MaxCaptured, c \in 0..MaxCaptured :
        p = played /\ q = opened /\ c = captured
  OBVIOUS
<1>6. /\ \A i \in 1..Len(o) : Unplayed(o[i]) /\ o[i] \in Units
      /\ \A i \in 1..Len(u) : Unplayed(u[i]) /\ u[i] \in Units
      /\ Sorted(u)
      /\ \A i \in 1..Len(o), j \in 1..Len(u) : Earlier(o[i], u[j])
      /\ Holding => /\ b.n \in {0, captured} /\ Unplayed(b)
                    /\ \A i \in 1..Len(o) : Earlier(o[i], b)
                    /\ \A i \in 1..Len(u) : Earlier(u[i], b)
  BY <1>1 DEF PeriodsInOrder, HeldIsLast
<1>7. PICK r \in 0..MaxCaptured :
        /\ r = played' /\ r <= captured
        /\ \A x \in Units : Unplayed(x) /\ (\A i \in 1..Len(o) : Earlier(o[i], x))
             => x.n <= captured /\ (x.n # 0 => x.n > r /\ x.n >= opened)
  <2>1. CASE played' = played
    BY <2>1 DEF Unplayed
  <2>2. CASE \E i \in Periods(output.out_buf) : played' = output.out_buf[i].n
    <3>1. PICK i \in 1..Len(o) : o[i].n # 0 /\ played' = o[i].n
      <4>1. DOMAIN o = 1..Len(o)
        BY LenProperties
      <4> QED
        BY <1>1, <2>2, <4>1 DEF Periods
    <3>2. PICK r \in 0..MaxCaptured : r = o[i].n
      BY <1>6, UnitFields
    <3>3. r <= captured
      BY <1>6, <3>2 DEF Unplayed
    <3>4. ASSUME NEW x \in Units, Unplayed(x), \A j \in 1..Len(o) : Earlier(o[j], x)
          PROVE  x.n <= captured /\ (x.n # 0 => x.n > r /\ x.n >= opened)
      <4>1. Earlier(o[i], x)
        BY <3>4
      <4>2. PICK m \in 0..MaxCaptured : m = x.n
        BY UnitFields
      <4>3. m # 0 => r < m
        BY <3>1, <3>2, <4>1, <4>2 DEF Earlier
      <4>4. m # 0 => m > r
        BY <4>3, TvPatchAssumption
      <4> QED
        BY <3>4, <4>2, <4>4 DEF Unplayed
    <3> QED
      BY <3>1, <3>2, <3>3, <3>4
  <2> QED
    BY <2>1, <2>2 DEF WriteOut
<1>8. Fits'
  BY <1>2 DEF Fits, OutputOnly
<1>9. StreamThere'
  BY <1>2, <1>4 DEF StreamThere
<1>10. SyncWordInFront'
  BY <1>4 DEF SyncWordInFront, StartsAtSyncWord
<1>11. PeriodsInOrder'
  <2>1. \A i \in 1..Len(u) : u[i].n <= captured /\ (u[i].n # 0 => u[i].n > r /\ u[i].n >= opened)
    BY <1>6, <1>7
  <2>2. 1..Len(output'.out_buf) = {}
    BY <1>3, <1>4
  <2>3. Sorted(output.out_buf)'
    BY <2>2 DEF Sorted
  <2> QED
    BY <1>1, <1>2, <1>6, <1>7, <2>1, <2>2, <2>3 DEF PeriodsInOrder, Unplayed, OutputOnly
<1>12. HeldIsLast'
  <2>1. Holding => /\ b.n \in {0, captured}
                   /\ b.n <= captured /\ (b.n # 0 => b.n > r /\ b.n >= opened)
                   /\ \A i \in 1..Len(u) : Earlier(u[i], b)
    BY <1>6, <1>7
  <2>2. 1..Len(output'.out_buf) = {}
    BY <1>3, <1>4
  <2>3. input'.in_buf = b /\ (Holding' => Holding)
    BY <1>1, <1>2 DEF OutputOnly, Holding
  <2> QED
    BY <1>1, <1>2, <1>7, <2>1, <2>2, <2>3 DEF HeldIsLast, Unplayed, OutputOnly
<1> QED
  BY <1>2, <1>4, <1>7, <1>8, <1>9, <1>10, <1>11, <1>12, OutputInv

\* The ring is emptied for the new stream.
LEMMA ResetForStreamInv ==
  ASSUME TvInv, ResetForStream
  PROVE  TvInv'
<1> USE Facts
<1>1. /\ output.at = "opened" /\ digital_input_fmt_change' = FALSE
      /\ output' = [output EXCEPT !.at = "level"]
      /\ UNCHANGED <<aformat, played, searched>>
      /\ OutputOnly
  BY DEF ResetForStream, At
<1>2. /\ output' \in OutputState /\ output'.at = "level" /\ output'.out_buf = output.out_buf
      /\ output'.stream = output.stream
  BY <1>1 DEF OutputState, OutputAt
<1>3. output.stream # "none"
  BY <1>1 DEF StreamThere
<1>4. CASE /\ fault' = "no ring" /\ UNCHANGED <<aml_ringbuffer, opened>>
  BY <1>1, <1>2, <1>3, <1>4, OutputMovesInv
<1>5. CASE /\ aml_ringbuffer' = [aml_ringbuffer EXCEPT !.units = <<>>, !.last_is_write = FALSE]
           /\ opened' = captured /\ fault' = fault
  <2>1. <<>> \in Seq(Units) /\ Len(<<>>) = 0 /\ 1..0 = {}
    BY EmptySeq
  <2>2. /\ aml_ringbuffer' \in RingState /\ aml_ringbuffer'.units = <<>>
        /\ aml_ringbuffer'.size \in Nat
    BY <1>5, <2>1 DEF RingState
  <2>3. Fits'
    BY <2>1, <2>2 DEF Fits
  <2>4. StreamThere'
    BY <1>1, <1>2, <1>3 DEF StreamThere
  <2>5. SyncWordInFront'
    BY <1>2 DEF SyncWordInFront, StartsAtSyncWord
  <2>6. output.out_buf = <<>>
    BY <1>1 DEF StreamThere
  <2>7. 1..Len(output'.out_buf) = {} /\ 1..Len(aml_ringbuffer'.units) = {}
    BY <1>2, <2>1, <2>2, <2>6
  <2>8. PeriodsInOrder'
    BY <2>7 DEF PeriodsInOrder, Sorted
  <2>9. PICK c \in 0..MaxCaptured, b \in Units : c = captured /\ b = input.in_buf /\ c <= c
    <3>1. PICK c \in 0..MaxCaptured : c = captured
      OBVIOUS
    <3>2. c <= c
      BY TvPatchAssumption
    <3> QED
      BY <3>1, <3>2
  <2>10. HeldIsLast'
    <3>1. Holding => /\ b.n \in {0, c} /\ b.n <= c /\ (b.n # 0 => b.n > played /\ b.n >= c)
      <4>1. Holding => b.n \in {0, c} /\ b.n <= c /\ (b.n # 0 => b.n > played)
        BY <2>9 DEF HeldIsLast, Unplayed
      <4> QED
        BY <2>9, <4>1
    <3>2. input'.in_buf = b /\ (Holding' => Holding)
      BY <1>1, <2>9 DEF OutputOnly, Holding
    <3> QED
      BY <1>1, <1>5, <2>7, <2>9, <3>1, <3>2 DEF HeldIsLast, Unplayed, OutputOnly
  <2>11. opened' <= captured
    BY <1>5, <2>9
  <2> QED
    BY <1>1, <1>2, <1>5, <2>2, <2>3, <2>4, <2>5, <2>8, <2>10, <2>11, OutputInv
<1> QED
  BY <1>4, <1>5 DEF ResetForStream

\* The output thread keeps the invariant.
LEMMA OutputStepInv ==
  ASSUME TvInv, Output
  PROVE  TvInv'
BY StreamInv, SearchInv, DropInv, ReadRingInv, WriteOutInv, ResetForStreamInv DEF Output

----------------------------------------------------------------------------
(* The system.                                                              *)

\* The initial states satisfy the invariant.
LEMMA InitInv ==
  ASSUME Init
  PROVE  TvInv
<1>1. RingSize["AUDS"] \in Nat /\ "AUDS" \in Packets
  BY TvPatchAssumption DEF Packets
<1>2. /\ aml_ringbuffer \in RingState /\ aml_ringbuffer.units = <<>>
      /\ aml_ringbuffer.size \in Nat /\ Len(aml_ringbuffer.units) = 0
  BY <1>1, EmptyRing DEF Init
<1>3. input \in InputState /\ input.at = "open"
  BY <1>1, UnitFields DEF Init, InputState, InputAt
<1>4. <<>> \in Seq(Units) /\ Len(<<>>) = 0 /\ 1..0 = {}
  BY EmptySeq
<1>5. /\ output \in OutputState /\ output.at = "open" /\ output.out_buf = <<>>
  BY <1>4 DEF Init, OutputState, OutputAt
<1>6. hdmi \in HdmiState
  BY <1>1 DEF Init, HdmiState, Formats
<1>7. 0 \in 0..MaxCaptured
  BY TvPatchAssumption
<1>8. Typed
  <2>1. captured = 0 /\ played = 0 /\ opened = 0
    BY DEF Init
  <2>2. /\ captured \in 0..MaxCaptured /\ played \in 0..MaxCaptured /\ opened \in 0..MaxCaptured
        /\ played <= captured /\ opened <= captured
    BY <1>7, <2>1
  <2>3. aformat \in Formats
    BY DEF Init, Formats
  <2> QED
    BY <1>2, <1>3, <1>5, <1>6, <2>2, <2>3 DEF Init, Typed
<1>9. Fits
  BY <1>2 DEF Fits
<1>10. StreamThere /\ SyncWordInFront /\ Joined
  BY <1>5 DEF Init, StreamThere, SyncWordInFront, StartsAtSyncWord, Joined
<1>11. PeriodsInOrder
  BY <1>2, <1>4, <1>5 DEF PeriodsInOrder, Sorted
<1>12. HeldIsLast
  BY <1>3 DEF HeldIsLast, Holding
<1> QED
  BY <1>8, <1>9, <1>10, <1>11, <1>12 DEF TvInv

\* HDMI, the release and a step that changes nothing leave the periods alone.
LEMMA OtherInv ==
  ASSUME TvInv, HdmiChanges \/ StartRelease \/ Release \/ UNCHANGED vars
  PROVE  TvInv'
<1> USE Facts
<1>1. /\ UNCHANGED <<aformat, digital_input_fmt_change, aml_ringbuffer, captured, played, opened,
                     searched, overwritten, fault>>
      /\ hdmi' \in HdmiState
  <2>1. CASE HdmiChanges
    <3>1. PICK c \in Nat : c = hdmi.changes + 1
      <4>1. hdmi.changes \in Nat
        BY DEF HdmiState
      <4> QED
        BY <4>1
    <3> QED
      BY <2>1, <3>1 DEF HdmiChanges, HdmiState, patch, marks
  <2>2. CASE StartRelease \/ Release
    BY <2>2 DEF StartRelease, Release, OutputJoined, InputJoined, ReleaseOnly, patch, marks
  <2>3. CASE UNCHANGED vars
    BY <2>3 DEF vars, patch, marks
  <2> QED
    BY <2>1, <2>2, <2>3
<1>2. /\ input' \in InputState /\ input'.at = input.at /\ input'.in_buf = input.in_buf
      /\ input'.packet = input.packet
      /\ output' \in OutputState /\ output'.at = output.at /\ output'.out_buf = output.out_buf
      /\ output'.stream = output.stream
  <2>1. \/ UNCHANGED <<input, output>>
        \/ input' = [input EXCEPT !.exit = TRUE] /\ output' = output
        \/ output' = [output EXCEPT !.exit = TRUE] /\ input' = input
    BY DEF HdmiChanges, StartRelease, Release, OutputJoined, InputJoined, vars
  <2> QED
    BY <2>1 DEF InputState, OutputState
<1>3. /\ control' \in {"idle", "join output", "join input", "released"}
      /\ control' \in {"join input", "released"} => output.at = "done"
      /\ control' = "released" => input.at = "done"
  <2>1. control \in {"idle", "join output", "join input", "released"}
    BY DEF Typed
  <2> QED
    BY <2>1 DEF HdmiChanges, StartRelease, Release, OutputJoined, InputJoined, vars, Joined
<1>4. Typed'
  BY <1>1, <1>2, <1>3 DEF Typed
<1>5. Fits' /\ StreamThere' /\ Joined'
  BY <1>1, <1>2, <1>3 DEF Fits, StreamThere, Joined
<1>6. SyncWordInFront'
  BY <1>1, <1>2 DEF SyncWordInFront, StartsAtSyncWord
<1>7. PeriodsInOrder' /\ HeldIsLast'
  <2>1. PICK u \in Seq(Units) : u = aml_ringbuffer.units
    OBVIOUS
  <2>2. \A i \in 1..Len(u) : i + 0 \in 1..Len(u) /\ u[i] = u[i + 0]
    BY ShiftedByNone
  <2>3. \A i \in 1..Len(aml_ringbuffer'.units) :
          /\ i + 0 \in 1..Len(aml_ringbuffer.units)
          /\ aml_ringbuffer'.units[i] = aml_ringbuffer.units[i + 0]
    BY <1>1, <2>1, <2>2
  <2>4. 0 \in Nat /\ aml_ringbuffer' \in RingState
    BY <1>1
  <2>5. Holding' => Holding /\ input'.in_buf = input.in_buf
    BY <1>2 DEF Holding
  <2> QED
    BY <1>1, <1>2, <2>3, <2>4, <2>5, OrderKept
<1> QED
  BY <1>4, <1>5, <1>6, <1>7 DEF TvInv

\* Every step of the patch keeps the invariant.
LEMMA StepInv ==
  ASSUME TvInv, [Next]_vars
  PROVE  TvInv'
BY InputStepInv, OutputStepInv, OtherInv DEF Next

\* The inductive invariant holds in every state of the patch.
THEOREM TvInvariant == Spec => []TvInv
BY InitInv, StepInv, PTL DEF Spec

\* Every variable keeps its type, and the ring never holds more than its size,
\* while it is emptied, replaced and grown (ring_buffer_write() of tv_patch.c:331).
THEOREM TvTypeOK == Spec => []TypeOK
<1>1. ASSUME TvInv
      PROVE  TypeOK
  <2>1. ReadSpace \in 0..aml_ringbuffer.size
    <3>1. PICK u \in Seq(Units), s \in Nat :
            u = aml_ringbuffer.units /\ s = aml_ringbuffer.size
      BY <1>1, Facts
    <3>2. Len(u) \in Nat /\ Len(u) <= s
      BY <1>1, <3>1, Facts, LenProperties DEF Fits
    <3> QED
      BY <3>1, <3>2 DEF ReadSpace
  <2>2. aml_ringbuffer.last_is_write \in BOOLEAN
    BY <1>1, Facts, RingFields
  <2> QED
    BY <1>1, <2>1, <2>2, Facts DEF TypeOK, Typed, InputAt, OutputAt
<1> QED
  BY <1>1, TvInvariant, PTL

\* What a new stream is given was captured after the ring was emptied for it,
\* but for the one period the input thread was holding.
THEOREM TvOldDataIsOnePeriod == Spec => []OldDataIsOnePeriod
<1>1. ASSUME TvInv
      PROVE  OldDataIsOnePeriod
  <2>1. PICK o \in Seq(Units) : o = output.out_buf /\ DOMAIN o = 1..Len(o)
    BY <1>1, Facts, LenProperties
  <2>2. \A i \in 1..Len(o) : o[i].n # 0 => o[i].n >= opened
    BY <1>1, <2>1, Facts DEF PeriodsInOrder, Unplayed
  <2> QED
    BY <2>1, <2>2 DEF OldDataIsOnePeriod
<1> QED
  BY <1>1, TvInvariant, PTL

\* What a decoder of compressed data is given starts at the sync word that was
\* found, unless the ring was empty when its level was taken and the search
\* found none, or the input thread emptied or cleared the ring after the search.
THEOREM TvStartsAtSyncWord == Spec => []StartsAtSyncWord
<1>1. TvInv => StartsAtSyncWord
  BY DEF TvInv, SyncWordInFront
<1> QED
  BY <1>1, TvInvariant, PTL

\* The ring and the patch are freed after both threads have ended.
THEOREM TvUsesNothingFreed == Spec => []NothingFreedIsUsed
<1>1. TvInv => NothingFreedIsUsed
  BY DEF TvInv, Joined, NothingFreedIsUsed
<1> QED
  BY <1>1, TvInvariant, PTL

\* Two sequences in order, the first before the second, are in order when
\* concatenated, and what holds of the units of both holds of the whole.
LEMMA OrderedConcat ==
  ASSUME NEW s \in Seq(Units), NEW t \in Seq(Units), Sorted(s), Sorted(t),
         \A i \in 1..Len(s), j \in 1..Len(t) : Earlier(s[i], t[j])
  PROVE  /\ s \o t \in Seq(Units) /\ Sorted(s \o t)
         /\ \A i \in 1..Len(s \o t) : \/ \E j \in 1..Len(s) : (s \o t)[i] = s[j]
                                      \/ \E j \in 1..Len(t) : (s \o t)[i] = t[j]
<1>1. PICK q : q = s \o t
  OBVIOUS
<1>2. /\ q \in Seq(Units) /\ Len(s) \in Nat /\ Len(t) \in Nat /\ Len(q) = Len(s) + Len(t)
      /\ \A i \in 1..Len(s) + Len(t) : q[i] = IF i <= Len(s) THEN s[i] ELSE t[i - Len(s)]
  BY <1>1, ConcatProperties, LenProperties
<1>3. ASSUME NEW i \in 1..Len(q)
      PROVE  \/ i \in 1..Len(s) /\ q[i] = s[i]
             \/ i > Len(s) /\ i - Len(s) \in 1..Len(t) /\ q[i] = t[i - Len(s)]
  BY <1>2
<1>4. Sorted(q)
  <2> SUFFICES ASSUME NEW i \in 1..Len(q), NEW j \in 1..Len(q), i < j
               PROVE  Earlier(q[i], q[j])
    BY DEF Sorted
  <2>1. CASE i \in 1..Len(s) /\ j \in 1..Len(s)
    <3>1. q[i] = s[i] /\ q[j] = s[j]
      BY <1>2, <2>1
    <3> QED
      BY <2>1, <3>1 DEF Sorted
  <2>2. CASE i \in 1..Len(s) /\ j > Len(s)
    <3>1. q[i] = s[i] /\ j - Len(s) \in 1..Len(t) /\ q[j] = t[j - Len(s)]
      BY <1>2, <2>2
    <3> QED
      BY <2>2, <3>1
  <2>3. CASE i > Len(s) /\ j > Len(s)
    <3>1. /\ i - Len(s) \in 1..Len(t) /\ q[i] = t[i - Len(s)]
          /\ j - Len(s) \in 1..Len(t) /\ q[j] = t[j - Len(s)]
      BY <1>2, <2>3
    <3>2. i - Len(s) < j - Len(s)
      BY <1>2
    <3> QED
      BY <3>1, <3>2 DEF Sorted
  <2> QED
    BY <1>2, <2>1, <2>2, <2>3
<1> QED
  BY <1>1, <1>2, <1>3, <1>4

\* What was played, is being written, is in the ring and is to be written to
\* it is in the order it was captured in, each period once.
THEOREM TvInOrder == Spec => []InOrder
<1>1. ASSUME TvInv
      PROVE  InOrder
  <2>1. PICK o \in Seq(Units), u \in Seq(Units), b \in Units :
          o = output.out_buf /\ u = aml_ringbuffer.units /\ b = input.in_buf
    BY <1>1, Facts
  <2>2. PICK h \in Seq(Units) :
          h = IF input.at \in {"reconfig", "write", "full"} THEN <<input.in_buf>> ELSE <<>>
    <3>1. <<b>> \in Seq(Units) /\ <<>> \in Seq(Units)
      OBVIOUS
    <3> QED
      BY <2>1, <3>1
  <2>3. /\ \A i \in 1..Len(h) : h[i] = b /\ Holding
        /\ Len(h) \in {0, 1}
    <3>1. CASE Holding
      <4>1. h = <<b>>
        BY <2>1, <2>2, <3>1 DEF Holding
      <4>2. Len(<<b>>) = 1 /\ <<b>>[1] = b
        OBVIOUS
      <4> QED
        BY <3>1, <4>1, <4>2
    <3>2. CASE ~Holding
      <4>1. h = <<>>
        BY <2>2, <3>2 DEF Holding
      <4>2. Len(<<>>) = 0 /\ 1..0 = {}
        OBVIOUS
      <4> QED
        BY <4>1, <4>2
    <3> QED
      BY <3>1, <3>2
  <2>4. /\ \A i \in 1..Len(o) : Unplayed(o[i])
        /\ \A i \in 1..Len(u) : Unplayed(u[i])
        /\ Sorted(o) /\ Sorted(u)
        /\ \A i \in 1..Len(o), j \in 1..Len(u) : Earlier(o[i], u[j])
        /\ Holding => /\ Unplayed(b)
                      /\ \A i \in 1..Len(o) : Earlier(o[i], b)
                      /\ \A i \in 1..Len(u) : Earlier(u[i], b)
    BY <1>1, <2>1, Facts DEF PeriodsInOrder, HeldIsLast
  <2>5. Sorted(h)
    BY <2>3 DEF Sorted
  <2>6. PICK r \in Seq(Units) :
          /\ r = o \o u /\ Sorted(r)
          /\ \A i \in 1..Len(r) : \/ \E j \in 1..Len(o) : r[i] = o[j]
                                  \/ \E j \in 1..Len(u) : r[i] = u[j]
    BY <2>4, OrderedConcat
  <2>7. \A i \in 1..Len(r), j \in 1..Len(h) : Earlier(r[i], h[j])
    BY <2>3, <2>4, <2>6
  <2>8. PICK q \in Seq(Units) :
          /\ q = r \o h /\ Sorted(q)
          /\ \A i \in 1..Len(q) : \/ \E j \in 1..Len(r) : q[i] = r[j]
                                  \/ \E j \in 1..Len(h) : q[i] = h[j]
    BY <2>5, <2>6, <2>7, OrderedConcat
  <2>9. \A i \in 1..Len(q) : Unplayed(q[i])
    BY <2>3, <2>4, <2>6, <2>8
  <2>10. DOMAIN q = 1..Len(q)
    BY LenProperties
  <2>11. /\ \A i \in Periods(q) : q[i].n > played
         /\ \A i, j \in Periods(q) : i < j => q[i].n < q[j].n
    BY <2>8, <2>9, <2>10 DEF Periods, Unplayed, Sorted, Earlier
  <2>12. q = output.out_buf \o aml_ringbuffer.units
               \o (IF input.at \in {"reconfig", "write", "full"} THEN <<input.in_buf>> ELSE <<>>)
    BY <2>1, <2>2, <2>6, <2>8
  <2> QED
    BY <2>11, <2>12 DEF InOrder
<1> QED
  BY <1>1, TvInvariant, PTL
============================================================================
