------------------------------ MODULE SubMixer ------------------------------
(***************************************************************************)
(* The input side of the PCM sub mixer (audio_hal/amlAudioMixer.c and      *)
(* audio_port.c).  Every output stream owns an input port: a ring its      *)
(* writer fills and the mixer thread drains one chunk at a time, into      *)
(* port->data and from there into the mix.                                 *)
(*                                                                         *)
(* The mixer thread and delete_mixer_input_port hold audio_mixer->lock;    *)
(* init_mixer_input_port and the writers hold no lock at all, so each of   *)
(* their reads and writes of in_ports and of the two masks is a step.      *)
(* The calls on one stream come one after another.  Android's audio policy *)
(* service (external) also opens and closes its streams one at a time;     *)
(* nothing orders it against the DTV threads, which open streams directly. *)
(*                                                                         *)
(* The mixer and its thread live as long as the device is open; the        *)
(* framework closes the device after its streams, and may open it again.   *)
(*                                                                         *)
(* A port object is named after the stream it was allocated for.  Nothing  *)
(* in the repository sends a port message, and no stream registers a meta  *)
(* data callback, so pausing, flushing and hwsync insertion never happen.  *)
(***************************************************************************)
EXTENDS Integers, Sequences

CONSTANTS Streams,    \* the output streams, and the port objects they allocate
          Framework,  \* the streams opened by the audio policy service
          NInports,   \* NR_INPORTS
          Cap,        \* the bytes a port's ring holds, in units
          ChunkLen,   \* data_len_bytes: what the mixer reads at once, in units
          WriteLens,  \* the lengths of out_write(), in units
          MaxUnits,   \* bound: the units one stream writes while it is open
          NULL, None, Mixer

ASSUME SubMixerAssumption ==
  /\ Framework \subseteq Streams
  /\ NInports \in Nat \ {0}
  /\ ChunkLen \in Nat \ {0} /\ Cap \in Nat /\ Cap >= 2 * ChunkLen
  /\ WriteLens \subseteq Nat \ {0} /\ MaxUnits \in Nat
  /\ NULL \notin Streams /\ None \notin Streams /\ Mixer \notin Streams
  /\ None # Mixer

Ports == 0..(NInports - 1)
Unassigned == -1               \* inputPortID of a stream without a port
Threshold == (Cap * 3) \div 4  \* inport_start_threshold

VARIABLES
  in_ports,           \* the port each index points to, or NULL
  inportsMasks,       \* the indices the mixer thread visits
  inportsAvailMasks,  \* the indices an init may take
  alive,              \* the port objects that are allocated
  port,               \* what the allocated port objects hold
  inputPortID,        \* the index each stream writes to
  pc,                 \* where the thread working for each stream is
  local,              \* its local variables
  written,            \* units each stream has written since it was opened
  mixed,              \* units that went from each port into the mix
  lock,               \* who holds audio_mixer->lock
  mixer,              \* where the mixer thread is, and its local variables
  life,               \* the device, and the flags between it and the mixer thread
  fault               \* "freed": freed memory was used; "index": in_ports[-1]

vars == <<in_ports, inportsMasks, inportsAvailMasks, alive, port, inputPortID,
          pc, local, written, mixed, lock, mixer, life, fault>>

slots == <<in_ports, inportsMasks, inportsAvailMasks>>
data  == <<port, written, mixed>>

Least(a, b) == IF a <= b THEN a ELSE b
Unit(s, k) == <<s, k>>         \* the k-th unit of stream s

NewPort == [ring |-> <<>>, data |-> <<>>, data_valid |-> FALSE, first_read |-> TRUE,
            ID |-> Unassigned]
\* A mixer that calloc() has cleared; nobody learns of it when pthread_create()
\* gives it no thread, and the join of none returns at once.
NewMixer(created) ==
  [at |-> IF created THEN "begin" ELSE "ended", masks |-> {}, in_port |-> NULL]
NoLocals == [index |-> Unassigned, mask |-> {}, in_port |-> NULL, todo |-> 0]

Init ==
  /\ in_ports = [i \in Ports |-> NULL]
  /\ inportsMasks = {} /\ inportsAvailMasks = Ports
  /\ alive = {} /\ port = [s \in Streams |-> NewPort]
  /\ inputPortID = [s \in Streams |-> Unassigned]
  /\ pc = [s \in Streams |-> "closed"]
  /\ local = [s \in Streams |-> NoLocals]
  /\ written = [s \in Streams |-> 0]
  /\ mixed = [s \in Streams |-> <<>>]
  /\ lock = None
  /\ \E created \in BOOLEAN : mixer = NewMixer(created)
  /\ life = [device |-> "open", mixing_enable |-> TRUE, exit_thread |-> FALSE]
  /\ fault = "none"

----------------------------------------------------------------------------
(* Opening: new_input_port(), then init_mixer_input_port()'s registration. *)

Opening == {"claiming", "registering", "masking"}
Closing == {"deleting", "unmasking", "releasing"}

\* The audio policy service runs one open or close at a time.
PolicyIdle(s) ==
  s \in Framework => \A t \in Framework \ {s} : pc[t] \notin Opening \cup Closing

\* __builtin_ctz(), which finds no bit to count in an empty mask.
FirstBit(m) == IF m = {} THEN NInports ELSE CHOOSE i \in m : \A j \in m : i <= j

\* mixer_get_available_inport_index(): it reads the mask and picks a bit ...
OpenStream(s) ==
  /\ pc[s] = "closed" /\ s \notin alive
  /\ life.device = "open" /\ PolicyIdle(s)
  /\ alive' = alive \cup {s}
  /\ port' = [port EXCEPT ![s] = NewPort]
  /\ written' = [written EXCEPT ![s] = 0]
  /\ mixed' = [mixed EXCEPT ![s] = <<>>]
  /\ local' = [local EXCEPT ![s].index = FirstBit(inportsAvailMasks),
                            ![s].mask = inportsAvailMasks]
  /\ pc' = [pc EXCEPT ![s] = "claiming"]
  /\ UNCHANGED <<life, slots, inputPortID, lock, mixer, fault>>

\* ... and stores the mask without it.  An index past the last one makes
\* init fail; the stream is opened all the same, and its port is lost.
ClaimIndex(s) ==
  /\ pc[s] = "claiming"
  /\ inportsAvailMasks' = local[s].mask \ {local[s].index}
  /\ IF local[s].index \in Ports
     THEN pc' = [pc EXCEPT ![s] = "registering"] /\ UNCHANGED <<alive, local>>
     ELSE /\ pc' = [pc EXCEPT ![s] = "open"]
          /\ alive' = alive \ {s}
          /\ local' = [local EXCEPT ![s] = NoLocals]
  /\ UNCHANGED <<life, in_ports, inportsMasks, data, inputPortID, lock, mixer, fault>>

\* A port found at the index is freed and replaced.
RegisterPort(s) ==
  LET i == local[s].index
  IN  /\ pc[s] = "registering"
      /\ fault' = IF in_ports[i] \in {NULL} \cup alive THEN fault ELSE "freed"
      /\ alive' = alive \ {in_ports[i]}
      /\ in_ports' = [in_ports EXCEPT ![i] = s]
      /\ port' = [port EXCEPT ![s].ID = i]
      /\ local' = [local EXCEPT ![s].mask = inportsMasks]
      /\ pc' = [pc EXCEPT ![s] = "masking"]
      /\ UNCHANGED <<life, inportsMasks, inportsAvailMasks, written, mixed, inputPortID,
                     lock, mixer>>

\* Mutation: the stream gets its port number, but the mixer is not told.
SetMask_Unchanged(s) ==
  /\ pc[s] = "masking"
  /\ inportsMasks' = local[s].mask
  /\ inputPortID' = [inputPortID EXCEPT ![s] = local[s].index]
  /\ local' = [local EXCEPT ![s] = NoLocals]
  /\ pc' = [pc EXCEPT ![s] = "open"]
  /\ UNCHANGED <<life, in_ports, inportsAvailMasks, alive, data, lock, mixer, fault>>

\* inportsMasks |= 1 << port_index, and the stream can write.
SetMask(s) ==
  /\ pc[s] = "masking"
  /\ inportsMasks' = local[s].mask \cup {local[s].index}
  /\ inputPortID' = [inputPortID EXCEPT ![s] = local[s].index]
  /\ local' = [local EXCEPT ![s] = NoLocals]
  /\ pc' = [pc EXCEPT ![s] = "open"]
  /\ UNCHANGED <<life, in_ports, inportsAvailMasks, alive, data, lock, mixer, fault>>

----------------------------------------------------------------------------
(* Writing: out_write_direct_pcm() and aml_out_write_to_mixer(). *)

StartWrite(s) == \E n \in WriteLens :
  /\ pc[s] = "open" /\ written[s] + n <= MaxUnits
  /\ local' = [local EXCEPT ![s].todo = n]
  /\ pc' = [pc EXCEPT ![s] = "writing"]
  /\ UNCHANGED <<life, slots, alive, data, inputPortID, lock, mixer, fault>>

\* mixer_write_inport() takes the port from in_ports.  A stream without a
\* port reads past the array; with NULL there the write fails.
FetchPort(s) ==
  LET i == inputPortID[s]
      p == IF i \in Ports THEN in_ports[i] ELSE NULL
  IN  /\ pc[s] = "writing"
      /\ fault' = IF i \in Ports THEN fault ELSE "index"
      /\ local' = [local EXCEPT ![s] = IF p = NULL THEN NoLocals ELSE [@ EXCEPT !.in_port = p]]
      /\ pc' = [pc EXCEPT ![s] = IF p = NULL THEN "open" ELSE "filling"]
      /\ UNCHANGED <<life, slots, alive, data, inputPortID, lock, mixer>>

\* Mutation: what does not fit into the ring counts as written.
FillRing_Drops(s) ==
  LET p == local[s].in_port
      n == Least(local[s].todo, Cap - Len(port[p].ring))
  IN  /\ pc[s] = "filling"
      /\ IF p \in alive
         THEN /\ port' = [port EXCEPT ![p].ring =
                           @ \o [k \in 1..n |-> Unit(s, written[s] + k)]]
              /\ written' = [written EXCEPT ![s] = @ + local[s].todo]
              /\ fault' = fault
         ELSE fault' = "freed" /\ UNCHANGED <<port, written>>
      /\ local' = [local EXCEPT ![s] = NoLocals]
      /\ pc' = [pc EXCEPT ![s] = "open"]
      /\ UNCHANGED <<life, slots, alive, mixed, inputPortID, lock, mixer>>

\* Mutation: data is written only when all of it fits.
FillRing_AllOrNothing(s) ==
  LET p == local[s].in_port
      n == IF local[s].todo <= Cap - Len(port[p].ring) THEN local[s].todo ELSE 0
      left == local[s].todo - n
  IN  /\ pc[s] = "filling"
      /\ IF p \in alive
         THEN /\ port' = [port EXCEPT ![p].ring =
                           @ \o [k \in 1..n |-> Unit(s, written[s] + k)]]
              /\ written' = [written EXCEPT ![s] = @ + n]
              /\ fault' = fault
         ELSE fault' = "freed" /\ UNCHANGED <<port, written>>
      /\ local' = [local EXCEPT ![s] = [NoLocals EXCEPT !.todo = left]]
      /\ pc' = [pc EXCEPT ![s] = IF left = 0 THEN "open" ELSE "writing"]
      /\ UNCHANGED <<life, slots, alive, mixed, inputPortID, lock, mixer>>

\* input_port_write() and the loop around it: what does not fit is written
\* again after the mixer's signal or 5 ms, whichever comes first.
FillRing(s) ==
  LET p == local[s].in_port
      n == Least(local[s].todo, Cap - Len(port[p].ring))
      left == local[s].todo - n
  IN  /\ pc[s] = "filling"
      /\ IF p \in alive
         THEN /\ port' = [port EXCEPT ![p].ring =
                           @ \o [k \in 1..n |-> Unit(s, written[s] + k)]]
              /\ written' = [written EXCEPT ![s] = @ + n]
              /\ fault' = fault
         ELSE fault' = "freed" /\ UNCHANGED <<port, written>>
      /\ local' = [local EXCEPT ![s] = [NoLocals EXCEPT !.todo = left]]
      /\ pc' = [pc EXCEPT ![s] = IF left = 0 THEN "open" ELSE "writing"]
      /\ UNCHANGED <<life, slots, alive, mixed, inputPortID, lock, mixer>>

----------------------------------------------------------------------------
(* Closing: delete_mixer_input_port(). *)

\* The port is read before the lock is taken; without one nothing is done.
CloseStream(s) ==
  LET p == IF inputPortID[s] = Unassigned THEN NULL ELSE in_ports[inputPortID[s]]
  IN  /\ pc[s] = "open" /\ PolicyIdle(s)
      /\ local' = [local EXCEPT ![s].in_port = p]
      /\ inputPortID' = [inputPortID EXCEPT ![s] = IF p = NULL THEN Unassigned ELSE @]
      /\ pc' = [pc EXCEPT ![s] = IF p = NULL THEN "closed" ELSE "deleting"]
      /\ UNCHANGED <<life, slots, alive, data, lock, mixer, fault>>

\* Mutation: the port is freed without waiting for the lock.
FreePort_Unlocked(s) ==
  LET p == local[s].in_port
  IN  /\ pc[s] = "deleting"
      /\ lock' = IF lock = None THEN s ELSE lock
      /\ fault' = IF p \in alive THEN fault ELSE "freed"
      /\ alive' = alive \ {p}
      /\ in_ports' = [in_ports EXCEPT ![inputPortID[s]] = NULL]
      /\ local' = [local EXCEPT ![s] = [NoLocals EXCEPT !.mask = inportsMasks]]
      /\ pc' = [pc EXCEPT ![s] = "unmasking"]
      /\ UNCHANGED <<life, inportsMasks, inportsAvailMasks, data, inputPortID, mixer>>

FreePort(s) ==
  LET p == local[s].in_port
  IN  /\ pc[s] = "deleting" /\ lock = None
      /\ lock' = s
      /\ fault' = IF p \in alive THEN fault ELSE "freed"
      /\ alive' = alive \ {p}
      /\ in_ports' = [in_ports EXCEPT ![inputPortID[s]] = NULL]
      /\ local' = [local EXCEPT ![s] = [NoLocals EXCEPT !.mask = inportsMasks]]
      /\ pc' = [pc EXCEPT ![s] = "unmasking"]
      /\ UNCHANGED <<life, inportsMasks, inportsAvailMasks, data, inputPortID, mixer>>

ClearMask(s) ==
  /\ pc[s] = "unmasking"
  /\ inportsMasks' = local[s].mask \ {inputPortID[s]}
  /\ local' = [local EXCEPT ![s].mask = inportsAvailMasks]
  /\ pc' = [pc EXCEPT ![s] = "releasing"]
  /\ UNCHANGED <<life, in_ports, inportsAvailMasks, alive, data, inputPortID, lock,
                 mixer, fault>>

\* Mutation: inputPortID is reset before its bit is put back.
ReleaseIndex_ResetFirst(s) ==
  /\ pc[s] = "releasing"
  /\ inportsAvailMasks' = local[s].mask \cup {Unassigned}
  /\ inputPortID' = [inputPortID EXCEPT ![s] = Unassigned]
  /\ local' = [local EXCEPT ![s] = NoLocals]
  /\ lock' = None
  /\ pc' = [pc EXCEPT ![s] = "closed"]
  /\ UNCHANGED <<life, in_ports, inportsMasks, alive, data, mixer, fault>>

ReleaseIndex(s) ==
  /\ pc[s] = "releasing"
  /\ inportsAvailMasks' = local[s].mask \cup {inputPortID[s]}
  /\ inputPortID' = [inputPortID EXCEPT ![s] = Unassigned]
  /\ local' = [local EXCEPT ![s] = NoLocals]
  /\ lock' = None
  /\ pc' = [pc EXCEPT ![s] = "closed"]
  /\ UNCHANGED <<life, in_ports, inportsMasks, alive, data, mixer, fault>>

----------------------------------------------------------------------------
(* The mixer thread: mixer_16b_threadloop(). *)

\* Mutation: mixing_enable is not looked at.
BeginThread_AlwaysRuns ==
  /\ mixer.at = "begin"
  /\ mixer' = [mixer EXCEPT !.at = "begun"]
  /\ UNCHANGED <<life, slots, alive, data, inputPortID, pc, local, lock, fault>>

\* A thread that starts when the exit has begun ends at once ...
BeginThread ==
  /\ mixer.at = "begin"
  /\ mixer' = [mixer EXCEPT !.at = IF life.mixing_enable THEN "begun" ELSE "ended"]
  /\ UNCHANGED <<life, slots, alive, data, inputPortID, pc, local, lock, fault>>

\* ... and one that starts in earnest takes back an exit that has come since.
ClearExit ==
  /\ mixer.at = "begun"
  /\ life' = [life EXCEPT !.exit_thread = FALSE]
  /\ mixer' = [mixer EXCEPT !.at = "idle"]
  /\ UNCHANGED <<slots, alive, data, inputPortID, pc, local, lock, fault>>

\* exit_thread is tested between two cycles.
EndThread ==
  /\ mixer.at = "idle" /\ life.exit_thread
  /\ mixer' = [mixer EXCEPT !.at = "ended"]
  /\ UNCHANGED <<life, slots, alive, data, inputPortID, pc, local, lock, fault>>

\* It locks the mixer and copies inportsMasks, to read and again to mix.
MixerLock(from, to) ==
  /\ mixer.at = from /\ lock = None
  /\ from = "idle" => ~life.exit_thread
  /\ lock' = Mixer
  /\ mixer' = [mixer EXCEPT !.at = to, !.masks = inportsMasks]
  /\ UNCHANGED <<life, slots, alive, data, inputPortID, pc, local, fault>>

MixerUnlock(from, to) ==
  /\ mixer.at = from /\ mixer.masks = {}
  /\ lock' = None
  /\ mixer' = [mixer EXCEPT !.at = to]
  /\ UNCHANGED <<life, slots, alive, data, inputPortID, pc, local, fault>>

\* mixer_get_inport_by_mask_right_first(), and the NULL check after it.
MixerFetch(from, to) ==
  LET i == FirstBit(mixer.masks)
  IN  /\ mixer.at = from /\ mixer.masks # {}
      /\ mixer' = [at |-> IF in_ports[i] = NULL THEN from ELSE to,
                   masks |-> mixer.masks \ {i}, in_port |-> in_ports[i]]
      /\ UNCHANGED <<life, slots, alive, data, inputPortID, pc, local, lock, fault>>

\* A port is read when its last chunk was mixed and a whole chunk waits; the
\* first time it must have Threshold units.
Ready(p) ==
  /\ ~port[p].data_valid
  /\ Len(port[p].ring) >= ChunkLen
  /\ port[p].first_read => Len(port[p].ring) >= Threshold

\* mixer_inports_read() for one port.  mixer_read_inport() looks the ring up
\* in in_ports again, by the port's ID.
ReadChunk(p) ==
  LET src == in_ports[port[p].ID]
      n == Least(ChunkLen, Len(port[src].ring))
      begun == [port EXCEPT ![p].first_read = FALSE]
  IN  IF ~Ready(p)
      THEN UNCHANGED <<port, fault>>
      ELSE IF src = NULL
      THEN port' = begun /\ fault' = fault
      ELSE /\ fault' = IF src \in alive THEN fault ELSE "freed"
           /\ port' = [[begun EXCEPT ![src].ring = SubSeq(@, n + 1, Len(@))]
                        EXCEPT ![p].data = SubSeq(port[src].ring, 1, n),
                               ![p].data_valid = (n = ChunkLen)]

MixerRead ==
  LET p == mixer.in_port
  IN  /\ mixer.at = "read"
      /\ IF p \in alive THEN ReadChunk(p) ELSE fault' = "freed" /\ port' = port
      /\ mixer' = [mixer EXCEPT !.at = "reading", !.in_port = NULL]
      /\ UNCHANGED <<life, slots, alive, written, mixed, inputPortID, pc, local, lock>>

\* Mutation: the chunk stays valid after it was mixed.
MixerMix_KeepsValid ==
  LET p == mixer.in_port
  IN  /\ mixer.at = "mix"
      /\ fault' = IF p \in alive THEN fault ELSE "freed"
      /\ mixed' = IF p \in alive /\ port[p].data_valid
                  THEN [mixed EXCEPT ![p] = @ \o port[p].data] ELSE mixed
      /\ mixer' = [mixer EXCEPT !.at = "mixing", !.in_port = NULL]
      /\ UNCHANGED <<life, slots, alive, port, written, inputPortID, pc, local, lock>>

\* mixer_do_mixing_16bit() for one port.  Its early returns are dead code: each
\* input port has two channels, whatever its stream has (audio_port.c:266), so
\* two are needed, the output port has two (986) and is never exchanged; and a
\* mixer whose output port cannot be allocated is not created (1478-1481).
MixerMix ==
  LET p == mixer.in_port
      valid == p \in alive /\ port[p].data_valid
  IN  /\ mixer.at = "mix"
      /\ fault' = IF p \in alive THEN fault ELSE "freed"
      /\ mixed' = IF valid THEN [mixed EXCEPT ![p] = @ \o port[p].data] ELSE mixed
      /\ port' = IF valid THEN [port EXCEPT ![p].data_valid = FALSE, ![p].data = <<>>] ELSE port
      /\ mixer' = [mixer EXCEPT !.at = "mixing", !.in_port = NULL]
      /\ UNCHANGED <<life, slots, alive, written, inputPortID, pc, local, lock>>

----------------------------------------------------------------------------
(* The life of the mixer: initHalSubMixing() when the device is opened and *)
(* deleteHalSubMixing() when it is closed.  The framework closes a device  *)
(* when it has closed its streams (external).                              *)

\* pcm_mixer_thread_exit() clears mixing_enable ...
CloseDevice ==
  /\ life.device = "open" /\ \A s \in Streams : pc[s] = "closed"
  /\ life' = [life EXCEPT !.device = "exiting", !.mixing_enable = FALSE]
  /\ UNCHANGED <<slots, alive, data, inputPortID, pc, local, lock, mixer, fault>>

\* ... sets exit_thread ...
RequestExit ==
  /\ life.device = "exiting"
  /\ life' = [life EXCEPT !.device = "joining", !.exit_thread = TRUE]
  /\ UNCHANGED <<slots, alive, data, inputPortID, pc, local, lock, mixer, fault>>

\* ... and joins the thread; then the mixer is freed.
JoinMixer ==
  /\ life.device = "joining" /\ mixer.at = "ended"
  /\ life' = [life EXCEPT !.device = "closed"]
  /\ UNCHANGED <<slots, alive, data, inputPortID, pc, local, lock, mixer, fault>>

\* newAmlAudioMixer() and pcm_mixer_thread_run(): a mixer, and a thread for it.
OpenDevice ==
  /\ life.device = "closed"
  /\ life' = [device |-> "open", mixing_enable |-> TRUE, exit_thread |-> FALSE]
  /\ in_ports' = [i \in Ports |-> NULL]
  /\ inportsMasks' = {} /\ inportsAvailMasks' = Ports
  /\ lock' = None
  /\ \E created \in BOOLEAN : mixer' = NewMixer(created)
  /\ UNCHANGED <<alive, data, inputPortID, pc, local, fault>>

DeviceStep == CloseDevice \/ RequestExit \/ JoinMixer \/ OpenDevice

----------------------------------------------------------------------------
StreamStep(s) ==
  \/ OpenStream(s) \/ ClaimIndex(s) \/ RegisterPort(s) \/ SetMask(s)
  \/ StartWrite(s) \/ FetchPort(s) \/ FillRing(s)
  \/ CloseStream(s) \/ FreePort(s) \/ ClearMask(s) \/ ReleaseIndex(s)

MixerStep ==
  \/ BeginThread \/ ClearExit \/ EndThread
  \/ MixerLock("idle", "reading") \/ MixerFetch("reading", "read")
  \/ MixerRead \/ MixerUnlock("reading", "waiting")
  \/ MixerLock("waiting", "mixing") \/ MixerFetch("mixing", "mix")
  \/ MixerMix \/ MixerUnlock("mixing", "idle")

Next ==
  /\ fault = "none"
  /\ (\E s \in Streams : StreamStep(s)) \/ MixerStep \/ DeviceStep

Spec == Init /\ [][Next]_vars

\* The threads run.  The lock is free most of the time: the mixer thread lets
\* go of it before it waits for the output, a close holds it briefly; so who
\* waits for it gets it.  A close that has begun goes on, of a stream or of the
\* device.  Nothing obliges anyone to open, to write or to begin a close.
Fairness ==
  /\ SF_vars(fault = "none" /\ MixerStep)
  /\ WF_vars(fault = "none" /\ (RequestExit \/ JoinMixer))
  /\ \A s \in Streams :
       /\ WF_vars(fault = "none" /\ (FetchPort(s) \/ FillRing(s)))
       /\ WF_vars(fault = "none" /\ (ClearMask(s) \/ ReleaseIndex(s)))
       /\ SF_vars(fault = "none" /\ FreePort(s))

FairSpec == Spec /\ Fairness

----------------------------------------------------------------------------
Units == Streams \X (1..MaxUnits)

PortRecords ==
  [ring : Seq(Units), data : Seq(Units), data_valid : BOOLEAN, first_read : BOOLEAN,
   ID : Ports \cup {Unassigned}]

PCs == {"closed", "open", "writing", "filling"} \cup Opening \cup Closing
MixerPCs == {"begin", "begun", "idle", "reading", "read", "waiting", "mixing", "mix",
             "ended"}

\* Every variable keeps its type; a port number is an index of in_ports or -1.
TypeOK ==
  /\ in_ports \in [Ports -> Streams \cup {NULL}]
  /\ inportsMasks \subseteq Ports /\ inportsAvailMasks \subseteq Ports
  /\ alive \subseteq Streams
  /\ port \in [Streams -> PortRecords]
  /\ inputPortID \in [Streams -> Ports \cup {Unassigned}]
  /\ pc \in [Streams -> PCs]
  /\ local \in [Streams -> [index : 0..NInports \cup {Unassigned}, mask : SUBSET Ports,
                            in_port : Streams \cup {NULL}, todo : 0..MaxUnits]]
  /\ written \in [Streams -> 0..MaxUnits]
  /\ mixed \in [Streams -> Seq(Units)]
  /\ lock \in Streams \cup {None, Mixer}
  /\ mixer \in [at : MixerPCs, masks : SUBSET Ports, in_port : Streams \cup {NULL}]
  /\ life \in [device : {"open", "exiting", "joining", "closed"},
               mixing_enable : BOOLEAN, exit_thread : BOOLEAN]
  /\ fault \in {"none", "freed", "index"}

\* No thread ever uses a port that was freed: neither the mixer thread, which
\* holds port pointers across steps of the unlocked init and write calls, nor
\* a writer, nor a second delete (amlAudioMixer.c:170, 198-204, 263, 752).
NothingFreedIsUsed == fault # "freed"

\* The stream is open for writing, with its own port.
Plays(s) == pc[s] \in {"open", "writing", "filling"} /\ inputPortID[s] # Unassigned

\* The three tables agree: a stream that plays is the only one at its index,
\* the mixer visits it, and no init can take it; and an index that no thread
\* works on is free in all three or in none, so none is ever lost.
TablesAgree ==
  /\ \A s \in Streams : Plays(s) =>
       LET i == inputPortID[s]
       IN  in_ports[i] = s /\ i \in inportsMasks /\ i \notin inportsAvailMasks
  /\ (\A s \in Streams : pc[s] \notin Opening \cup Closing) =>
       \A i \in Ports :
         /\ (i \in inportsAvailMasks) <=> (in_ports[i] = NULL)
         /\ (i \in inportsMasks) <=> (in_ports[i] # NULL)

\* What a stream wrote is mixed once, in order and without another stream's
\* data: the mix, the chunk that waits and the ring make up its units.
StreamIntact ==
  \A s \in Streams : Plays(s) =>
    mixed[s] \o port[s].data \o port[s].ring = [k \in 1..written[s] |-> Unit(s, k)]

\* An init takes an index that no other stream holds: "Returns the index of
\* the first available supported port" (amlAudioMixer.c:123).
IndexWasAvailable ==
  \A s, t \in Streams :
    /\ s # t /\ pc[s] = "registering"
    /\ pc[t] \in {"registering", "masking", "open", "writing", "filling"}
    => local[s].index \notin {local[t].index, inputPortID[t]}

\* A stream holds its port until the port is freed (amlAudioMixer.c:199).
Holds(s) == s \in alive /\ inputPortID[s] # Unassigned

Channels == INSTANCE PortChannels WITH
  held  <- [s \in Streams |-> IF Holds(s) THEN inputPortID[s] ELSE Unassigned],
  queue <- [s \in Streams |-> IF Holds(s) THEN port[s].data \o port[s].ring ELSE <<>>],
  sent  <- [s \in Streams |-> IF Holds(s) THEN written[s] ELSE 0]

\* The unlocked calls on masks, indices and rings amount to one private,
\* lossless, ordered channel for each stream.
ChannelsSpec == Channels!Spec

\* A write of a stream with a port returns: the ring is long enough to reach
\* the threshold, and the mixer thread keeps emptying it, if there is one.
WritesReturn ==
  \A s \in Streams :
    pc[s] = "writing" /\ inputPortID[s] # Unassigned ~> pc[s] = "open" \/ mixer.at = "ended"

\* "block exit" (amlAudioMixer.c:1442): the join of the mixer thread returns,
\* whenever the exit comes, but for the moment in which a thread that has seen
\* mixing_enable has not cleared exit_thread yet (1332-1333).  An exit that
\* falls there is lost, and the close of the device hangs.
ExitTaken ==
  life.device = "joining" /\ life.exit_thread /\ mixer.at # "begun" ~> life.device = "closed"
=============================================================================
