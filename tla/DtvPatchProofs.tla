---------------------------- MODULE DtvPatchProofs ----------------------------
(***************************************************************************)
(* Theorems about DtvPatch for any number of paths, any capacity of the    *)
(* package list and any bounds on demuxes, commands and packages: the      *)
(* input thread reads open demuxes only, a package has one owner, the      *)
(* packages of a path stay in order, and the threads match the decoder's   *)
(* state.  They hold whether or not a second is enough for the threads     *)
(* (SlowThreads).                                                          *)
(***************************************************************************)
EXTENDS DtvPatch, TLAPS, SequenceTheorems, FiniteSetTheorems

----------------------------------------------------------------------------
(* The invariant. *)

\* A call that has begun has a path, and the one that sends has a command.
CallsMade ==
  /\ client.at \in {"send", "await", "destroy", "clear"} => client.path \in Paths
  /\ client.at = "send" => client.cmd \in Commands

\* Where the command thread is decides which threads there are.
ThreadsJoined ==
  /\ input.created <=> input.at \notin {"none", "failed"}
  /\ output.created <=> output.at \notin {"none", "failed"}
  /\ command = "create" => dtv_decoder_state = "RUNNING"
  /\ command \in {"exit_output", "done"} => input.at = "none"
  /\ command = "done" => output.at = "none"
  /\ client.at = "released" => command = "done"

\* The input thread is on a path, whose demux stays open while it holds the
\* lock to read it.
InputPlaced ==
  /\ input.at \in {"loop", "read", "add", "full"} => input.path \in Paths
  /\ input.at = "read" => demux_handle[input.path] # Closed
  /\ input.package # NULL => input.at \in {"read", "add", "full"}
  /\ input.at \in {"add", "full"} => input.package # NULL
  /\ output.package # NULL => output.at = "play"

\* A package that is kept is one that the demux of its path delivered.
Delivered(x) == x[2] <= count.es[x[1]]

KeptDelivered ==
  /\ \A p \in Paths : dtv_package[p] # NULL => dtv_package[p][1] = p /\ Delivered(dtv_package[p])
  /\ input.package # NULL => input.package[1] = input.path /\ Delivered(input.package)

\* x was delivered before y, if the same path delivered them.
Before(x, y) == x[1] = y[1] => x[2] < y[2]

\* A package that has left the input thread was delivered before the ones
\* that the input thread has.
Passed(x) ==
  /\ Delivered(x)
  /\ \A p \in Paths : dtv_package[p] # NULL => Before(x, dtv_package[p])
  /\ input.package # NULL => Before(x, input.package)

InSequence ==
  /\ \A i \in 1..Len(dtv_package_list) : Passed(dtv_package_list[i])
  /\ \A i, j \in 1..Len(dtv_package_list) :
       i < j => Before(dtv_package_list[i], dtv_package_list[j])
  /\ output.package # NULL =>
       /\ Passed(output.package)
       /\ \A i \in 1..Len(dtv_package_list) : Before(output.package, dtv_package_list[i])

\* The threads of a decoder that runs or is paused.
DecoderThreads ==
  dtv_decoder_state \in {"RUNNING", "PAUSE"} /\ command \in {"top", "get", "waiting", "woken"}
    => /\ input.created \/ input.at = "failed"
       /\ output.created \/ output.at = "failed"

DtvInv ==
  /\ TypeOK
  /\ InputDemuxOpen
  /\ CallsMade
  /\ ThreadsJoined
  /\ DecoderThreads
  /\ InputPlaced
  /\ KeptDelivered
  /\ InSequence

----------------------------------------------------------------------------
(* The types, one by one. *)

ClientState == [at : {"idle", "send", "await", "destroy", "clear", "join", "released"},
                path : Paths \cup {NoPath}, cmd : Commands \cup {"CLOSE", "none"}]

CommandAt == {"top", "get", "waiting", "woken", "create", "stop_input", "stop_output",
              "stopped", "exit_input", "exit_output", "done"}

InputAt == {"none", "failed", "init", "loop", "read", "add", "full", "flush", "ended"}

InputState == [at : InputAt, path : Paths \cup {NoPath}, package : Packages \cup {NULL},
               created : BOOLEAN, exit : BOOLEAN]

OutputAt == {"none", "failed", "open", "loop", "play", "ended"}

OutputState == [at : OutputAt, package : Packages \cup {NULL}, created : BOOLEAN,
                exit : BOOLEAN]

Counts == [opens : 0..MaxOpens, cmds : 0..MaxCmds, es : [Paths -> 0..MaxEs]]

\* TypeOK, with the types named.
LEMMA Typed ==
  ASSUME TypeOK
  PROVE  /\ demux_handle \in [Paths -> 0..MaxOpens] /\ patch_handle \in 0..MaxOpens
         /\ dtv_package \in [Paths -> Packages \cup {NULL}]
         /\ demux_index_working \in Paths
         /\ dtv_cmd_list \in Seq(Commands)
         /\ dtv_decoder_state \in {"INIT", "START", "RUNNING", "PAUSE"}
         /\ cmd_process_thread_exit \in BOOLEAN /\ dtv_aml_out \in BOOLEAN
         /\ dtv_package_list \in Seq(Packages) /\ Len(dtv_package_list) <= MaxCount
         /\ session \in [Paths -> {"closed", "open", "started", "paused"}]
         /\ client \in ClientState
         /\ command \in CommandAt
         /\ input \in InputState
         /\ output \in OutputState
         /\ count \in Counts
         /\ fault \in {"none", "closed", "stale", "null"}
BY DEF TypeOK, ClientState, CommandAt, InputState, InputAt, OutputState, OutputAt, Counts

\* The same of the state a step leads to.
LEMMA TypedAgain ==
  ASSUME demux_handle' \in [Paths -> 0..MaxOpens], patch_handle' \in 0..MaxOpens,
         dtv_package' \in [Paths -> Packages \cup {NULL}],
         demux_index_working' \in Paths,
         dtv_cmd_list' \in Seq(Commands),
         dtv_decoder_state' \in {"INIT", "START", "RUNNING", "PAUSE"},
         cmd_process_thread_exit' \in BOOLEAN, dtv_aml_out' \in BOOLEAN,
         dtv_package_list' \in Seq(Packages), Len(dtv_package_list') <= MaxCount,
         session' \in [Paths -> {"closed", "open", "started", "paused"}],
         client' \in ClientState,
         command' \in CommandAt,
         input' \in InputState,
         output' \in OutputState,
         count' \in Counts,
         fault' \in {"none", "closed", "stale", "null"}
  PROVE  TypeOK'
BY DEF TypeOK, ClientState, CommandAt, InputState, InputAt, OutputState, OutputAt, Counts

\* The fields of the records.
LEMMA InputFields ==
  ASSUME NEW r \in InputState
  PROVE  /\ r.at \in InputAt /\ r.path \in Paths \cup {NoPath}
         /\ r.package \in Packages \cup {NULL} /\ r.created \in BOOLEAN /\ r.exit \in BOOLEAN
BY DEF InputState

\* The fields of the output thread's record.
LEMMA OutputFields ==
  ASSUME NEW r \in OutputState
  PROVE  /\ r.at \in OutputAt /\ r.package \in Packages \cup {NULL}
         /\ r.created \in BOOLEAN /\ r.exit \in BOOLEAN
BY DEF OutputState

\* The fields of the client's record.
LEMMA ClientFields ==
  ASSUME NEW r \in ClientState
  PROVE  /\ r.at \in {"idle", "send", "await", "destroy", "clear", "join", "released"}
         /\ r.path \in Paths \cup {NoPath} /\ r.cmd \in Commands \cup {"CLOSE", "none"}
BY DEF ClientState

\* The fields of the counters.
LEMMA CountFields ==
  ASSUME NEW r \in Counts
  PROVE  r.opens \in 0..MaxOpens /\ r.cmds \in 0..MaxCmds /\ r.es \in [Paths -> 0..MaxEs]
BY DEF Counts

\* A package is a path and a number, and not NULL.
LEMMA PackageFacts ==
  /\ NULL \notin Packages
  /\ \A x \in Packages : x[1] \in Paths /\ x[2] \in 1..MaxEs /\ x[2] \in Nat
  /\ \A p \in Paths, n \in 1..MaxEs : /\ <<p, n>> \in Packages
                                      /\ <<p, n>>[1] = p /\ <<p, n>>[2] = n
BY DtvAssumption DEF Packages

\* The least of the greater paths, or the first one: a path in any case.
LEMMA NextPathIsPath ==
  ASSUME NEW p \in Paths
  PROVE  NextPath(p) \in Paths
<1>1. CASE \E q \in Paths : q > p
  <2> DEFINE Above == {q \in Paths : q > p}
  <2>1. Above \subseteq Nat /\ Above # {}
    BY <1>1, DtvAssumption
  <2>2. PICK q \in Above : \A r \in Above : ~(<<r, q>> \in OpToRel(<, Nat))
    BY <2>1, NatLessThanWellFounded, WFMin, Zenon
  <2>3. \A r \in Above : q <= r
    <3> TAKE r \in Above
    <3>1. ~(r < q)
      BY <2>1, <2>2, Zenon DEF OpToRel
    <3> QED
      BY <2>1, <3>1
  <2>4. q \in Paths /\ q > p /\ \A r \in Paths : r > p => q <= r
    BY <2>3
  <2>5. (CHOOSE x \in Paths : x > p /\ \A r \in Paths : r > p => x <= r) \in Paths
    BY <2>4, Zenon
  <2> QED
    BY <1>1, <2>5, Zenon DEF NextPath
<1>2. CASE ~\E q \in Paths : q > p
  BY <1>2, DtvAssumption, Zenon DEF NextPath
<1> QED
  BY <1>1, <1>2

----------------------------------------------------------------------------
(* The packages. *)

\* No package is new, and none goes to the list or out of it but all at once.
\* What the input thread keeps it had in hand, and the other way round.
PackagesFewer ==
  /\ dtv_package_list' \in {dtv_package_list, <<>>}
  /\ output.package' \in {output.package, NULL}
  /\ \A p \in Paths : \/ dtv_package'[p] \in {dtv_package[p], NULL}
                      \/ p = input.path /\ dtv_package'[p] = input.package
  /\ \/ input'.package \in {input.package, NULL}
     \/ input'.package = dtv_package[input.path] /\ input.path \in Paths
  /\ input'.package # NULL => input'.path = input.path
  /\ count'.es = count.es

\* Such a step keeps the packages where they were delivered, and in sequence.
LEMMA FewerKept ==
  ASSUME TypeOK, KeptDelivered, InSequence, PackagesFewer
  PROVE  KeptDelivered' /\ InSequence'
<1>1. KeptDelivered'
  BY DEF KeptDelivered, Delivered, PackagesFewer
<1>2. CASE dtv_package_list' = dtv_package_list
  <2>1. \A i \in 1..Len(dtv_package_list) : Passed(dtv_package_list[i])'
    BY <1>2 DEF InSequence, PackagesFewer, Passed, Delivered, Before
  <2>2. output'.package # NULL => Passed(output.package)'
    BY <1>2 DEF InSequence, PackagesFewer, Passed, Delivered, Before
  <2> QED
    BY <1>1, <1>2, <2>1, <2>2 DEF InSequence, PackagesFewer, Before
<1>3. CASE dtv_package_list' = <<>>
  <2>1. 1..Len(dtv_package_list') = {}
    BY <1>3
  <2>2. output'.package # NULL => Passed(output.package)'
    BY <1>3 DEF InSequence, PackagesFewer, Passed, Delivered, Before
  <2> QED
    BY <1>1, <2>1, <2>2 DEF InSequence
<1> QED
  BY <1>1, <1>2, <1>3 DEF PackagesFewer

----------------------------------------------------------------------------
(* The client. *)

\* What a step starts from.
LEMMA Facts ==
  ASSUME DtvInv
  PROVE  /\ TypeOK /\ CallsMade /\ ThreadsJoined /\ DecoderThreads /\ InputPlaced
         /\ KeptDelivered /\ InSequence /\ InputDemuxOpen
         /\ demux_handle \in [Paths -> 0..MaxOpens] /\ patch_handle \in 0..MaxOpens
         /\ dtv_package \in [Paths -> Packages \cup {NULL}]
         /\ demux_index_working \in Paths
         /\ dtv_package_list \in Seq(Packages) /\ Len(dtv_package_list) <= MaxCount
         /\ session \in [Paths -> {"closed", "open", "started", "paused"}]
         /\ client \in ClientState /\ client.path \in Paths \cup {NoPath}
         /\ input \in InputState /\ input.at \in InputAt
         /\ input.package \in Packages \cup {NULL}
         /\ input.created \in BOOLEAN /\ input.exit \in BOOLEAN
         /\ output \in OutputState /\ output.at \in OutputAt
         /\ output.package \in Packages \cup {NULL}
         /\ output.created \in BOOLEAN /\ output.exit \in BOOLEAN
         /\ count \in Counts /\ count.opens \in 0..MaxOpens /\ count.cmds \in 0..MaxCmds
         /\ count.es \in [Paths -> 0..MaxEs]
BY Typed, InputFields, OutputFields, ClientFields, CountFields DEF DtvInv

\* The threads, their packages and the demuxes are left alone.
ThreadsKept ==
  UNCHANGED <<demux_handle, dtv_package, dtv_package_list, dtv_decoder_state, dtv_aml_out,
              input, output, fault>>

\* What is left for a call of the client to show when it leaves the threads
\* alone.
LEMMA ClientInv ==
  ASSUME DtvInv, TypeOK', ThreadsKept, count'.es = count.es, CallsMade',
         command' = command \/ (command = "waiting" /\ command' = "woken"),
         client'.at = "released" => command = "done"
  PROVE  DtvInv'
<1> USE Facts DEF ThreadsKept
<1>1. PackagesFewer
  BY DEF PackagesFewer
<1>2. KeptDelivered' /\ InSequence'
  BY <1>1, FewerKept
<1>3. ThreadsJoined' /\ DecoderThreads'
  BY DEF ThreadsJoined, DecoderThreads
<1>4. InputPlaced' /\ InputDemuxOpen'
  BY DEF InputPlaced, InputDemuxOpen
<1> QED
  BY <1>2, <1>3, <1>4 DEF DtvInv

\* The client asks for something.
LEMMA RequestInv ==
  ASSUME DtvInv, Request
  PROVE  DtvInv'
<1> USE Facts
<1>1. ASSUME NEW p \in Paths, OpenDemux(p)
      PROVE  DtvInv'
  <2>1. /\ count.opens + 1 \in 0..MaxOpens /\ count.opens + 1 # Closed
        /\ demux_handle' = [demux_handle EXCEPT ![p] = count.opens + 1]
        /\ count' = [count EXCEPT !.opens = count.opens + 1]
        /\ session' = [session EXCEPT ![p] = "open"]
        /\ UNCHANGED <<patch_handle, dtv_package, demux_index_working, dtv_cmd_list,
                       dtv_decoder_state, cmd_process_thread_exit, dtv_package_list,
                       dtv_aml_out, client, command, input, output, fault>>
    <3>1. count.opens < MaxOpens
      BY <1>1 DEF OpenDemux
    <3>2. count.opens + 1 \in 0..MaxOpens /\ count.opens + 1 # Closed
      <4>1. PICK n \in 0..MaxOpens : n = count.opens
        OBVIOUS
      <4>2. n < MaxOpens /\ MaxOpens \in Nat
        BY <3>1, <4>1, DtvAssumption
      <4>3. n + 1 \in 0..MaxOpens /\ n + 1 # 0
        BY <4>2
      <4> QED
        BY <4>1, <4>3 DEF Closed
    <3>3. After("OPEN") = "open"
      BY DEF After
    <3> QED
      BY <1>1, <3>2, <3>3 DEF OpenDemux
  <2>2. count' \in Counts /\ count'.es = count.es
    BY <2>1 DEF Counts
  <2>3. TypeOK'
    BY <2>1, <2>2, Typed, TypedAgain
  <2>4. PackagesFewer
    BY <2>1, <2>2 DEF PackagesFewer
  <2>5. KeptDelivered' /\ InSequence'
    BY <2>4, FewerKept
  <2>6. CallsMade' /\ ThreadsJoined' /\ DecoderThreads' /\ InputDemuxOpen'
    BY <2>1 DEF CallsMade, ThreadsJoined, DecoderThreads, InputDemuxOpen
  <2>7. InputPlaced'
    BY <2>1 DEF InputPlaced
  <2> QED
    BY <2>3, <2>5, <2>6, <2>7 DEF DtvInv
<1>2. ASSUME NEW p \in Paths, StartClose(p)
      PROVE  DtvInv'
  <2>1. /\ client' = [at |-> "await", path |-> p, cmd |-> "CLOSE"]
        /\ session' = [session EXCEPT ![p] = "closed"]
        /\ UNCHANGED <<handles, dtv_package, demux_index_working, dtv_cmd_list,
                       dtv_decoder_state, cmd_process_thread_exit, dtv_package_list,
                       dtv_aml_out, command, input, output, count, fault>>
    BY <1>2 DEF StartClose, After
  <2>2. client' \in ClientState /\ client'.at = "await" /\ client'.path = p
    BY <2>1 DEF ClientState
  <2>3. TypeOK'
    BY <2>1, <2>2, Typed, TypedAgain DEF handles
  <2> QED
    BY <2>1, <2>2, <2>3, ClientInv DEF CallsMade, ThreadsKept, handles
<1>3. ASSUME NEW p \in Paths, NEW cmd \in {"START", "PAUSE", "RESUME", "STOP"}, Send(p, cmd)
      PROVE  DtvInv'
  <2>1. /\ client' = [at |-> "send", path |-> p, cmd |-> cmd]
        /\ session' = [session EXCEPT ![p] = After(cmd)]
        /\ After(cmd) \in {"started", "paused", "open"}
        /\ count' = [count EXCEPT !.cmds = count.cmds + 1] /\ count.cmds + 1 \in 0..MaxCmds
        /\ UNCHANGED <<handles, dtv_package, demux_index_working, dtv_cmd_list,
                       dtv_decoder_state, cmd_process_thread_exit, dtv_package_list,
                       dtv_aml_out, command, input, output, fault>>
    <3>1. count.cmds < MaxCmds
      BY <1>3 DEF Send
    <3>2. count.cmds + 1 \in 0..MaxCmds
      <4>1. PICK n \in 0..MaxCmds : n = count.cmds
        OBVIOUS
      <4>2. n < MaxCmds /\ MaxCmds \in Nat
        BY <3>1, <4>1, DtvAssumption
      <4>3. n + 1 \in 0..MaxCmds /\ n + 1 # 0
        BY <4>2
      <4> QED
        BY <4>1, <4>3
    <3>3. After(cmd) \in {"started", "paused", "open"}
      BY DEF After
    <3> QED
      BY <1>3, <3>2, <3>3 DEF Send
  <2>2. client' \in ClientState /\ client'.at = "send" /\ client'.path = p /\ client'.cmd = cmd
    BY <2>1 DEF ClientState, Commands
  <2>3. count' \in Counts /\ count'.es = count.es
    BY <2>1 DEF Counts
  <2>4. TypeOK'
    BY <2>1, <2>2, <2>3, Typed, TypedAgain DEF handles
  <2>5. CallsMade'
    BY <2>2 DEF CallsMade, Commands
  <2> QED
    BY <2>1, <2>2, <2>3, <2>4, <2>5, ClientInv DEF ThreadsKept, handles
<1>4. ASSUME ReleasePatch
      PROVE  DtvInv'
  <2>1. /\ cmd_process_thread_exit' = TRUE
        /\ command' = command \/ (command = "waiting" /\ command' = "woken")
        /\ client' = [client EXCEPT !.at = "join"]
        /\ UNCHANGED <<handles, dtv_package, demux_index_working, dtv_cmd_list,
                       dtv_decoder_state, dtv_package_list, dtv_aml_out, session, input,
                       output, count, fault>>
    BY <1>4 DEF ReleasePatch
  <2>2. client' \in ClientState /\ client'.at = "join"
    BY <2>1 DEF ClientState
  <2>3. command' \in CommandAt
    BY <2>1, Typed DEF CommandAt
  <2>4. TypeOK'
    BY <2>1, <2>2, <2>3, Typed, TypedAgain DEF handles
  <2> QED
    BY <2>1, <2>2, <2>4, ClientInv DEF CallsMade, ThreadsKept, handles
<1> QED
  BY <1>1, <1>2, <1>3, <1>4 DEF Request

\* The client's call goes on.
LEMMA ProceedInv ==
  ASSUME DtvInv, Proceed
  PROVE  DtvInv'
<1> USE Facts
<1>1. CASE AddCmd
  <2>1. client.at = "send" /\ client.path \in Paths /\ client.cmd \in Commands
    BY <1>1 DEF AddCmd, CallsMade
  <2>2. /\ demux_index_working' \in Paths /\ patch_handle' \in 0..MaxOpens
        /\ dtv_cmd_list' \in {dtv_cmd_list, Append(dtv_cmd_list, client.cmd)}
        /\ command' = command \/ (command = "waiting" /\ command' = "woken")
        /\ client' = [client EXCEPT !.at = "idle"]
        /\ UNCHANGED <<demux_handle, dtv_package, dtv_decoder_state, cmd_process_thread_exit,
                       dtv_package_list, dtv_aml_out, session, input, output, count, fault>>
    BY <1>1, <2>1 DEF AddCmd
  <2>3. client' \in ClientState /\ client'.at = "idle"
    BY <2>2 DEF ClientState
  <2>4. dtv_cmd_list' \in Seq(Commands)
    <3>1. PICK l \in Seq(Commands) : l = dtv_cmd_list
      BY Typed
    <3>2. Append(l, client.cmd) \in Seq(Commands)
      BY <2>1, AppendProperties
    <3> QED
      BY <2>2, <3>1, <3>2
  <2>5. command' \in CommandAt
    BY <2>2, Typed DEF CommandAt
  <2>6. TypeOK'
    BY <2>2, <2>3, <2>4, <2>5, Typed, TypedAgain
  <2> QED
    BY <2>2, <2>3, <2>6, ClientInv DEF CallsMade, ThreadsKept
<1>2. CASE WaitForThreads
  <2>1. /\ client' = [client EXCEPT !.at = "destroy"] /\ client.at = "await"
        /\ UNCHANGED <<handles, dtv_package, demux_index_working, dtv_cmd_list,
                       dtv_decoder_state, cmd_process_thread_exit, dtv_package_list,
                       dtv_aml_out, session, command, input, output, count, fault>>
    BY <1>2 DEF WaitForThreads
  <2>2. client' \in ClientState /\ client'.at = "destroy" /\ client'.path = client.path
    BY <2>1 DEF ClientState
  <2>3. TypeOK'
    BY <2>1, <2>2, Typed, TypedAgain DEF handles
  <2> QED
    BY <2>1, <2>2, <2>3, ClientInv DEF CallsMade, ThreadsKept, handles
<1>3. CASE DestroyDemux
  <2>1. /\ client' = [client EXCEPT !.at = "clear"] /\ client.at = "destroy"
        /\ client.path \in Paths /\ input.at \notin {"read", "add"}
        /\ demux_handle' = [demux_handle EXCEPT ![client.path] = Closed]
        /\ UNCHANGED <<patch_handle, dtv_package, demux_index_working, dtv_cmd_list,
                       dtv_decoder_state, cmd_process_thread_exit, dtv_package_list,
                       dtv_aml_out, session, command, input, output, count, fault>>
    BY <1>3 DEF DestroyDemux, CallsMade, DtvLockFree
  <2>2. client' \in ClientState /\ client'.at = "clear" /\ client'.path = client.path
    BY <2>1 DEF ClientState
  <2>3. demux_handle' \in [Paths -> 0..MaxOpens]
    BY <2>1, DtvAssumption DEF Closed
  <2>4. TypeOK'
    BY <2>1, <2>2, <2>3, Typed, TypedAgain
  <2>5. PackagesFewer
    BY <2>1 DEF PackagesFewer
  <2>6. KeptDelivered' /\ InSequence'
    BY <2>5, FewerKept
  <2>7. CallsMade' /\ ThreadsJoined' /\ DecoderThreads' /\ InputDemuxOpen' /\ InputPlaced'
    BY <2>1, <2>2 DEF CallsMade, ThreadsJoined, DecoderThreads, InputDemuxOpen, InputPlaced
  <2> QED
    BY <2>4, <2>6, <2>7 DEF DtvInv
<1>4. CASE ClearDemuxInfo
  <2>1. /\ client' = [client EXCEPT !.at = "idle"]
        /\ client.path \in Paths
        /\ dtv_package' = [dtv_package EXCEPT ![client.path] = NULL]
        /\ UNCHANGED <<handles, demux_index_working, dtv_cmd_list, dtv_decoder_state,
                       cmd_process_thread_exit, dtv_package_list, dtv_aml_out, session,
                       command, input, output, count, fault>>
    BY <1>4 DEF ClearDemuxInfo, CallsMade
  <2>2. client' \in ClientState /\ client'.at = "idle"
    BY <2>1 DEF ClientState
  <2>3. TypeOK'
    BY <2>1, <2>2, Typed, TypedAgain DEF handles
  <2>4. PackagesFewer
    BY <2>1 DEF PackagesFewer
  <2>5. KeptDelivered' /\ InSequence'
    BY <2>4, FewerKept
  <2>6. CallsMade' /\ ThreadsJoined' /\ DecoderThreads' /\ InputDemuxOpen' /\ InputPlaced'
    BY <2>1, <2>2
       DEF CallsMade, ThreadsJoined, DecoderThreads, InputDemuxOpen, InputPlaced, handles
  <2> QED
    BY <2>3, <2>5, <2>6 DEF DtvInv
<1>5. CASE JoinCommandThread
  <2>1. /\ client' = [client EXCEPT !.at = "released"] /\ command = "done"
        /\ UNCHANGED <<handles, dtv_package, demux_index_working, dtv_cmd_list,
                       dtv_decoder_state, cmd_process_thread_exit, dtv_package_list,
                       dtv_aml_out, session, command, input, output, count, fault>>
    BY <1>5 DEF JoinCommandThread
  <2>2. client' \in ClientState /\ client'.at = "released"
    BY <2>1 DEF ClientState
  <2>3. TypeOK'
    BY <2>1, <2>2, Typed, TypedAgain DEF handles
  <2> QED
    BY <2>1, <2>2, <2>3, ClientInv DEF CallsMade, ThreadsKept, handles
<1> QED
  BY <1>1, <1>2, <1>3, <1>4, <1>5 DEF Proceed

----------------------------------------------------------------------------
(* The command thread. *)

\* The steps that only take a command or wait for one: neither thread is
\* created or joined.
CommandKeeps ==
  UNCHANGED <<demux_handle, dtv_package, demux_index_working, cmd_process_thread_exit,
              dtv_aml_out, session, client, input, output, count>>

\* What is left to show when the command thread takes a command or drops it:
\* the packages may be flushed, and no thread changes.
LEMMA TakeInv ==
  ASSUME DtvInv, CommandKeeps, patch_handle' \in 0..MaxOpens,
         dtv_cmd_list' \in Seq(Commands), dtv_package_list' \in {dtv_package_list, <<>>},
         dtv_decoder_state' \in {"INIT", "START", "RUNNING", "PAUSE"},
         command' \in CommandAt \ {"exit_output", "done"}, command # "done",
         fault' \in {fault, "stale", "null"},
         command' = "create" => dtv_decoder_state' = "RUNNING",
         dtv_decoder_state' \in {"RUNNING", "PAUSE"}
           /\ command' \in {"top", "get", "waiting", "woken"}
           => /\ dtv_decoder_state \in {"RUNNING", "PAUSE"}
              /\ command \in {"top", "get", "waiting", "woken"}
  PROVE  DtvInv'
<1> USE Facts DEF CommandKeeps
<1>1. dtv_package_list' \in Seq(Packages) /\ Len(dtv_package_list') <= MaxCount
  <2>1. <<>> \in Seq(Packages) /\ Len(<<>>) <= MaxCount
    BY DtvAssumption
  <2> QED
    BY <2>1
<1>2. fault' \in {"none", "closed", "stale", "null"} /\ InputDemuxOpen'
  BY Typed DEF InputDemuxOpen
<1>3. TypeOK'
  BY <1>1, <1>2, Typed, TypedAgain
<1>4. PackagesFewer
  BY DEF PackagesFewer
<1>5. KeptDelivered' /\ InSequence'
  BY <1>4, FewerKept
<1>6. CallsMade' /\ InputPlaced'
  BY DEF CallsMade, InputPlaced
<1>7. ThreadsJoined'
  BY DEF ThreadsJoined
<1>8. DecoderThreads'
  BY DEF DecoderThreads
<1> QED
  BY <1>2, <1>3, <1>5, <1>6, <1>7, <1>8 DEF DtvInv

\* A command that is taken leaves the list.
LEMMA Taken ==
  ASSUME TypeOK, NEW state, NEW cmd, Take(state, cmd)
  PROVE  /\ dtv_cmd_list' \in Seq(Commands)
         /\ command = "get" /\ dtv_decoder_state = state
<1>1. PICK l \in Seq(Commands) : l = dtv_cmd_list
  BY Typed
<1>2. l # <<>> /\ dtv_cmd_list' = Tail(l)
  BY <1>1 DEF Take
<1>3. Tail(l) \in Seq(Commands)
  BY <1>2, HeadTailProperties
<1> QED
  BY <1>2, <1>3 DEF Take

\* Each of the steps in which the command thread takes a command, waits or
\* wakes keeps the invariant.
LEMMA TakesInv ==
  ASSUME DtvInv,
         \/ CheckState \/ Wait \/ Wake \/ TakeStart \/ TakePause \/ TakeResume
         \/ TakeStop \/ TakeStopPaused \/ DropCommand \/ FinishStop
  PROVE  DtvInv'
<1> USE Facts
<1>0. WorkingHandle \in 0..MaxOpens /\ dtv_cmd_list \in Seq(Commands)
      /\ dtv_decoder_state \in {"INIT", "START", "RUNNING", "PAUSE"}
  BY Typed DEF WorkingHandle
<1>1. CASE CheckState
  <2>1. /\ command = "top" /\ command' \in {"exit_input", "top", "get"}
        /\ dtv_decoder_state' \in {"INIT", "START", "RUNNING", "PAUSE"}
        /\ dtv_decoder_state' \in {"RUNNING", "PAUSE"}
             => dtv_decoder_state' = dtv_decoder_state
        /\ UNCHANGED <<patch_handle, dtv_cmd_list, dtv_package_list, fault>>
        /\ CommandKeeps
    BY <1>0, <1>1 DEF CheckState, CommandKeeps, handles
  <2> QED
    BY <1>0, <2>1, TakeInv DEF CommandAt
<1>2. CASE Wait \/ Wake
  <2>1. /\ command' \in {"waiting", "top"} /\ command \in {"get", "woken"}
        /\ UNCHANGED <<patch_handle, dtv_cmd_list, dtv_package_list, dtv_decoder_state, fault>>
        /\ CommandKeeps
    BY <1>2 DEF Wait, Wake, CommandKeeps, handles
  <2> QED
    BY <1>0, <2>1, TakeInv DEF CommandAt
<1>3. CASE TakeStart
  <2>1. /\ command = "get" /\ command' = "create" /\ dtv_decoder_state' = "RUNNING"
        /\ dtv_cmd_list' \in Seq(Commands) /\ patch_handle' = patch_handle
        /\ dtv_package_list' \in {dtv_package_list, <<>>} /\ fault' \in {fault, "stale"}
        /\ CommandKeeps
    BY <1>3, Taken DEF TakeStart, CommandKeeps, handles
  <2> QED
    BY <2>1, TakeInv DEF CommandAt
<1>4. CASE TakePause \/ TakeResume
  <2>1. /\ command = "get" /\ command' = "top"
        /\ dtv_decoder_state' \in {"RUNNING", "PAUSE"}
        /\ dtv_decoder_state \in {"RUNNING", "PAUSE"}
        /\ dtv_cmd_list' \in Seq(Commands) /\ patch_handle' \in 0..MaxOpens
        /\ UNCHANGED <<dtv_package_list, fault>>
        /\ CommandKeeps
    BY <1>0, <1>4, Taken DEF TakePause, TakeResume, CommandKeeps, handles
  <2> QED
    BY <2>1, TakeInv DEF CommandAt
<1>5. CASE TakeStop
  <2>1. /\ command = "get" /\ command' \in {"stop_input", "stop_output"}
        /\ dtv_decoder_state' = dtv_decoder_state /\ patch_handle' = patch_handle
        /\ dtv_cmd_list' \in Seq(Commands) /\ fault' \in {fault, "null"}
        /\ dtv_package_list' = dtv_package_list
        /\ CommandKeeps
    BY <1>5, Taken DEF TakeStop, CommandKeeps, handles
  <2> QED
    BY <1>0, <2>1, TakeInv DEF CommandAt
<1>6. CASE TakeStopPaused
  <2>1. /\ command = "get" /\ command' = "top" /\ dtv_decoder_state' = "INIT"
        /\ dtv_cmd_list' \in Seq(Commands) /\ patch_handle' \in 0..MaxOpens
        /\ UNCHANGED <<dtv_package_list, fault>>
        /\ CommandKeeps
    BY <1>0, <1>6, Taken DEF TakeStopPaused, CommandKeeps
  <2> QED
    BY <2>1, TakeInv DEF CommandAt
<1>7. CASE DropCommand
  <2>1. /\ command = "get" /\ command' = "top"
        /\ dtv_cmd_list' \in Seq(Commands)
        /\ UNCHANGED <<dtv_package_list, fault, dtv_decoder_state, patch_handle>>
        /\ CommandKeeps
    BY <1>7, Taken DEF DropCommand, CommandKeeps, handles
  <2> QED
    BY <1>0, <2>1, TakeInv DEF CommandAt
<1>8. CASE FinishStop
  <2>1. /\ command = "stopped" /\ command' = "top" /\ dtv_decoder_state' = "INIT"
        /\ patch_handle' \in 0..MaxOpens /\ dtv_package_list' = <<>>
        /\ UNCHANGED <<dtv_cmd_list, fault>>
        /\ CommandKeeps
    BY <1>0, <1>8 DEF FinishStop, CommandKeeps
  <2> QED
    BY <1>0, <2>1, TakeInv DEF CommandAt
<1> QED
  BY <1>1, <1>2, <1>3, <1>4, <1>5, <1>6, <1>7, <1>8

\* A thread is created, asked to exit or joined: its package and its path, if
\* it has any, are left alone.
ThreadsChange ==
  /\ UNCHANGED <<handles, dtv_package, demux_index_working, dtv_cmd_list, dtv_decoder_state,
                 cmd_process_thread_exit, dtv_package_list, dtv_aml_out, session, client,
                 count, fault>>
  /\ input' \in InputState /\ output' \in OutputState /\ command' \in CommandAt
  /\ input'.package = input.package /\ input'.path = input.path
  /\ input'.at = input.at \/ (input'.at \in {"none", "failed", "init"} /\ input.package = NULL)
  /\ output'.package = output.package
  /\ \/ output'.at = output.at
     \/ output'.at \in {"none", "failed", "open"} /\ output.package = NULL
  /\ input'.created <=> input'.at \notin {"none", "failed"}
  /\ output'.created <=> output'.at \notin {"none", "failed"}

\* What is left to show when the command thread starts, asks or joins a
\* thread.
LEMMA ThreadInv ==
  ASSUME DtvInv, ThreadsChange, command # "done", command' # "create",
         command' \in {"exit_output", "done"} => input'.at = "none",
         command' = "done" => output'.at = "none",
         DecoderThreads'
  PROVE  DtvInv'
<1> USE Facts DEF ThreadsChange
<1>1. TypeOK'
  BY Typed, TypedAgain DEF handles
<1>2. PackagesFewer
  BY DEF PackagesFewer
<1>3. KeptDelivered' /\ InSequence'
  BY <1>2, FewerKept
<1>4. CallsMade' /\ InputDemuxOpen'
  BY DEF CallsMade, InputDemuxOpen
<1>5. InputPlaced'
  BY DEF InputPlaced, handles
<1>6. ThreadsJoined'
  BY DEF ThreadsJoined
<1> QED
  BY <1>1, <1>3, <1>4, <1>5, <1>6 DEF DtvInv

\* A thread that has not begun, or has ended, has no package.
LEMMA NoPackage ==
  ASSUME DtvInv
  PROVE  /\ input.at \in {"none", "failed", "init", "loop", "flush", "ended"}
              => input.package = NULL
         /\ output.at \in {"none", "failed", "open", "loop", "ended"} => output.package = NULL
         /\ ~input.created => input.at \in {"none", "failed"}
         /\ ~output.created => output.at \in {"none", "failed"}
BY DEF DtvInv, InputPlaced, ThreadsJoined

\* create_dtv_input_stream_thread() and create_dtv_output_stream_thread() keep
\* the invariant.
LEMMA CreateInv ==
  ASSUME DtvInv, CreateThreads
  PROVE  DtvInv'
<1> USE Facts
<1>1. /\ command = "create" /\ command' = "top"
      /\ UNCHANGED <<handles, dtv_package, demux_index_working, dtv_cmd_list,
                     dtv_decoder_state, cmd_process_thread_exit, dtv_package_list,
                     dtv_aml_out, session, client, count, fault>>
  BY DEF CreateThreads
<1>2. /\ input' \in InputState /\ input'.package = input.package /\ input'.path = input.path
      /\ input'.created <=> input'.at # "failed"
      /\ input'.at # "none"
      /\ \/ input'.at = input.at
         \/ input'.at \in {"init", "failed"} /\ input.package = NULL
  <2>1. CASE input.created
    BY <2>1 DEF CreateThreads, ThreadsJoined
  <2>2. CASE ~input.created
    <3>1. PICK at \in {"init", "failed"} :
            input' = [input EXCEPT !.at = at, !.created = at # "failed", !.exit = FALSE]
      BY <2>2 DEF CreateThreads
    <3>2. input.package = NULL
      BY <2>2, NoPackage
    <3> QED
      BY <3>1, <3>2 DEF InputState, InputAt
  <2> QED
    BY <2>1, <2>2
<1>3. /\ output' \in OutputState /\ output'.package = output.package
      /\ output'.created <=> output'.at # "failed"
      /\ output'.at # "none"
      /\ \/ output'.at = output.at
         \/ output'.at \in {"open", "failed"} /\ output.package = NULL
  <2>1. CASE output.created
    BY <2>1 DEF CreateThreads, ThreadsJoined
  <2>2. CASE ~output.created
    <3>1. PICK at \in {"open", "failed"} :
            output' = [output EXCEPT !.at = at, !.created = at # "failed", !.exit = FALSE]
      BY <2>2 DEF CreateThreads
    <3>2. output.package = NULL
      BY <2>2, NoPackage
    <3> QED
      BY <3>1, <3>2 DEF OutputState, OutputAt
  <2> QED
    BY <2>1, <2>2
<1>4. ThreadsChange /\ DecoderThreads'
  BY <1>1, <1>2, <1>3 DEF ThreadsChange, DecoderThreads, CommandAt
<1> QED
  BY <1>1, <1>4, ThreadInv

\* Telling a thread to exit keeps the invariant.
LEMMA AskInv ==
  ASSUME DtvInv,
         \/ AskInput("stop_input") \/ AskInput("exit_input")
         \/ AskOutput("stop_output") \/ AskOutput("exit_output")
  PROVE  DtvInv'
<1> USE Facts
<1>1. /\ command \in {"stop_input", "exit_input", "stop_output", "exit_output"}
      /\ command' = command
      /\ UNCHANGED <<handles, dtv_package, demux_index_working, dtv_cmd_list,
                     dtv_decoder_state, cmd_process_thread_exit, dtv_package_list,
                     dtv_aml_out, session, client, count, fault>>
      /\ input' = input \/ input' = [input EXCEPT !.exit = TRUE]
      /\ output' = output \/ output' = [output EXCEPT !.exit = TRUE]
  BY DEF AskInput, AskOutput
<1>2. /\ input' \in InputState /\ input'.created = input.created /\ input'.at = input.at
      /\ input'.package = input.package /\ input'.path = input.path
  BY <1>1 DEF InputState
<1>3. /\ output' \in OutputState /\ output'.created = output.created
      /\ output'.at = output.at /\ output'.package = output.package
  BY <1>1 DEF OutputState
<1>4. ThreadsChange
  BY <1>1, <1>2, <1>3 DEF ThreadsChange, ThreadsJoined, CommandAt
<1> QED
  BY <1>1, <1>2, <1>3, <1>4, ThreadInv DEF ThreadsJoined, DecoderThreads

\* Joining a thread keeps the invariant: one that ended holds no package.
LEMMA JoinInv ==
  ASSUME DtvInv,
         \/ JoinInput("stop_input", "stop_output") \/ JoinInput("exit_input", "exit_output")
         \/ JoinOutput("stop_output", "stopped") \/ JoinOutput("exit_output", "done")
  PROVE  DtvInv'
<1> USE Facts
<1>1. CASE JoinInput("stop_input", "stop_output") \/ JoinInput("exit_input", "exit_output")
  <2>1. /\ command \in {"stop_input", "exit_input"}
        /\ command' \in {"stop_output", "exit_output"}
        /\ UNCHANGED <<handles, dtv_package, demux_index_working, dtv_cmd_list,
                       dtv_decoder_state, cmd_process_thread_exit, dtv_package_list,
                       dtv_aml_out, session, client, output, count, fault>>
        /\ input' = [input EXCEPT !.at = "none", !.created = FALSE]
        /\ input.created => input.at = "ended"
    BY <1>1 DEF JoinInput
  <2>2. input.package = NULL
    BY <2>1, NoPackage
  <2>3. /\ input' \in InputState /\ input'.created = FALSE /\ input'.at = "none"
        /\ input'.package = input.package /\ input'.path = input.path
    BY <2>1 DEF InputState, InputAt
  <2>4. ThreadsChange /\ DecoderThreads'
    BY <2>1, <2>2, <2>3 DEF ThreadsChange, ThreadsJoined, CommandAt, DecoderThreads
  <2> QED
    BY <2>1, <2>3, <2>4, ThreadInv
<1>2. CASE JoinOutput("stop_output", "stopped") \/ JoinOutput("exit_output", "done")
  <2>1. /\ command \in {"stop_output", "exit_output"}
        /\ command' \in {"stopped", "done"} /\ (command' = "done" => command = "exit_output")
        /\ UNCHANGED <<handles, dtv_package, demux_index_working, dtv_cmd_list,
                       dtv_decoder_state, cmd_process_thread_exit, dtv_package_list,
                       dtv_aml_out, session, client, input, count, fault>>
        /\ output' = [output EXCEPT !.at = "none", !.created = FALSE]
        /\ output.created => output.at = "ended"
    BY <1>2 DEF JoinOutput
  <2>2. output.package = NULL
    BY <2>1, NoPackage
  <2>3. /\ output' \in OutputState /\ output'.created = FALSE /\ output'.at = "none"
        /\ output'.package = output.package
    BY <2>1 DEF OutputState, OutputAt
  <2>4. ThreadsChange /\ DecoderThreads'
    BY <2>1, <2>2, <2>3 DEF ThreadsChange, ThreadsJoined, CommandAt, DecoderThreads
  <2> QED
    BY <2>1, <2>3, <2>4, ThreadInv DEF ThreadsJoined
<1> QED
  BY <1>1, <1>2

\* The command thread keeps the invariant.
LEMMA CommandStepInv ==
  ASSUME DtvInv, CommandStep
  PROVE  DtvInv'
BY TakesInv, CreateInv, AskInv, JoinInv DEF CommandStep

----------------------------------------------------------------------------
(* The input thread. *)

\* What the input thread leaves alone.
InputKeeps ==
  /\ UNCHANGED <<handles, demux_index_working, dtv_cmd_list, dtv_decoder_state,
                 cmd_process_thread_exit, dtv_aml_out, session, client, command, output, fault>>
  /\ input' \in InputState /\ input'.created = input.created
  /\ {input.at, input'.at} \cap {"none", "failed"} = {}

\* What is left for each of its steps to show.
LEMMA InputInv ==
  ASSUME DtvInv, InputKeeps, count' \in Counts,
         dtv_package' \in [Paths -> Packages \cup {NULL}],
         dtv_package_list' \in Seq(Packages), Len(dtv_package_list') <= MaxCount,
         InputPlaced', KeptDelivered', InSequence'
  PROVE  DtvInv'
<1> USE Facts DEF InputKeeps
<1>1. TypeOK'
  BY Typed, TypedAgain DEF handles
<1>2. CallsMade' /\ ThreadsJoined' /\ DecoderThreads' /\ InputDemuxOpen'
  BY DEF CallsMade, ThreadsJoined, DecoderThreads, InputDemuxOpen
<1> QED
  BY <1>1, <1>2 DEF DtvInv

\* The steps in which no package appears or joins the list.
LEMMA InputFewerInv ==
  ASSUME DtvInv, InputKeeps, PackagesFewer, count' = count,
         dtv_package' \in [Paths -> Packages \cup {NULL}], InputPlaced'
  PROVE  DtvInv'
<1> USE Facts
<1>1. KeptDelivered' /\ InSequence'
  BY FewerKept
<1>2. dtv_package_list' \in Seq(Packages) /\ Len(dtv_package_list') <= MaxCount
  <2>1. <<>> \in Seq(Packages) /\ Len(<<>>) <= MaxCount
    BY DtvAssumption
  <2> QED
    BY <2>1 DEF PackagesFewer
<1> QED
  BY <1>1, <1>2, InputInv

\* The visit of a path ends.
LEMMA LeavesState ==
  ASSUME DtvInv, input.at \in {"loop", "read", "add"}
  PROVE  /\ input.path \in Paths /\ Leaves(input.path) \in InputState
         /\ Leaves(input.path).at = "loop" /\ Leaves(input.path).package = NULL
         /\ Leaves(input.path).path \in Paths
         /\ Leaves(input.path).created = input.created
<1>1. input.path \in Paths /\ input \in InputState
  BY Facts DEF InputPlaced
<1>2. NextPath(input.path) \in Paths
  BY <1>1, NextPathIsPath
<1> QED
  BY <1>1, <1>2 DEF Leaves, InputState, InputAt

\* The demux that is read is open, so no fault is raised.
LEMMA ReadsOpenDemux ==
  ASSUME DtvInv, input.at = "read",
         fault' = IF demux_handle[input.path] = Closed THEN "closed" ELSE fault
  PROVE  fault' = fault
BY Facts DEF InputPlaced

\* The package that the demux delivers is later than all that left the input
\* thread, and than the one the path may have kept.
LEMMA ReadPackageInv ==
  ASSUME DtvInv, ReadPackage
  PROVE  DtvInv'
<1> USE Facts
<1>1. PICK p \in Paths : p = input.path
  BY DEF ReadPackage, InputPlaced
<1>2. PICK n \in 1..MaxEs : n = count.es[p] + 1
  <2>1. PICK e \in 0..MaxEs : e = count.es[p]
    OBVIOUS
  <2>2. e < MaxEs /\ MaxEs \in Nat
    BY <1>1, <2>1, DtvAssumption DEF ReadPackage
  <2> QED
    BY <2>1, <2>2
<1>3. PICK x \in Packages : x = <<p, n>> /\ x[1] = p /\ x[2] = n
  BY PackageFacts
<1>4. /\ input.at = "read" /\ input.package = NULL
      /\ input' = [input EXCEPT !.package = x]
      /\ dtv_package' = [dtv_package EXCEPT ![p] = x]
      /\ count' = [count EXCEPT !.es = [count.es EXCEPT ![p] = n]]
      /\ UNCHANGED <<handles, demux_index_working, dtv_cmd_list, dtv_decoder_state,
                     cmd_process_thread_exit, dtv_package_list, dtv_aml_out, session, client,
                     command, output>>
  BY <1>1, <1>2, <1>3 DEF ReadPackage
<1>5. fault' = fault
  BY ReadsOpenDemux DEF ReadPackage
<1>6. /\ input' \in InputState /\ input'.created = input.created /\ input'.at = "read"
      /\ input'.path = p /\ input'.package = x
  BY <1>1, <1>4 DEF InputState
<1>7. /\ count' \in Counts /\ count'.es[p] = n /\ count.es[p] = n - 1
      /\ \A q \in Paths : q # p => count'.es[q] = count.es[q]
  <2>1. PICK e \in [Paths -> 0..MaxEs] : e = count.es
    OBVIOUS
  <2>2. PICK f \in [Paths -> 0..MaxEs] : f = [e EXCEPT ![p] = n]
    <3>1. n \in 0..MaxEs
      BY DtvAssumption
    <3>2. [e EXCEPT ![p] = n] \in [Paths -> 0..MaxEs]
      BY <3>1
    <3> QED
      BY <3>2, Zenon
  <2>3. f[p] = n /\ \A q \in Paths : q # p => f[q] = e[q]
    BY <2>2
  <2>4. e[p] = n - 1
    <3>1. e[p] \in 0..MaxEs /\ n = e[p] + 1
      BY <1>2, <2>1
    <3> QED
      BY <3>1
  <2>5. count' \in Counts /\ count'.es = f
    BY <1>4, <2>1, <2>2 DEF Counts
  <2> QED
    BY <2>1, <2>3, <2>4, <2>5
<1>8. InputKeeps /\ dtv_package' \in [Paths -> Packages \cup {NULL}]
  BY <1>4, <1>5, <1>6 DEF InputKeeps
<1>9. InputPlaced'
  BY <1>1, <1>4, <1>6 DEF InputPlaced, handles
<1>10. KeptDelivered'
  <2>1. ASSUME NEW q \in Paths, dtv_package'[q] # NULL
        PROVE  dtv_package'[q][1] = q /\ Delivered(dtv_package[q])'
    <3>1. CASE q = p
      BY <1>3, <1>4, <1>7, <3>1 DEF Delivered
    <3>2. CASE q # p
      BY <1>4, <1>7, <2>1, <3>2 DEF KeptDelivered, Delivered
    <3> QED
      BY <3>1, <3>2
  <2> QED
    BY <1>3, <1>6, <1>7, <2>1 DEF KeptDelivered, Delivered
<1>11. ASSUME NEW y \in Packages, Passed(y)
       PROVE  /\ y[2] <= count'.es[y[1]]
              /\ \A q \in Paths : dtv_package'[q] # NULL => Before(y, dtv_package'[q])
              /\ Before(y, x)
  <2>1. y[1] \in Paths /\ y[2] \in Nat /\ count.es[y[1]] \in Nat /\ count'.es[y[1]] \in Nat
    <3>1. y[1] \in Paths /\ y[2] \in Nat
      BY PackageFacts
    <3>2. count'.es[y[1]] \in 0..MaxEs /\ count.es[y[1]] \in 0..MaxEs
      BY <1>7, <3>1, CountFields
    <3> QED
      BY <3>1, <3>2
  <2>2. y[2] <= count'.es[y[1]]
    <3>1. y[2] <= count.es[y[1]]
      BY <1>11 DEF Passed, Delivered
    <3>2. CASE y[1] = p
      <4>1. PICK k \in Nat : k = y[2]
        BY <2>1
      <4>2. k <= n - 1 /\ n \in Nat
        BY <1>7, <3>1, <3>2, <4>1
      <4>3. k <= n
        BY <4>2
      <4> QED
        BY <1>7, <3>2, <4>1, <4>3
    <3>3. CASE y[1] # p
      BY <1>7, <2>1, <3>1, <3>3
    <3> QED
      BY <3>2, <3>3
  <2>3. Before(y, x)
    BY <1>3, <1>7, <1>11, <2>1 DEF Passed, Delivered, Before
  <2>4. \A q \in Paths : dtv_package'[q] # NULL => Before(y, dtv_package'[q])
    BY <1>4, <1>11, <2>3 DEF Passed
  <2> QED
    BY <2>2, <2>3, <2>4
<1>12. InSequence'
  <2>1. \A i \in 1..Len(dtv_package_list) : dtv_package_list[i] \in Packages
    OBVIOUS
  <2>2. \A i \in 1..Len(dtv_package_list) : Passed(dtv_package_list[i])'
    BY <1>4, <1>6, <1>11, <2>1 DEF InSequence, Passed, Delivered
  <2>3. output.package # NULL => Passed(output.package)'
    BY <1>4, <1>6, <1>11 DEF InSequence, Passed, Delivered
  <2> QED
    BY <1>4, <2>2, <2>3 DEF InSequence
<1> QED
  BY <1>4, <1>7, <1>8, <1>9, <1>10, <1>12, InputInv

\* The package that joins the list goes behind earlier ones of its path, and
\* the input thread keeps no copy of it.
LEMMA AppendInv ==
  ASSUME DtvInv, AddPackage, ~input.exit, input.path = demux_index_working,
         Len(dtv_package_list) < MaxCount
  PROVE  DtvInv'
<1> USE Facts
<1>1. PICK p \in Paths : p = input.path
  BY DEF AddPackage, InputPlaced
<1>2. input.at = "add"
  BY DEF AddPackage
<1>3. PICK x \in Packages : x = input.package /\ x # NULL
  BY <1>2, PackageFacts DEF InputPlaced
<1>4. PICK l \in Seq(Packages) : l = dtv_package_list
  OBVIOUS
<1>5. PICK m \in Seq(Packages) : m = Append(l, x)
  BY AppendProperties
<1>6. /\ dtv_package_list' = m
      /\ dtv_package' = [dtv_package EXCEPT ![p] = NULL]
      /\ input' = Leaves(p)
      /\ UNCHANGED <<handles, demux_index_working, dtv_cmd_list, dtv_decoder_state,
                     cmd_process_thread_exit, dtv_aml_out, session, client, command, output,
                     count, fault>>
  BY <1>1, <1>3, <1>4, <1>5 DEF AddPackage
<1>7. /\ input' \in InputState /\ input'.at = "loop" /\ input'.package = NULL
      /\ input'.path \in Paths /\ input'.created = input.created
  BY <1>1, <1>2, <1>6, LeavesState
<1>8. /\ Len(m) = Len(l) + 1 /\ Len(l) \in Nat /\ m[Len(l) + 1] = x
      /\ \A i \in 1..Len(l) : m[i] = l[i]
  BY <1>5, AppendProperties, LenProperties
<1>9. Len(m) <= MaxCount
  BY <1>4, <1>8, DtvAssumption
<1>10. InputKeeps /\ dtv_package' \in [Paths -> Packages \cup {NULL}]
  BY <1>2, <1>6, <1>7 DEF InputKeeps
<1>11. InputPlaced'
  BY <1>6, <1>7 DEF InputPlaced
<1>12. KeptDelivered'
  BY <1>6, <1>7 DEF KeptDelivered, Delivered
<1>13. ASSUME NEW y, Delivered(y), \A q \in Paths : dtv_package[q] # NULL => Before(y, dtv_package[q])
       PROVE  /\ y[2] <= count'.es[y[1]]
              /\ \A q \in Paths : dtv_package'[q] # NULL => Before(y, dtv_package'[q])
  BY <1>6, <1>13 DEF Delivered
<1>14. \A q \in Paths : dtv_package'[q] # NULL => Before(x, dtv_package'[q])
  BY <1>1, <1>3, <1>6 DEF KeptDelivered, Before
<1>15. InSequence'
  <2>1. \A i \in 1..Len(l) : Passed(l[i]) /\ Before(l[i], x)
    BY <1>3, <1>4 DEF InSequence, Passed
  <2>2. ASSUME NEW i \in 1..Len(m)
        PROVE  Passed(m[i])'
    <3>1. CASE i \in 1..Len(l)
      BY <1>7, <1>8, <1>13, <2>1, <3>1 DEF Passed, Delivered
    <3>2. CASE i = Len(l) + 1
      BY <1>3, <1>6, <1>7, <1>8, <1>14, <3>2 DEF Passed, Delivered, KeptDelivered
    <3> QED
      BY <1>8, <3>1, <3>2
  <2>3. ASSUME NEW i \in 1..Len(m), NEW j \in 1..Len(m), i < j
        PROVE  Before(m[i], m[j])
    <3>1. i \in 1..Len(l)
      BY <1>8, <2>3
    <3>2. CASE j \in 1..Len(l)
      BY <1>4, <1>8, <2>3, <3>1, <3>2 DEF InSequence
    <3>3. CASE j = Len(l) + 1
      BY <1>8, <2>1, <3>1, <3>3
    <3> QED
      BY <1>8, <3>2, <3>3
  <2>4. output.package # NULL => /\ Passed(output.package)'
                                 /\ \A i \in 1..Len(m) : Before(output.package, m[i])
    <3> SUFFICES ASSUME output.package # NULL
                 PROVE  /\ Passed(output.package)'
                        /\ \A i \in 1..Len(m) : Before(output.package, m[i])
      OBVIOUS
    <3>1. /\ Passed(output.package) /\ Before(output.package, x)
          /\ \A i \in 1..Len(l) : Before(output.package, l[i])
      BY <1>3, <1>4 DEF InSequence, Passed
    <3>2. Passed(output.package)'
      BY <1>6, <1>7, <1>13, <3>1 DEF Passed, Delivered
    <3>3. PICK o : o = output.package
      OBVIOUS
    <3>4. ASSUME NEW i \in 1..Len(m)
          PROVE  Before(o, m[i])
      <4>1. i \in 1..Len(l) \/ i = Len(l) + 1
        BY <1>8
      <4> QED
        BY <1>8, <3>1, <3>3, <4>1
    <3>5. \A i \in 1..Len(m) : Before(output.package, m[i])
      BY <3>3, <3>4
    <3> QED
      BY <3>2, <3>5
  <2> QED
    BY <1>6, <2>2, <2>3, <2>4 DEF InSequence
<1> QED
  BY <1>6, <1>9, <1>10, <1>11, <1>12, <1>15, InputInv

\* The packages and the list stay, or are emptied.
LEMMA AddInv ==
  ASSUME DtvInv, AddPackage,
         input.exit \/ input.path # demux_index_working \/ ~(Len(dtv_package_list) < MaxCount)
  PROVE  DtvInv'
<1> USE Facts
<1>1. PICK p \in Paths : p = input.path
  BY DEF AddPackage, InputPlaced
<1>2. /\ input.at = "add" /\ input.package # NULL
      /\ UNCHANGED <<handles, demux_index_working, dtv_cmd_list, dtv_decoder_state,
                     cmd_process_thread_exit, dtv_aml_out, session, client, command, output,
                     count, fault, dtv_package_list, dtv_package>>
      /\ input' = Leaves(p) \/ input' = [input EXCEPT !.at = "full"]
  BY <1>1 DEF AddPackage, InputPlaced
<1>3. CASE input' = Leaves(p)
  <2>1. /\ input' \in InputState /\ input'.at = "loop" /\ input'.package = NULL
        /\ input'.path \in Paths /\ input'.created = input.created
    BY <1>1, <1>2, <1>3, LeavesState
  <2>2. InputKeeps /\ InputPlaced'
    BY <1>2, <2>1 DEF InputKeeps, InputPlaced
  <2>3. PackagesFewer
    BY <1>2, <2>1 DEF PackagesFewer
  <2> QED
    BY <1>2, <2>2, <2>3, InputFewerInv
<1>4. CASE input' = [input EXCEPT !.at = "full"]
  <2>1. /\ input' \in InputState /\ input'.at = "full" /\ input'.package = input.package
        /\ input'.path = p /\ input'.created = input.created
    BY <1>1, <1>4 DEF InputState, InputAt
  <2>2. InputKeeps /\ InputPlaced'
    BY <1>1, <1>2, <2>1 DEF InputKeeps, InputPlaced
  <2>3. PackagesFewer
    BY <1>1, <1>2, <2>1 DEF PackagesFewer
  <2> QED
    BY <1>2, <2>2, <2>3, InputFewerInv
<1> QED
  BY <1>2, <1>3, <1>4

\* A path is visited.
LEMMA VisitInv ==
  ASSUME DtvInv, VisitPath \/ ReadNothing \/ SortPackage
  PROVE  DtvInv'
<1> USE Facts
<1>1. PICK p \in Paths : p = input.path
  BY DEF VisitPath, ReadNothing, SortPackage, InputPlaced
<1>2. /\ input.at \in {"loop", "read"}
      /\ UNCHANGED <<handles, demux_index_working, dtv_cmd_list, dtv_decoder_state,
                     cmd_process_thread_exit, dtv_package_list, dtv_aml_out, session, client,
                     command, output, count>>
  BY DEF VisitPath, ReadNothing, SortPackage
<1>3. fault' = fault
  BY ReadsOpenDemux DEF VisitPath, ReadNothing, SortPackage
<1>4. CASE /\ input' = Leaves(p)
           /\ \/ dtv_package' = [dtv_package EXCEPT ![p] = NULL]
              \/ dtv_package' = [dtv_package EXCEPT ![p] = input.package]
  <2>1. /\ input' \in InputState /\ input'.at = "loop" /\ input'.package = NULL
        /\ input'.path \in Paths /\ input'.created = input.created
    BY <1>1, <1>2, <1>4, LeavesState
  <2>2. InputKeeps /\ InputPlaced'
    BY <1>2, <1>3, <2>1 DEF InputKeeps, InputPlaced
  <2>3. dtv_package' \in [Paths -> Packages \cup {NULL}]
    BY <1>4
  <2>4. PackagesFewer
    BY <1>1, <1>2, <1>4, <2>1 DEF PackagesFewer
  <2> QED
    BY <1>2, <2>2, <2>3, <2>4, InputFewerInv
<1>5. CASE /\ dtv_package' = dtv_package /\ input.at = "loop" /\ demux_handle[p] # Closed
           /\ input' = [input EXCEPT !.at = "read", !.package = dtv_package[p]]
  <2>1. /\ input' \in InputState /\ input'.at = "read" /\ input'.package = dtv_package[p]
        /\ input'.path = p /\ input'.created = input.created
    BY <1>1, <1>5 DEF InputState, InputAt
  <2>2. InputKeeps /\ InputPlaced'
    BY <1>1, <1>2, <1>3, <1>5, <2>1 DEF InputKeeps, InputPlaced, handles
  <2>3. PackagesFewer
    BY <1>1, <1>2, <1>5, <2>1 DEF PackagesFewer
  <2> QED
    BY <1>2, <1>5, <2>2, <2>3, InputFewerInv
<1>6. CASE /\ dtv_package' = dtv_package /\ input.package # NULL
           /\ input' = [input EXCEPT !.at = "add"]
  <2>1. /\ input' \in InputState /\ input'.at = "add" /\ input'.package = input.package
        /\ input'.path = p /\ input'.created = input.created
    BY <1>1, <1>6 DEF InputState, InputAt
  <2>2. InputKeeps /\ InputPlaced'
    BY <1>1, <1>2, <1>3, <1>6, <2>1 DEF InputKeeps, InputPlaced
  <2>3. PackagesFewer
    BY <1>1, <1>2, <1>6, <2>1 DEF PackagesFewer
  <2> QED
    BY <1>2, <1>6, <2>2, <2>3, InputFewerInv
<1>7. CASE VisitPath
  BY <1>1, <1>4, <1>5, <1>7 DEF VisitPath
<1>8. CASE ReadNothing
  BY <1>1, <1>4, <1>8 DEF ReadNothing
<1>9. CASE SortPackage
  BY <1>1, <1>4, <1>6, <1>9 DEF SortPackage
<1> QED
  BY <1>7, <1>8, <1>9

\* The thread starts and ends.
LEMMA InputEndsInv ==
  ASSUME DtvInv, InputInit \/ RelockPath \/ FreeKept \/ FlushList
  PROVE  DtvInv'
<1> USE Facts
<1>1. /\ input.at \notin {"none", "failed"}
      /\ UNCHANGED <<handles, demux_index_working, dtv_cmd_list, dtv_decoder_state,
                     cmd_process_thread_exit, dtv_aml_out, session, client, command, output,
                     count, fault>>
      /\ dtv_package_list' \in {dtv_package_list, <<>>}
      /\ dtv_package' \in {dtv_package, [p \in Paths |-> NULL]}
  BY DEF InputInit, RelockPath, FreeKept, FlushList
<1>2. 0 \in Paths
  BY DtvAssumption
<1>3. /\ input' \in InputState /\ input'.created = input.created /\ input'.at \notin {"none", "failed"}
      /\ input'.package = input.package
      /\ input'.at \in {"loop", "add"} => input'.path \in Paths
      /\ input'.at \in {"loop", "add", "flush", "ended"}
      /\ input'.at = "add" <=> input.at = "full"
      /\ input.package # NULL => input'.path = input.path /\ input.at = "full"
  <2>1. CASE InputInit
    BY <1>2, <2>1 DEF InputInit, InputState, InputAt, InputPlaced
  <2>2. CASE RelockPath
    BY <2>2 DEF RelockPath, InputState, InputAt, InputPlaced
  <2>3. CASE FreeKept
    BY <2>3 DEF FreeKept, InputState, InputAt, InputPlaced
  <2>4. CASE FlushList
    BY <2>4 DEF FlushList, InputState, InputAt, InputPlaced
  <2> QED
    BY <2>1, <2>2, <2>3, <2>4
<1>4. InputKeeps
  BY <1>1, <1>3 DEF InputKeeps
<1>5. InputPlaced'
  BY <1>1, <1>3 DEF InputPlaced
<1>6. PackagesFewer
  BY <1>1, <1>3 DEF PackagesFewer
<1>7. dtv_package' \in [Paths -> Packages \cup {NULL}]
  BY <1>1
<1> QED
  BY <1>1, <1>4, <1>5, <1>6, <1>7, InputFewerInv

\* The input thread keeps the invariant.
LEMMA InputStepInv ==
  ASSUME DtvInv, InputStep
  PROVE  DtvInv'
<1>1. CASE AddPackage
  <2>1. Len(dtv_package_list) < MaxCount \/ ~(Len(dtv_package_list) < MaxCount)
    OBVIOUS
  <2> QED
    BY <1>1, AppendInv, AddInv
<1> QED
  BY <1>1, ReadPackageInv, VisitInv, InputEndsInv DEF InputStep

----------------------------------------------------------------------------
(* The output thread. *)

\* What is left for each of its steps to show.
LEMMA OutputInv ==
  ASSUME DtvInv,
         UNCHANGED <<handles, dtv_package, demux_index_working, dtv_cmd_list, dtv_decoder_state,
                     cmd_process_thread_exit, session, client, command, input, count, fault>>,
         dtv_aml_out' \in BOOLEAN,
         dtv_package_list' \in Seq(Packages), Len(dtv_package_list') <= MaxCount,
         output' \in OutputState, output'.created = output.created,
         {output.at, output'.at} \cap {"none", "failed"} = {},
         output'.package # NULL => output'.at = "play",
         InSequence'
  PROVE  DtvInv'
<1> USE Facts
<1>1. TypeOK'
  BY Typed, TypedAgain DEF handles
<1>2. CallsMade' /\ ThreadsJoined' /\ DecoderThreads' /\ InputDemuxOpen'
  BY DEF CallsMade, ThreadsJoined, DecoderThreads, InputDemuxOpen
<1>3. InputPlaced'
  BY DEF InputPlaced, handles
<1>4. KeptDelivered'
  BY DEF KeptDelivered, Delivered
<1> QED
  BY <1>1, <1>2, <1>3, <1>4 DEF DtvInv

\* The package that goes to the output thread was the first of the list.
LEMMA GetPackageInv ==
  ASSUME DtvInv, GetPackage
  PROVE  DtvInv'
<1> USE Facts
<1>1. PICK l \in Seq(Packages) : l = dtv_package_list
  OBVIOUS
<1>2. l # <<>>
  BY <1>1 DEF GetPackage
<1>3. PICK m \in Seq(Packages) : m = Tail(l)
  BY <1>2, HeadTailProperties
<1>4. PICK x \in Packages : x = Head(l)
  BY <1>2, HeadTailProperties
<1>5. /\ Len(l) \in Nat /\ Len(l) >= 1 /\ Len(m) = Len(l) - 1 /\ x = l[1]
      /\ \A i \in 1..Len(m) : m[i] = l[i + 1]
  <2>1. Len(l) \in Nat /\ Len(l) >= 1
    BY <1>2, LenProperties, EmptySeq
  <2>2. Len(m) = Len(l) - 1 /\ x = l[1]
    BY <1>2, <1>3, <1>4, HeadTailProperties
  <2>3. \A i \in 1..Len(m) : m[i] = l[i + 1]
    BY <1>2, <1>3, HeadTailProperties
  <2> QED
    BY <2>1, <2>2, <2>3
<1>6. /\ output.at = "loop" /\ dtv_package_list' = m
      /\ output' = [output EXCEPT !.at = "play", !.package = x]
      /\ UNCHANGED <<handles, dtv_package, demux_index_working, dtv_cmd_list,
                     dtv_decoder_state, cmd_process_thread_exit, dtv_aml_out, session, client,
                     command, input, count, fault>>
  BY <1>1, <1>3, <1>4 DEF GetPackage
<1>7. /\ output' \in OutputState /\ output'.created = output.created
      /\ output'.at = "play" /\ output'.package = x
  BY <1>6 DEF OutputState, OutputAt
<1>8. Len(m) <= MaxCount
  <2>1. Len(l) <= MaxCount /\ MaxCount \in Nat
    BY <1>1, DtvAssumption
  <2> QED
    BY <1>5, <2>1
<1>9. ASSUME NEW i \in 1..Len(m)
      PROVE  i + 1 \in 1..Len(l) /\ m[i] = l[i + 1]
  BY <1>5
<1>10. 1 \in 1..Len(l)
  BY <1>5
<1>11. \A i \in 1..Len(l) : Passed(l[i])
  BY <1>1 DEF InSequence
<1>12. \A i, j \in 1..Len(l) : i < j => Before(l[i], l[j])
  BY <1>1 DEF InSequence
<1>13. ASSUME NEW y, Passed(y)
       PROVE  Passed(y)'
  BY <1>6, <1>13 DEF Passed, Delivered
<1>14. \A i \in 1..Len(m) : Passed(m[i])'
  BY <1>9, <1>11, <1>13
<1>15. ASSUME NEW i \in 1..Len(m), NEW j \in 1..Len(m), i < j
       PROVE  Before(m[i], m[j])
  <2>1. i + 1 < j + 1
    BY <1>15
  <2> QED
    BY <1>9, <1>12, <2>1
<1>16. \A i \in 1..Len(m) : Before(x, m[i])
  <2> TAKE i \in 1..Len(m)
  <2>1. 1 < i + 1
    OBVIOUS
  <2> QED
    BY <1>5, <1>9, <1>10, <1>12, <2>1
<1>17. Passed(x)'
  BY <1>5, <1>10, <1>11, <1>13
<1>18. Passed(output.package)'
  BY <1>7, <1>17 DEF Passed, Delivered
<1>19. InSequence'
  BY <1>6, <1>7, <1>14, <1>15, <1>16, <1>18 DEF InSequence
<1>20. dtv_aml_out' \in BOOLEAN
  BY <1>6, Typed
<1> QED
  BY <1>6, <1>7, <1>8, <1>19, <1>20, OutputInv

\* The output thread keeps the invariant.
LEMMA OutputStepInv ==
  ASSUME DtvInv, OutputStep
  PROVE  DtvInv'
<1> USE Facts
<1>1. CASE OpenStream \/ PlayPackage \/ CloseStream
  <2>1. /\ output.at \notin {"none", "failed"} /\ dtv_package_list' = dtv_package_list
        /\ UNCHANGED <<handles, dtv_package, demux_index_working, dtv_cmd_list,
                       dtv_decoder_state, cmd_process_thread_exit, session, client, command,
                       input, count, fault>>
    BY <1>1 DEF OpenStream, PlayPackage, CloseStream
  <2>2. dtv_aml_out' \in BOOLEAN
    BY <1>1, Typed DEF OpenStream, PlayPackage, CloseStream
  <2>3. /\ output' \in OutputState /\ output'.created = output.created
        /\ output'.at \in {"loop", "ended"} /\ output'.package = NULL
    <3>1. CASE OpenStream
      BY <3>1 DEF OpenStream, OutputState, OutputAt, InputPlaced
    <3>2. CASE PlayPackage
      BY <3>2 DEF PlayPackage, OutputState, OutputAt
    <3>3. CASE CloseStream
      BY <3>3 DEF CloseStream, OutputState, OutputAt, InputPlaced
    <3> QED
      BY <1>1, <3>1, <3>2, <3>3
  <2>4. PackagesFewer
    BY <2>1, <2>3 DEF PackagesFewer, InputPlaced
  <2>5. InSequence'
    BY <2>4, FewerKept
  <2> QED
    BY <2>1, <2>2, <2>3, <2>5, OutputInv
<1> QED
  BY <1>1, GetPackageInv DEF OutputStep

----------------------------------------------------------------------------
(* The system. *)

\* The initial states satisfy the invariant.
LEMMA InitInv ==
  ASSUME Init
  PROVE  DtvInv
<1> USE DtvAssumption
<1>1. <<>> \in Seq(Commands) /\ <<>> \in Seq(Packages) /\ Len(<<>>) = 0
  BY EmptySeq
<1>2. demux_handle \in [Paths -> 0..MaxOpens] /\ patch_handle \in 0..MaxOpens
  BY DEF Init, Closed
<1>3. client \in ClientState /\ client.at = "idle"
  BY DEF Init, ClientState
<1>4. /\ input \in InputState /\ input.at = "none" /\ input.package = NULL
      /\ input.created = FALSE
  BY DEF Init, InputState, InputAt
<1>5. /\ output \in OutputState /\ output.at = "none" /\ output.package = NULL
      /\ output.created = FALSE
  BY DEF Init, OutputState, OutputAt
<1>6. count \in Counts
  <2>1. [p \in Paths |-> 0] \in [Paths -> 0..MaxEs] /\ 0 \in 0..MaxOpens /\ 0 \in 0..MaxCmds
    OBVIOUS
  <2> QED
    BY <2>1 DEF Init, Counts
<1>7. dtv_package \in [Paths -> Packages \cup {NULL}] /\ \A p \in Paths : dtv_package[p] = NULL
  BY DEF Init
<1>8. TypeOK
  BY <1>1, <1>2, <1>3, <1>4, <1>5, <1>6, <1>7
     DEF Init, TypeOK, ClientState, InputState, InputAt, OutputState, OutputAt, Counts
<1>9. CallsMade /\ ThreadsJoined /\ DecoderThreads /\ InputDemuxOpen /\ InputPlaced
  BY <1>3, <1>4, <1>5
     DEF Init, CallsMade, ThreadsJoined, DecoderThreads, InputDemuxOpen, InputPlaced
<1>10. KeptDelivered
  BY <1>4, <1>7 DEF KeptDelivered
<1>11. InSequence
  <2>1. 1..Len(dtv_package_list) = {}
    BY <1>1 DEF Init
  <2> QED
    BY <1>5, <2>1 DEF InSequence
<1> QED
  BY <1>8, <1>9, <1>10, <1>11 DEF DtvInv

\* A step that changes nothing keeps the invariant.
LEMMA StutterInv ==
  ASSUME DtvInv, UNCHANGED vars
  PROVE  DtvInv'
<1>1. TypeOK'
  BY Facts DEF vars, handles, TypeOK
<1>2. CallsMade' /\ ThreadsJoined' /\ DecoderThreads' /\ InputDemuxOpen' /\ InputPlaced'
  BY Facts DEF vars, handles, CallsMade, ThreadsJoined, DecoderThreads, InputDemuxOpen,
               InputPlaced
<1>3. PackagesFewer
  BY DEF PackagesFewer, vars, InputPlaced
<1>4. KeptDelivered' /\ InSequence'
  BY <1>3, Facts, FewerKept
<1> QED
  BY <1>1, <1>2, <1>4 DEF DtvInv

\* Every step of the patch keeps the invariant.
LEMMA StepInv ==
  ASSUME DtvInv, [Next]_vars
  PROVE  DtvInv'
BY StutterInv, RequestInv, ProceedInv, CommandStepInv, InputStepInv, OutputStepInv DEF Next

\* The inductive invariant holds in every state of the patch.
THEOREM DtvInvariant == Spec => []DtvInv
BY InitInv, StepInv, PTL DEF Spec

\* Every variable keeps its type, and the list never holds more than MaxCount
\* packages (dtv_package_add()).
THEOREM DtvTypeOK == Spec => []TypeOK
<1>1. DtvInv => TypeOK
  BY DEF DtvInv
<1> QED
  BY <1>1, DtvInvariant, PTL

\* The input thread never reads a demux that a close has destroyed.
THEOREM DtvInputDemuxOpen == Spec => []InputDemuxOpen
<1>1. DtvInv => InputDemuxOpen
  BY DEF DtvInv
<1> QED
  BY <1>1, DtvInvariant, PTL

\* A decoder that runs or is paused has both threads, and a patch that is
\* freed has none.
THEOREM DtvThreadsMatchState == Spec => []ThreadsMatchState
<1>1. ASSUME DtvInv
      PROVE  ThreadsMatchState
  BY <1>1, Facts DEF ThreadsMatchState, ThreadsJoined, DecoderThreads
<1> QED
  BY <1>1, DtvInvariant, PTL

\* The packages that left the input thread, with the one being played in front,
\* are in sequence.
LEMMA QueueFacts ==
  ASSUME DtvInv
  PROVE  /\ Queue \in Seq(Packages)
         /\ \A i \in DOMAIN Queue : Passed(Queue[i])
         /\ \A i, j \in DOMAIN Queue : i < j => Before(Queue[i], Queue[j])
<1> USE Facts
<1>1. CASE output.package = NULL
  <2>1. Queue = dtv_package_list /\ DOMAIN dtv_package_list = 1..Len(dtv_package_list)
    BY <1>1, LenProperties DEF Queue
  <2> QED
    BY <2>1 DEF InSequence
<1>2. CASE output.package # NULL
  <2>1. PICK o \in Packages : o = output.package
    BY <1>2
  <2>2. PICK l \in Seq(Packages) : l = dtv_package_list
    OBVIOUS
  <2>3. PICK h \in Seq(Packages) : h = <<o>> /\ Len(h) = 1 /\ h[1] = o
    <3>1. <<o>> \in Seq(Packages) /\ Len(<<o>>) = 1 /\ <<o>>[1] = o
      OBVIOUS
    <3> QED
      BY <3>1, Zenon
  <2>4. PICK q \in Seq(Packages) : q = h \o l
    BY ConcatProperties
  <2>5. /\ Len(l) \in Nat /\ Len(q) = Len(l) + 1 /\ DOMAIN q = 1..Len(q) /\ q[1] = o
        /\ \A i \in 1..Len(q) : i # 1 => i - 1 \in 1..Len(l) /\ q[i] = l[i - 1]
    <3>1. Len(l) \in Nat /\ Len(q) = Len(h) + Len(l) /\ DOMAIN q = 1..Len(q)
      BY <2>4, ConcatProperties, LenProperties
    <3>2. \A i \in 1..Len(q) : q[i] = IF i <= Len(h) THEN h[i] ELSE l[i - Len(h)]
      BY <2>4, <3>1, ConcatProperties
    <3>3. Len(q) = 1 + Len(l)
      BY <2>3, <3>1
    <3>4. q[1] = o
      <4>1. 1 \in 1..Len(q) /\ 1 <= Len(h)
        BY <2>3, <3>1, <3>3
      <4>2. q[1] = h[1]
        BY <3>2, <4>1
      <4> QED
        BY <2>3, <4>2
    <3>5. ASSUME NEW i \in 1..Len(q), i # 1
          PROVE  i - 1 \in 1..Len(l) /\ q[i] = l[i - 1]
      BY <2>3, <3>1, <3>2, <3>3, <3>5
    <3> QED
      BY <3>1, <3>3, <3>4, <3>5
  <2>6. Queue = q
    BY <1>2, <2>1, <2>2, <2>3, <2>4 DEF Queue
  <2>7. /\ \A i \in 1..Len(l) : Passed(l[i]) /\ Before(o, l[i])
        /\ \A i, j \in 1..Len(l) : i < j => Before(l[i], l[j])
        /\ Passed(o)
    BY <1>2, <2>1, <2>2 DEF InSequence
  <2>8. \A i \in 1..Len(q) : Passed(q[i])
    BY <2>5, <2>7
  <2>9. ASSUME NEW i \in 1..Len(q), NEW j \in 1..Len(q), i < j
        PROVE  Before(q[i], q[j])
    <3>1. j # 1 /\ j - 1 \in 1..Len(l) /\ q[j] = l[j - 1]
      BY <2>5, <2>9
    <3>2. CASE i = 1
      BY <2>5, <2>7, <3>1, <3>2
    <3>3. CASE i # 1
      <4>1. i - 1 \in 1..Len(l) /\ q[i] = l[i - 1] /\ i - 1 < j - 1
        BY <2>5, <2>9, <3>3
      <4> QED
        BY <2>7, <3>1, <4>1
    <3> QED
      BY <3>2, <3>3
  <2>10. /\ q \in Seq(Packages) /\ \A i \in DOMAIN q : Passed(q[i])
         /\ \A i, j \in DOMAIN q : i < j => Before(q[i], q[j])
    BY <2>5, <2>8, <2>9
  <2> QED
    BY <2>6, <2>10
<1> QED
  BY <1>1, <1>2

\* A path's packages come out in the order in which its demux gave them.
THEOREM DtvPackagesInOrder == Spec => []PackagesInOrder
<1>1. ASSUME DtvInv
      PROVE  PackagesInOrder
  <2> USE Facts
  <2>1. PICK q \in Seq(Packages) : q = Queue
    BY <1>1, QueueFacts
  <2>2. \A i \in DOMAIN q : q[i] \in Packages /\ Passed(q[i])
    BY <1>1, <2>1, QueueFacts
  <2>3. \A i, j \in DOMAIN q : i < j => Before(q[i], q[j])
    BY <1>1, <2>1, QueueFacts
  <2>4. ASSUME NEW x \in Packages, NEW y \in Packages, Before(x, y), x[1] = y[1]
        PROVE  x[2] <= y[2]
    <3>1. PICK a \in Nat, b \in Nat : a = x[2] /\ b = y[2]
      BY PackageFacts
    <3>2. a < b
      BY <2>4, <3>1 DEF Before
    <3> QED
      BY <3>1, <3>2
  <2>5. \A i, j \in DOMAIN q : i < j /\ q[i][1] = q[j][1] => q[i][2] <= q[j][2]
    BY <2>2, <2>3, <2>4
  <2>6. ASSUME NEW i \in DOMAIN q, NEW p \in Paths, dtv_package[p] # NULL, q[i][1] = p
        PROVE  q[i][2] <= dtv_package[p][2]
    <3>1. dtv_package[p] \in Packages /\ dtv_package[p][1] = p
      BY <1>1, <2>6, Facts DEF KeptDelivered
    <3>2. Before(q[i], dtv_package[p])
      BY <2>2, <2>6 DEF Passed
    <3> QED
      BY <2>2, <2>4, <2>6, <3>1, <3>2
  <2> QED
    BY <2>1, <2>5, <2>6 DEF PackagesInOrder
<1> QED
  BY <1>1, DtvInvariant, PTL

\* A package has one owner: demux_info or the input thread, the list, or the
\* output thread.
THEOREM DtvPackagesOwned == Spec => []PackagesOwned
<1>1. ASSUME DtvInv
      PROVE  PackagesOwned
  <2>1. PICK q \in Seq(Packages) : q = Queue
    BY <1>1, QueueFacts
  <2>2. /\ \A i \in DOMAIN q : q[i] \in Packages /\ Passed(q[i]) /\ i \in Int
    <3>1. \A i \in DOMAIN q : q[i] \in Packages /\ Passed(q[i])
      BY <1>1, <2>1, QueueFacts
    <3>2. DOMAIN q = 1..Len(q) /\ Len(q) \in Nat
      BY LenProperties
    <3> QED
      BY <3>1, <3>2
  <2>3. \A i, j \in DOMAIN q : i < j => Before(q[i], q[j])
    BY <1>1, <2>1, QueueFacts
  <2>4. \A x \in Packages : ~Before(x, x)
    <3> TAKE x \in Packages
    <3>1. x[2] \in Nat
      BY PackageFacts
    <3> QED
      BY <3>1 DEF Before
  <2>5. ASSUME NEW i \in DOMAIN q, NEW j \in DOMAIN q, q[i] = q[j], i # j
        PROVE  FALSE
    <3>1. i < j \/ j < i
      BY <2>2, <2>5
    <3>2. Before(q[i], q[j]) \/ Before(q[j], q[i])
      BY <2>3, <3>1
    <3> QED
      BY <2>2, <2>4, <2>5, <3>2
  <2>6. ASSUME NEW i \in DOMAIN q
        PROVE  q[i] \notin {dtv_package[p] : p \in Paths} \cup {input.package}
    <3>1. q[i] \in Packages /\ q[i] # NULL /\ ~Before(q[i], q[i])
      BY <2>2, <2>4, PackageFacts
    <3>2. \A p \in Paths : q[i] # dtv_package[p]
      BY <2>2, <3>1 DEF Passed
    <3>3. q[i] # input.package
      BY <2>2, <3>1 DEF Passed
    <3> QED
      BY <3>2, <3>3
  <2> QED
    BY <2>1, <2>5, <2>6 DEF PackagesOwned
<1> QED
  BY <1>1, DtvInvariant, PTL
============================================================================
