------------------------------ MODULE DtvPatch ------------------------------
(***************************************************************************)
(* The DTV audio patch (input/dtv_patch.c, dtv_patch_utils.c) on a         *)
(* multi-demux product.  Four threads share it:                            *)
(*  - the client, the one thread on which AudioFlinger calls the HAL's     *)
(*    set_parameters and patch entry points (external: it serialises them),*)
(*    which opens demuxes, queues commands, closes demuxes and releases    *)
(*    the patch;                                                           *)
(*  - the command thread, which takes the commands and starts and joins    *)
(*    the other two;                                                       *)
(*  - the input thread, which visits the paths and moves their packages    *)
(*    into dtv_package_list, and keeps the last package of each path that  *)
(*    it cannot move in demux_info[path].dtv_package;                      *)
(*  - the output thread, which plays what is in the list.                  *)
(* dtv_cmd_process_mutex is held by the command thread from a command to   *)
(* the next wait, joins included.  dtv_lock is held by the input thread    *)
(* while it handles a path.  The list has its own lock: each call on it is *)
(* one access.  Associated (AD) audio is off.                              *)
(***************************************************************************)
EXTENDS Integers, Sequences, FiniteSets

CONSTANTS Paths,          \* the demux paths, DVB_DEMUX_SUPPORT_MAX_NUM of them
          MaxCount,       \* INPUT_PACKAGE_MAXCOUNT
          MaxOpens,       \* bound: demuxes opened
          MaxCmds,        \* bound: commands sent
          MaxEs,          \* bound: packages one demux path delivers
          SlowThreads,    \* TRUE: one second may be too short for the threads
          NULL

ASSUME DtvAssumption ==
  /\ Paths \subseteq Nat /\ IsFiniteSet(Paths) /\ 0 \in Paths
  /\ MaxCount \in Nat \ {0} /\ MaxOpens \in Nat /\ MaxCmds \in Nat /\ MaxEs \in Nat
  /\ SlowThreads \in BOOLEAN
  /\ NULL \notin Paths \X Nat

NoPath == -1        \* a thread that has no path yet
Closed == 0         \* a NULL demux handle; others are numbered as they open

VARIABLES
  demux_handle,             \* the demux open on each path
  dtv_package,              \* demux_info[path].dtv_package
  demux_index_working,      \* the path that plays
  patch_handle,             \* patch->demux_handle
  dtv_cmd_list,             \* the commands that wait
  dtv_decoder_state,
  cmd_process_thread_exit,
  dtv_package_list,
  dtv_aml_out,              \* whether the output stream is there
  session,                  \* what the client did with each path
  client,                   \* where the client's call is
  command,                  \* where the command thread is
  input,                    \* the input thread
  output,                   \* the output thread
  count,                    \* demuxes opened, commands sent, packages delivered
  fault                     \* "closed": the input thread used a closed demux;
                            \* "stale": the command thread did;
                            \* "null": it used a NULL stream

handles == <<demux_handle, patch_handle>>
vars == <<handles, dtv_package, demux_index_working, dtv_cmd_list, dtv_decoder_state,
          cmd_process_thread_exit, dtv_package_list, dtv_aml_out, session, client,
          command, input, output, count, fault>>

Init ==
  /\ demux_handle = [p \in Paths |-> Closed]
  /\ dtv_package = [p \in Paths |-> NULL]
  /\ demux_index_working = 0
  /\ patch_handle = Closed
  /\ dtv_cmd_list = <<>>
  /\ dtv_decoder_state = "INIT"
  /\ cmd_process_thread_exit = FALSE
  /\ dtv_package_list = <<>>
  /\ dtv_aml_out = FALSE
  /\ session = [p \in Paths |-> "closed"]
  /\ client = [at |-> "idle", path |-> NoPath, cmd |-> "none"]
  /\ command = "top"
  /\ input = [at |-> "none", path |-> NoPath, package |-> NULL, created |-> FALSE, exit |-> FALSE]
  /\ output = [at |-> "none", package |-> NULL, created |-> FALSE, exit |-> FALSE]
  /\ count = [opens |-> 0, cmds |-> 0, es |-> [p \in Paths |-> 0]]
  /\ fault = "none"

\* dtv_cmd_process_mutex and dtv_lock, as seen by the other threads.
CmdMutexFree == command \in {"top", "waiting", "woken", "exit_input", "exit_output", "done"}
DtvLockFree  == input.at \notin {"read", "add"}

\* "number of demux handle greater than 1 is pip case"
IsPipRun == Cardinality({p \in Paths : demux_handle[p] # Closed}) > 1

\* Mutation: the loop over the paths runs past the last one.
NextPath_PastEnd(p) == p + 1

NextPath(p) == IF \E q \in Paths : q > p
               THEN CHOOSE q \in Paths : q > p /\ \A r \in Paths : r > p => q <= r
               ELSE 0

----------------------------------------------------------------------------
(* The client: dtv_patch_handle_event() and release_dtv_patch_l(). *)

\* The framework opens a path before it starts it, stops it before it closes
\* it, and pauses and resumes only a started path (external).
Allowed(cmd) ==
  CASE cmd = "OPEN"   -> {"closed"}
    [] cmd = "START"  -> {"open"}
    [] cmd = "PAUSE"  -> {"started"}
    [] cmd = "RESUME" -> {"paused"}
    [] cmd = "STOP"   -> {"started", "paused"}
    [] cmd = "CLOSE"  -> {"open"}

After(cmd) ==
  CASE cmd \in {"START", "RESUME"} -> "started"
    [] cmd = "PAUSE"               -> "paused"
    [] cmd \in {"OPEN", "STOP"}    -> "open"
    [] cmd = "CLOSE"               -> "closed"

\* Open_Dmx_Audio() and what follows it.
OpenDemux(p) ==
  /\ client.at = "idle" /\ session[p] \in Allowed("OPEN")
  /\ count.opens < MaxOpens
  /\ count' = [count EXCEPT !.opens = @ + 1]
  /\ demux_handle' = [demux_handle EXCEPT ![p] = count.opens + 1]
  /\ session' = [session EXCEPT ![p] = After("OPEN")]
  /\ UNCHANGED <<patch_handle, dtv_package, demux_index_working, dtv_cmd_list, dtv_decoder_state,
                 cmd_process_thread_exit, dtv_package_list, dtv_aml_out, client,
                 command, input, output, fault>>

Send(p, cmd) ==
  /\ client.at = "idle" /\ session[p] \in Allowed(cmd)
  /\ count.cmds < MaxCmds
  /\ count' = [count EXCEPT !.cmds = @ + 1]
  /\ session' = [session EXCEPT ![p] = After(cmd)]
  /\ client' = [at |-> "send", path |-> p, cmd |-> cmd]
  /\ UNCHANGED <<handles, dtv_package, demux_index_working, dtv_cmd_list, dtv_decoder_state,
                 cmd_process_thread_exit, dtv_package_list, dtv_aml_out,
                 command, input, output, fault>>

\* Mutation: the waiting command thread is not signalled.
AddCmd_NoSignal ==
  LET p == client.path
      working == IF client.cmd = "START" THEN p ELSE demux_index_working
  IN  /\ client.at = "send" /\ CmdMutexFree
      /\ demux_index_working' = working
      /\ patch_handle' = IF client.cmd = "START" THEN demux_handle[p] ELSE patch_handle
      /\ dtv_cmd_list' = IF p = working THEN Append(dtv_cmd_list, client.cmd) ELSE dtv_cmd_list
      /\ command' = command
      /\ client' = [client EXCEPT !.at = "idle"]
      /\ UNCHANGED <<demux_handle, dtv_package, dtv_decoder_state, cmd_process_thread_exit,
                     dtv_package_list, dtv_aml_out, session, input, output, count, fault>>

\* A start takes effect on the patch at once, though the command thread may
\* still have commands for another path; a command for a path that does not
\* work is dropped.
AddCmd ==
  LET p == client.path
      working == IF client.cmd = "START" THEN p ELSE demux_index_working
  IN  /\ client.at = "send" /\ CmdMutexFree
      /\ demux_index_working' = working
      /\ patch_handle' = IF client.cmd = "START" THEN demux_handle[p] ELSE patch_handle
      /\ dtv_cmd_list' = IF p = working THEN Append(dtv_cmd_list, client.cmd) ELSE dtv_cmd_list
      /\ command' = IF p = working /\ command = "waiting" THEN "woken" ELSE command
      /\ client' = [client EXCEPT !.at = "idle"]
      /\ UNCHANGED <<demux_handle, dtv_package, dtv_decoder_state, cmd_process_thread_exit,
                     dtv_package_list, dtv_aml_out, session, input, output, count, fault>>

StartClose(p) ==
  /\ client.at = "idle" /\ session[p] \in Allowed("CLOSE")
  /\ session' = [session EXCEPT ![p] = After("CLOSE")]
  /\ client' = [at |-> "await", path |-> p, cmd |-> "CLOSE"]
  /\ UNCHANGED <<handles, dtv_package, demux_index_working, dtv_cmd_list, dtv_decoder_state,
                 cmd_process_thread_exit, dtv_package_list, dtv_aml_out,
                 command, input, output, count, fault>>

\* "wait stop done": the loop ends when neither thread is there, or after a
\* second, which unless SlowThreads is enough for every queued command.
WaitForThreads ==
  /\ client.at = "await"
  /\ \/ ~input.created /\ ~output.created
     \/ SlowThreads
     \/ dtv_cmd_list = <<>> /\ command = "waiting"
  /\ client' = [client EXCEPT !.at = "destroy"]
  /\ UNCHANGED <<handles, dtv_package, demux_index_working, dtv_cmd_list, dtv_decoder_state,
                 cmd_process_thread_exit, dtv_package_list, dtv_aml_out, session,
                 command, input, output, count, fault>>

\* Mutation: the demux is destroyed without dtv_lock.
DestroyDemux_Unlocked ==
  /\ client.at = "destroy"
  /\ demux_handle' = [demux_handle EXCEPT ![client.path] = Closed]
  /\ client' = [client EXCEPT !.at = "clear"]
  /\ UNCHANGED <<patch_handle, dtv_package, demux_index_working, dtv_cmd_list, dtv_decoder_state,
                 cmd_process_thread_exit, dtv_package_list, dtv_aml_out, session,
                 command, input, output, count, fault>>

DestroyDemux ==
  /\ client.at = "destroy" /\ DtvLockFree
  /\ demux_handle' = [demux_handle EXCEPT ![client.path] = Closed]
  /\ client' = [client EXCEPT !.at = "clear"]
  /\ UNCHANGED <<patch_handle, dtv_package, demux_index_working, dtv_cmd_list, dtv_decoder_state,
                 cmd_process_thread_exit, dtv_package_list, dtv_aml_out, session,
                 command, input, output, count, fault>>

\* memset(demux_info), after dtv_lock was released.
ClearDemuxInfo ==
  /\ client.at = "clear"
  /\ dtv_package' = [dtv_package EXCEPT ![client.path] = NULL]
  /\ client' = [client EXCEPT !.at = "idle"]
  /\ UNCHANGED <<handles, demux_index_working, dtv_cmd_list, dtv_decoder_state,
                 cmd_process_thread_exit, dtv_package_list, dtv_aml_out, session,
                 command, input, output, count, fault>>

\* release_dtv_patch_l() sets the flag and signals, both without the mutex.
ReleasePatch ==
  /\ client.at = "idle"
  /\ cmd_process_thread_exit' = TRUE
  /\ command' = IF command = "waiting" THEN "woken" ELSE command
  /\ client' = [client EXCEPT !.at = "join"]
  /\ UNCHANGED <<handles, dtv_package, demux_index_working, dtv_cmd_list, dtv_decoder_state,
                 dtv_package_list, dtv_aml_out, session, input, output, count, fault>>

JoinCommandThread ==
  /\ client.at = "join" /\ command = "done"
  /\ client' = [client EXCEPT !.at = "released"]
  /\ UNCHANGED <<handles, dtv_package, demux_index_working, dtv_cmd_list, dtv_decoder_state,
                 cmd_process_thread_exit, dtv_package_list, dtv_aml_out, session,
                 command, input, output, count, fault>>

----------------------------------------------------------------------------
(* The command thread: audio_dtv_patch_process_threadloop(). *)

\* The loop's condition, the mutex, and in every state but PAUSE the exit flag
\* once more.
CheckState ==
  LET init == ~cmd_process_thread_exit /\ dtv_decoder_state = "INIT"
  IN  /\ command = "top"
      /\ command' = IF cmd_process_thread_exit THEN "exit_input"
                    ELSE IF init THEN "top" ELSE "get"
      /\ dtv_decoder_state' = IF init THEN "START" ELSE dtv_decoder_state
      /\ UNCHANGED <<handles, dtv_package, demux_index_working, dtv_cmd_list,
                     cmd_process_thread_exit, dtv_package_list, dtv_aml_out, session, client,
                     input, output, count, fault>>

Wait ==
  /\ command = "get" /\ dtv_cmd_list = <<>>
  /\ command' = "waiting"
  /\ UNCHANGED <<handles, dtv_package, demux_index_working, dtv_cmd_list, dtv_decoder_state,
                 cmd_process_thread_exit, dtv_package_list, dtv_aml_out, session, client,
                 input, output, count, fault>>

\* pthread_cond_wait() returns with the mutex, which is unlocked at once.
Wake ==
  /\ command = "woken"
  /\ command' = "top"
  /\ UNCHANGED <<handles, dtv_package, demux_index_working, dtv_cmd_list, dtv_decoder_state,
                 cmd_process_thread_exit, dtv_package_list, dtv_aml_out, session, client,
                 input, output, count, fault>>

Take(state, cmd) ==
  /\ command = "get" /\ dtv_cmd_list # <<>>
  /\ dtv_decoder_state = state /\ Head(dtv_cmd_list) = cmd
  /\ dtv_cmd_list' = Tail(dtv_cmd_list)

\* patch->demux_handle is not looked up again: its demux may be closed.
TakeStart ==
  /\ Take("START", "START")
  /\ dtv_decoder_state' = "RUNNING"
  /\ fault' = IF patch_handle \in {Closed} \cup {demux_handle[p] : p \in Paths}
              THEN fault ELSE "stale"
  /\ dtv_package_list' = IF IsPipRun THEN dtv_package_list ELSE <<>>
  /\ command' = "create"
  /\ UNCHANGED <<handles, dtv_package, demux_index_working, cmd_process_thread_exit,
                 dtv_aml_out, session, client, input, output, count>>

\* create_dtv_input_stream_thread() and create_dtv_output_stream_thread(),
\* which do nothing for a thread that was not joined.  pthread_create() may
\* fail ("failed"); nobody looks at what the two functions return.
CreateThreads ==
  /\ command = "create"
  /\ \E at \in {"init", "failed"} :
       input' = IF input.created THEN input
                ELSE [input EXCEPT !.at = at, !.created = at # "failed", !.exit = FALSE]
  /\ \E at \in {"open", "failed"} :
       output' = IF output.created THEN output
                 ELSE [output EXCEPT !.at = at, !.created = at # "failed", !.exit = FALSE]
  /\ command' = "top"
  /\ UNCHANGED <<handles, dtv_package, demux_index_working, dtv_cmd_list, dtv_decoder_state,
                 cmd_process_thread_exit, dtv_package_list, dtv_aml_out, session, client,
                 count, fault>>

WorkingHandle == demux_handle[demux_index_working]

TakePause ==
  /\ Take("RUNNING", "PAUSE")
  /\ patch_handle' = WorkingHandle
  /\ dtv_decoder_state' = "PAUSE"
  /\ command' = "top"
  /\ UNCHANGED <<demux_handle, dtv_package, demux_index_working, cmd_process_thread_exit,
                 dtv_package_list, dtv_aml_out, session, client, input, output, count,
                 fault>>

TakeResume ==
  /\ Take("PAUSE", "RESUME")
  /\ dtv_decoder_state' = "RUNNING"
  /\ command' = "top"
  /\ UNCHANGED <<handles, dtv_package, demux_index_working, cmd_process_thread_exit,
                 dtv_package_list, dtv_aml_out, session, client, input, output, count,
                 fault>>

\* aml_out->fast_quit = true, whether or not the output stream was opened.
\* With more than one demux open the input thread goes on.
TakeStop ==
  /\ Take("RUNNING", "STOP")
  /\ fault' = IF dtv_aml_out THEN fault ELSE "null"
  /\ command' = IF IsPipRun THEN "stop_output" ELSE "stop_input"
  /\ UNCHANGED <<handles, dtv_package, demux_index_working, dtv_decoder_state,
                 cmd_process_thread_exit, dtv_package_list, dtv_aml_out, session, client,
                 input, output, count>>

\* A stop during a pause joins no thread.
TakeStopPaused ==
  /\ Take("PAUSE", "STOP")
  /\ patch_handle' = WorkingHandle
  /\ dtv_decoder_state' = "INIT"
  /\ command' = "top"
  /\ UNCHANGED <<demux_handle, dtv_package, demux_index_working, cmd_process_thread_exit,
                 dtv_package_list, dtv_aml_out, session, client, input, output, count,
                 fault>>

Expected == {<<"START", "START">>, <<"RUNNING", "PAUSE">>, <<"RUNNING", "STOP">>,
             <<"PAUSE", "RESUME">>, <<"PAUSE", "STOP">>}

\* "unsupport cmd"
DropCommand ==
  /\ \E cmd \in {"START", "PAUSE", "RESUME", "STOP"} :
       Take(dtv_decoder_state, cmd) /\ <<dtv_decoder_state, cmd>> \notin Expected
  /\ command' = "top"
  /\ UNCHANGED <<handles, dtv_package, demux_index_working, dtv_decoder_state,
                 cmd_process_thread_exit, dtv_package_list, dtv_aml_out, session, client,
                 input, output, count, fault>>

\* Mutation: the exit flag is not set before the join.
AskInput_NoFlag(from) ==
  /\ command = from /\ input.created /\ ~input.exit
  /\ UNCHANGED vars

\* release_dtv_input_stream_thread(): ask a thread that was created to exit,
\* then join it.
AskInput(from) ==
  /\ command = from /\ input.created /\ ~input.exit
  /\ input' = [input EXCEPT !.exit = TRUE]
  /\ UNCHANGED <<handles, dtv_package, demux_index_working, dtv_cmd_list, dtv_decoder_state,
                 cmd_process_thread_exit, dtv_package_list, dtv_aml_out, session, client,
                 command, output, count, fault>>

\* Mutation: the thread is not joined.
JoinInput_NoJoin(from, to) ==
  /\ command = from /\ (input.created => input.exit)
  /\ input' = [input EXCEPT !.created = FALSE]
  /\ command' = to
  /\ UNCHANGED <<handles, dtv_package, demux_index_working, dtv_cmd_list, dtv_decoder_state,
                 cmd_process_thread_exit, dtv_package_list, dtv_aml_out, session, client,
                 output, count, fault>>

JoinInput(from, to) ==
  /\ command = from /\ (input.created => input.exit /\ input.at = "ended")
  /\ input' = [input EXCEPT !.at = "none", !.created = FALSE]
  /\ command' = to
  /\ UNCHANGED <<handles, dtv_package, demux_index_working, dtv_cmd_list, dtv_decoder_state,
                 cmd_process_thread_exit, dtv_package_list, dtv_aml_out, session, client,
                 output, count, fault>>

\* release_dtv_output_stream_thread()
AskOutput(from) ==
  /\ command = from /\ output.created /\ ~output.exit
  /\ output' = [output EXCEPT !.exit = TRUE]
  /\ UNCHANGED <<handles, dtv_package, demux_index_working, dtv_cmd_list, dtv_decoder_state,
                 cmd_process_thread_exit, dtv_package_list, dtv_aml_out, session, client,
                 command, input, count, fault>>

JoinOutput(from, to) ==
  /\ command = from /\ (output.created => output.exit /\ output.at = "ended")
  /\ output' = [output EXCEPT !.at = "none", !.created = FALSE]
  /\ command' = to
  /\ UNCHANGED <<handles, dtv_package, demux_index_working, dtv_cmd_list, dtv_decoder_state,
                 cmd_process_thread_exit, dtv_package_list, dtv_aml_out, session, client,
                 input, count, fault>>

FinishStop ==
  /\ command = "stopped"
  /\ dtv_package_list' = <<>>
  /\ patch_handle' = WorkingHandle
  /\ dtv_decoder_state' = "INIT"
  /\ command' = "top"
  /\ UNCHANGED <<demux_handle, dtv_package, demux_index_working, dtv_cmd_list,
                 cmd_process_thread_exit, dtv_aml_out, session, client, input, output, count,
                 fault>>

----------------------------------------------------------------------------
(* The input thread: audio_dtv_patch_input_threadloop(). *)

\* dtv_package_list_init()
InputInit ==
  /\ input.at = "init"
  /\ dtv_package_list' = <<>>
  /\ input' = [input EXCEPT !.at = "loop", !.path = 0]
  /\ UNCHANGED <<handles, dtv_package, demux_index_working, dtv_cmd_list, dtv_decoder_state,
                 cmd_process_thread_exit, dtv_aml_out, session, client, command, output, count,
                 fault>>

Leaves(p) == [input EXCEPT !.at = "loop", !.path = NextPath(p), !.package = NULL]

\* Told to exit between two paths, the thread frees the packages it kept,
\* each under dtv_lock, and then flushes the list.
FreeKept ==
  /\ input.at = "loop" /\ input.exit
  /\ dtv_package' = [p \in Paths |-> NULL]
  /\ input' = [input EXCEPT !.at = "flush"]
  /\ UNCHANGED <<handles, demux_index_working, dtv_cmd_list, dtv_decoder_state,
                 cmd_process_thread_exit, dtv_package_list, dtv_aml_out, session, client,
                 command, output, count, fault>>

\* Under dtv_lock: a path without a demux loses the package it kept.
VisitPath ==
  LET p == input.path
  IN  /\ input.at = "loop" /\ ~input.exit
      /\ IF demux_handle[p] = Closed
         THEN dtv_package' = [dtv_package EXCEPT ![p] = NULL] /\ input' = Leaves(p)
         ELSE /\ input' = [input EXCEPT !.at = "read", !.package = dtv_package[p]]
              /\ UNCHANGED dtv_package
      /\ UNCHANGED <<handles, demux_index_working, dtv_cmd_list, dtv_decoder_state,
                     cmd_process_thread_exit, dtv_package_list, dtv_aml_out, session, client,
                     command, output, count, fault>>

\* Get_MainAudio_Es() gives nothing, and the visit ends.
ReadNothing ==
  LET p == input.path
  IN  /\ input.at = "read" /\ input.package = NULL
      /\ fault' = IF demux_handle[p] = Closed THEN "closed" ELSE fault
      /\ dtv_package' = [dtv_package EXCEPT ![p] = NULL]
      /\ input' = Leaves(p)
      /\ UNCHANGED <<handles, demux_index_working, dtv_cmd_list, dtv_decoder_state,
                     cmd_process_thread_exit, dtv_package_list, dtv_aml_out, session, client,
                     command, output, count>>

ReadPackage ==
  LET p == input.path
  IN  /\ input.at = "read" /\ input.package = NULL /\ count.es[p] < MaxEs
      /\ fault' = IF demux_handle[p] = Closed THEN "closed" ELSE fault
      /\ count' = [count EXCEPT !.es[p] = @ + 1]
      /\ dtv_package' = [dtv_package EXCEPT ![p] = <<p, count.es[p] + 1>>]
      /\ input' = [input EXCEPT !.package = <<p, count.es[p] + 1>>]
      /\ UNCHANGED <<handles, demux_index_working, dtv_cmd_list, dtv_decoder_state,
                     cmd_process_thread_exit, dtv_package_list, dtv_aml_out, session, client,
                     command, output>>

\* With a package in hand: the working path's goes to the list; another
\* path's stays until media sync wants it dropped (isneedupdate).
SortPackage ==
  LET p == input.path
  IN  /\ input.at = "read" /\ input.package # NULL
      /\ IF p = demux_index_working
         THEN input' = [input EXCEPT !.at = "add"] /\ UNCHANGED dtv_package
         ELSE /\ \E kept \in {NULL, input.package} :
                   dtv_package' = [dtv_package EXCEPT ![p] = kept]
              /\ input' = Leaves(p)
      /\ UNCHANGED <<handles, demux_index_working, dtv_cmd_list, dtv_decoder_state,
                     cmd_process_thread_exit, dtv_package_list, dtv_aml_out, session, client,
                     command, output, count, fault>>

\* Mutation: demux_info keeps the package that went into the list.
AddPackage_Keeps ==
  LET p == input.path
      tries == ~input.exit /\ p = demux_index_working
      room == Len(dtv_package_list) < MaxCount
  IN  /\ input.at = "add"
      /\ IF tries /\ room
         THEN /\ dtv_package_list' = Append(dtv_package_list, input.package)
              /\ UNCHANGED dtv_package
         ELSE UNCHANGED <<dtv_package_list, dtv_package>>
      /\ input' = IF tries /\ ~room THEN [input EXCEPT !.at = "full"] ELSE Leaves(p)
      /\ UNCHANGED <<handles, demux_index_working, dtv_cmd_list, dtv_decoder_state,
                     cmd_process_thread_exit, dtv_aml_out, session, client, command, output,
                     count, fault>>

\* Mutation: the package is put in front of those that wait.
AddPackage_InFront ==
  LET p == input.path
      tries == ~input.exit /\ p = demux_index_working
      room == Len(dtv_package_list) < MaxCount
  IN  /\ input.at = "add"
      /\ IF tries /\ room
         THEN /\ dtv_package_list' = <<input.package>> \o dtv_package_list
              /\ dtv_package' = [dtv_package EXCEPT ![p] = NULL]
         ELSE UNCHANGED <<dtv_package_list, dtv_package>>
      /\ input' = IF tries /\ ~room THEN [input EXCEPT !.at = "full"] ELSE Leaves(p)
      /\ UNCHANGED <<handles, demux_index_working, dtv_cmd_list, dtv_decoder_state,
                     cmd_process_thread_exit, dtv_aml_out, session, client, command, output,
                     count, fault>>

\* One turn of the loop around dtv_package_add(): into the list, or, when the
\* list is full, out of dtv_lock for 150 ms.
AddPackage ==
  LET p == input.path
      tries == ~input.exit /\ p = demux_index_working
      room == Len(dtv_package_list) < MaxCount
  IN  /\ input.at = "add"
      /\ IF tries /\ room
         THEN /\ dtv_package_list' = Append(dtv_package_list, input.package)
              /\ dtv_package' = [dtv_package EXCEPT ![p] = NULL]
         ELSE UNCHANGED <<dtv_package_list, dtv_package>>
      /\ input' = IF tries /\ ~room THEN [input EXCEPT !.at = "full"] ELSE Leaves(p)
      /\ UNCHANGED <<handles, demux_index_working, dtv_cmd_list, dtv_decoder_state,
                     cmd_process_thread_exit, dtv_aml_out, session, client, command, output,
                     count, fault>>

RelockPath ==
  /\ input.at = "full"
  /\ input' = [input EXCEPT !.at = "add"]
  /\ UNCHANGED <<handles, dtv_package, demux_index_working, dtv_cmd_list, dtv_decoder_state,
                 cmd_process_thread_exit, dtv_package_list, dtv_aml_out, session, client,
                 command, output, count, fault>>

FlushList ==
  /\ input.at = "flush"
  /\ dtv_package_list' = <<>>
  /\ input' = [input EXCEPT !.at = "ended"]
  /\ UNCHANGED <<handles, dtv_package, demux_index_working, dtv_cmd_list, dtv_decoder_state,
                 cmd_process_thread_exit, dtv_aml_out, session, client, command, output, count,
                 fault>>

----------------------------------------------------------------------------
(* The output thread: audio_dtv_patch_output_threadloop(). *)

\* The stream may fail to open.  When only its media sync fails the thread
\* ends too, and dtv_aml_out stays.
OpenStream ==
  /\ output.at = "open"
  /\ \E stream \in BOOLEAN, sync \in BOOLEAN :
       /\ dtv_aml_out' = (dtv_aml_out \/ stream)
       /\ output' = [output EXCEPT !.at = IF stream /\ sync THEN "loop" ELSE "ended"]
  /\ UNCHANGED <<handles, dtv_package, demux_index_working, dtv_cmd_list, dtv_decoder_state,
                 cmd_process_thread_exit, dtv_package_list, session, client, command, input,
                 count, fault>>

\* dtv_package_get(), unless the decoder is paused.
GetPackage ==
  /\ output.at = "loop" /\ ~output.exit
  /\ dtv_decoder_state # "PAUSE" /\ dtv_package_list # <<>>
  /\ output' = [output EXCEPT !.at = "play", !.package = Head(dtv_package_list)]
  /\ dtv_package_list' = Tail(dtv_package_list)
  /\ UNCHANGED <<handles, dtv_package, demux_index_working, dtv_cmd_list, dtv_decoder_state,
                 cmd_process_thread_exit, dtv_aml_out, session, client, command, input, count,
                 fault>>

\* The package is written to the stream and freed.
PlayPackage ==
  /\ output.at = "play"
  /\ output' = [output EXCEPT !.at = "loop", !.package = NULL]
  /\ UNCHANGED <<handles, dtv_package, demux_index_working, dtv_cmd_list, dtv_decoder_state,
                 cmd_process_thread_exit, dtv_package_list, dtv_aml_out, session, client,
                 command, input, count, fault>>

CloseStream ==
  /\ output.at = "loop" /\ output.exit
  /\ dtv_aml_out' = FALSE
  /\ output' = [output EXCEPT !.at = "ended"]
  /\ UNCHANGED <<handles, dtv_package, demux_index_working, dtv_cmd_list, dtv_decoder_state,
                 cmd_process_thread_exit, dtv_package_list, session, client, command, input,
                 count, fault>>

----------------------------------------------------------------------------
Request ==
  \/ \E p \in Paths : OpenDemux(p) \/ StartClose(p)
  \/ \E p \in Paths, cmd \in {"START", "PAUSE", "RESUME", "STOP"} : Send(p, cmd)
  \/ ReleasePatch

Proceed ==
  \/ AddCmd \/ WaitForThreads \/ DestroyDemux \/ ClearDemuxInfo
  \/ JoinCommandThread

CommandStep ==
  \/ CheckState \/ Wait \/ Wake
  \/ TakeStart \/ CreateThreads \/ TakePause \/ TakeResume
  \/ TakeStop \/ TakeStopPaused \/ DropCommand
  \/ AskInput("stop_input") \/ JoinInput("stop_input", "stop_output")
  \/ AskOutput("stop_output") \/ JoinOutput("stop_output", "stopped") \/ FinishStop
  \/ AskInput("exit_input") \/ JoinInput("exit_input", "exit_output")
  \/ AskOutput("exit_output") \/ JoinOutput("exit_output", "done")

InputStep ==
  \/ InputInit \/ VisitPath \/ ReadNothing \/ ReadPackage \/ SortPackage
  \/ AddPackage \/ RelockPath \/ FreeKept \/ FlushList

OutputStep == OpenStream \/ GetPackage \/ PlayPackage \/ CloseStream

Next == fault = "none" /\ (Request \/ Proceed \/ CommandStep \/ InputStep \/ OutputStep)

Spec == Init /\ [][Next]_vars

\* Every thread runs, and one that waits for a mutex gets it: the others let
\* go of the mutexes between two turns of their loops, most of the time asleep.
\* Nothing obliges the client to make another request.
FairSpec ==
  /\ Spec
  /\ SF_vars(fault = "none" /\ Proceed)
  /\ WF_vars(fault = "none" /\ CommandStep)
  /\ WF_vars(fault = "none" /\ InputStep)
  /\ WF_vars(fault = "none" /\ OutputStep)

----------------------------------------------------------------------------
Packages == Paths \X (1..MaxEs)
Commands == {"START", "PAUSE", "RESUME", "STOP"}

\* Every variable keeps its type; the path a thread works on is a path.
TypeOK ==
  /\ demux_handle \in [Paths -> 0..MaxOpens] /\ patch_handle \in 0..MaxOpens
  /\ dtv_package \in [Paths -> Packages \cup {NULL}]
  /\ demux_index_working \in Paths
  /\ dtv_cmd_list \in Seq(Commands)
  /\ dtv_decoder_state \in {"INIT", "START", "RUNNING", "PAUSE"}
  /\ cmd_process_thread_exit \in BOOLEAN /\ dtv_aml_out \in BOOLEAN
  /\ dtv_package_list \in Seq(Packages) /\ Len(dtv_package_list) <= MaxCount
  /\ session \in [Paths -> {"closed", "open", "started", "paused"}]
  /\ client \in [at : {"idle", "send", "await", "destroy", "clear", "join", "released"},
                 path : Paths \cup {NoPath}, cmd : Commands \cup {"CLOSE", "none"}]
  /\ command \in {"top", "get", "waiting", "woken", "create", "stop_input", "stop_output",
                  "stopped", "exit_input", "exit_output", "done"}
  /\ input \in [at : {"none", "failed", "init", "loop", "read", "add", "full", "flush",
                      "ended"},
                path : Paths \cup {NoPath}, package : Packages \cup {NULL},
                created : BOOLEAN, exit : BOOLEAN]
  /\ output \in [at : {"none", "failed", "open", "loop", "play", "ended"},
                 package : Packages \cup {NULL}, created : BOOLEAN, exit : BOOLEAN]
  /\ count \in [opens : 0..MaxOpens, cmds : 0..MaxCmds, es : [Paths -> 0..MaxEs]]
  /\ fault \in {"none", "closed", "stale", "null"}

\* The input thread reads only demuxes that are open, whenever the client
\* closes one: the handle it took under dtv_lock stays good while it holds it
\* (dtv_patch.c:472-484, 931).
InputDemuxOpen == fault # "closed"

\* The packages that left the input thread, the next to be played first.
Queue == IF output.package = NULL THEN dtv_package_list
         ELSE <<output.package>> \o dtv_package_list

\* A package has one owner, so it is freed once: demux_info, the list or the
\* output thread.  This holds though a close clears demux_info without
\* dtv_lock, a stop flushes the list under the input thread, and the input
\* thread keeps its package across the sleep on a full list.
PackagesOwned ==
  /\ \A i, j \in DOMAIN Queue : Queue[i] = Queue[j] => i = j
  /\ \A i \in DOMAIN Queue : Queue[i] \notin {dtv_package[p] : p \in Paths} \cup {input.package}

\* A path's packages come out in the order in which the demux gave them,
\* whichever commands and swaps of the working path come in between.
PackagesInOrder ==
  /\ \A i, j \in DOMAIN Queue :
       i < j /\ Queue[i][1] = Queue[j][1] => Queue[i][2] <= Queue[j][2]
  /\ \A i \in DOMAIN Queue, p \in Paths :
       dtv_package[p] # NULL /\ Queue[i][1] = p => Queue[i][2] <= dtv_package[p][2]

\* A decoder that runs or is paused has both threads, unless pthread_create()
\* failed for one when it was last started: START goes to RUNNING without it
\* (dtv_patch.c:1835-1836).  When the patch is freed neither thread is left to
\* use it (dtv_patch.c:2006-2009, 2260-2276).
ThreadsMatchState ==
  /\ dtv_decoder_state \in {"RUNNING", "PAUSE"} /\ command \in {"top", "get", "waiting", "woken"}
       => /\ input.created \/ input.at = "failed"
          /\ output.created \/ output.at = "failed"
  /\ client.at = "released" => input.at = "none" /\ output.at = "none"

\* No command is left in the list: the wakeup of the command thread is not
\* lost, and no join blocks it.  The process may die, or the patch be released.
CommandsTaken ==
  dtv_cmd_list # <<>> ~> dtv_cmd_list = <<>> \/ fault # "none" \/ command = "done"

\* set_parameters returns: neither the mutex held across the joins nor the
\* wait for dtv_lock blocks the client for good.
ControlReturns ==
  client.at \in {"send", "await", "destroy", "clear"} ~> client.at = "idle" \/ fault # "none"

\* release_dtv_patch() returns ("now end release dtv patch", audio_hw.c:9707).
ReleaseReturns == client.at = "join" ~> client.at = "released" \/ fault # "none"

\* "wait stop done, need wait input & output thread exit here for 40ms ease
\* at stop cmd process" (dtv_patch.c:457): a demux is closed after both
\* threads have gone.
ThreadsExitBeforeClose ==
  [][\A p \in Paths : demux_handle[p] # Closed /\ demux_handle'[p] = Closed
       => ~input.created /\ ~output.created]_vars

\* "non-pip case, Make sure you get the first new data" (dtv_patch.c:1922):
\* no package that was read before a start is left to be played after it.
FirstNewData ==
  [][dtv_decoder_state = "START" /\ dtv_decoder_state' = "RUNNING" /\ ~IsPipRun
       => Queue' = <<>> /\ input.package = NULL /\ \A p \in Paths : dtv_package[p] = NULL]_vars
============================================================================
