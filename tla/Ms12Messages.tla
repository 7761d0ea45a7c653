---------------------------- MODULE Ms12Messages ----------------------------
(***************************************************************************)
(* How the main streams steer the Dolby MS12 pipeline in continuous mode:  *)
(* the message list and its thread (audio_hw_ms12_common.c), the pause,    *)
(* resume, flush, write and close calls of the streams (audio_hw.c), the   *)
(* opening and closing of the main decoder (audio_hw_ms12_v2.c) and the    *)
(* end of the thread when the device is closed.                            *)
(*                                                                         *)
(* Each stream is called by a thread of its own.  A message is handled     *)
(* later, by the message thread, on whatever stream is the main one then,  *)
(* and without a lock: it stays at the head of the list until it has been  *)
(* handled.  A write of another stream takes the main decoder over, while  *)
(* the stream that loses it may be paused, resumed or flushed: no lock     *)
(* keeps those calls out, and none asks who has the decoder.               *)
(*                                                                         *)
(* MS12 stays enabled until the device is closed.  The framework           *)
(* (external) writes no paused stream, closes the device after its         *)
(* streams, makes no two writes at once, and closes no stream during       *)
(* another one's write or close.                                           *)
(***************************************************************************)
EXTENDS Integers, Sequences

CONSTANTS Streams,        \* the main streams: direct, MIXER_MAIN_BUFFER_WRITE
          Raw,            \* those that are not linear PCM
          Synced,         \* those whose avsync_type is not AVSYNC_TYPE_NULL
          MaxCalls,       \* bound: calls made on all streams
          MaxMessages,    \* bound: messages in the list
          NULL

ASSUME Ms12Assumption ==
  /\ Raw \subseteq Streams /\ Synced \subseteq Streams
  /\ MaxCalls \in Nat /\ MaxMessages \in Nat
  /\ NULL \notin Streams

VARIABLES
  mesg_list,
  comm,                    \* the message thread: where it is, the stream it
                           \* handles a pause of, whether its message was freed
  late,                    \* history: a message was sent between a close's wait
                           \* for an empty list and the end of the decoder
  CommThread_ExitFlag,
  pause_flag,              \* dolby_ms12_set_pause_flag()
  is_continuous_paused,
  need_resume,
  torn,                    \* history: the decoder was closed amid a PAUSE
  dropped,                 \* history: a pause was given up without a RESUME
  ms12_main_stream_out,
  stream,                  \* what each stream holds, and where its call is
  device,                  \* where adev_close() is
  calls,
  fault                    \* "stream": the message thread used a NULL or freed
                           \* stream; "message": it used a freed message

list  == <<mesg_list, comm, late>>
pause == <<pause_flag, is_continuous_paused, need_resume, torn, dropped>>
vars  == <<list, CommThread_ExitFlag, pause, ms12_main_stream_out, stream, device, calls, fault>>

\* at: the call; started: total_write_size # 0; paused: pause_status;
\* main: is_ms12_main_decoder; old: the stream it takes the decoder from.
FreshStream(at) == [at |-> at, started |-> FALSE, paused |-> FALSE, main |-> FALSE, old |-> NULL]

Init ==
  /\ mesg_list = <<>>
  /\ comm = [at |-> "loop", stream |-> NULL, freed |-> FALSE]
  /\ late = FALSE /\ torn = FALSE /\ dropped = FALSE
  /\ CommThread_ExitFlag = FALSE
  /\ pause_flag = FALSE /\ is_continuous_paused = FALSE /\ need_resume = FALSE
  /\ ms12_main_stream_out = NULL
  /\ stream = [s \in Streams |-> FreshStream("closed")]
  /\ device = "open"
  /\ calls = 0
  /\ fault = "none"

\* A stream that is closed has been freed.
IsOpen(s) == s # NULL /\ stream[s].at # "closed"

\* Where the message thread holds a message, without the mutex.
HasMessage == {"hold", "handle", "pausing", "remove"}

\* audiohal_send_msg_2_ms12(), for each message: append under the mutex, then
\* signal the thread.
Send(mesgs) ==
  /\ Len(mesg_list) + Len(mesgs) <= MaxMessages
  /\ mesg_list' = mesg_list \o mesgs
  /\ comm' = IF mesgs # <<>> /\ comm.at = "waiting" THEN [comm EXCEPT !.at = "woken"] ELSE comm
  /\ late' = (late \/ (mesgs # <<>> /\ \E t \in Streams : stream[t].at = "close"))

----------------------------------------------------------------------------
(* The calls.                                                               *)

Call(s) ==
  /\ device = "open" /\ stream[s].at = "idle"
  /\ calls < MaxCalls /\ calls' = calls + 1

\* The framework's part: no other stream is written, taken over or closed.
NoneWritesOrCloses ==
  \A t \in Streams : stream[t].at \in {"closed", "idle", "ease", "flush"}

Open(s) ==
  /\ device = "open" /\ stream[s].at = "closed"
  /\ calls < MaxCalls /\ calls' = calls + 1
  /\ stream' = [stream EXCEPT ![s] = FreshStream("idle")]
  /\ UNCHANGED <<list, CommThread_ExitFlag, pause, ms12_main_stream_out, device, fault>>

\* out_pause_new(): the PAUSE is sent unless MS12 is paused already, whichever
\* stream has the decoder.
Pause(s) ==
  /\ Call(s) /\ ~stream[s].paused
  /\ Send(IF is_continuous_paused THEN <<>> ELSE <<"PAUSE">>)
  /\ stream' = [stream EXCEPT ![s].paused = TRUE]
  /\ UNCHANGED <<CommThread_ExitFlag, pause, ms12_main_stream_out, device, fault>>

\* out_resume_new(): a raw stream is resumed by its next write.
Resume(s) ==
  /\ Call(s) /\ stream[s].paused
  /\ Send(IF s \in Raw THEN <<>> ELSE <<"RESUME">>)
  /\ need_resume' = (need_resume \/ s \in Raw)
  /\ dropped' = (s \in Raw /\ (dropped \/ \E t \in Streams : stream[t].at = "resumed"))
  /\ stream' = [stream EXCEPT ![s].paused = FALSE]
  /\ UNCHANGED <<CommThread_ExitFlag, pause_flag, is_continuous_paused, torn,
                 ms12_main_stream_out, device, fault>>

\* out_flush_new() up to its locks: a synchronised stream that plays is eased
\* out first.
Flush(s) ==
  LET ease == s \in Synced /\ ~stream[s].paused /\ ~is_continuous_paused
  IN  /\ Call(s)
      /\ stream' = IF stream[s].started
                   THEN [stream EXCEPT ![s].at = IF ease THEN "ease" ELSE "flush"]
                   ELSE [stream EXCEPT ![s].paused = FALSE]
      /\ dropped' = (dropped \/ (stream[s].paused /\ ~stream[s].started))
      /\ UNCHANGED <<list, CommThread_ExitFlag, pause_flag, is_continuous_paused, need_resume,
                     torn, ms12_main_stream_out, device, fault>>

\* "issue a pause for flush to get easing out"
EaseOut(s) ==
  /\ stream[s].at = "ease"
  /\ is_continuous_paused' = TRUE
  /\ Send(<<"PAUSE">>)
  /\ stream' = [stream EXCEPT ![s].paused = TRUE, ![s].at = "flush"]
  /\ UNCHANGED <<CommThread_ExitFlag, pause_flag, need_resume, torn, dropped,
                 ms12_main_stream_out, device, calls, fault>>

\* Mutation: the RESUME is sent only if the pause has been handled.
SendFlush_IfHandled(s) ==
  /\ stream[s].at = "flush"
  /\ Send(<<"FLUSH">> \o IF is_continuous_paused THEN <<"RESUME">> ELSE <<>>)
  /\ stream' = [stream EXCEPT ![s].paused = FALSE, ![s].at = "idle"]
  /\ UNCHANGED <<CommThread_ExitFlag, pause, ms12_main_stream_out, device, calls, fault>>

\* The rest of out_flush_new(), its wait of at most 100 ms included.
SendFlush(s) ==
  LET resume == stream[s].paused \/ is_continuous_paused
  IN  /\ stream[s].at = "flush"
      /\ Send(<<"FLUSH">> \o IF resume THEN <<"RESUME">> ELSE <<>>)
      /\ dropped' = (dropped /\ ~resume)
      /\ stream' = [stream EXCEPT ![s].paused = FALSE, ![s].at = "idle"]
      /\ UNCHANGED <<CommThread_ExitFlag, pause_flag, is_continuous_paused, need_resume, torn,
                     ms12_main_stream_out, device, calls, fault>>

----------------------------------------------------------------------------
(* mixer_main_buffer_write() and dolby_ms12_main_process().                 *)

\* "release the old main stream at first": its standby clears pause_status.
TakeOver(s) ==
  LET old == ms12_main_stream_out
  IN  /\ Call(s) /\ NoneWritesOrCloses /\ ~stream[s].paused /\ old \notin {NULL, s}
      /\ stream' = [stream EXCEPT ![old].paused = FALSE,
                                  ![s].at = IF stream[old].main THEN "release" ELSE "write",
                                  ![s].old = old]
      /\ UNCHANGED <<list, CommThread_ExitFlag, pause, ms12_main_stream_out, device, fault>>

StartWrite(s) ==
  /\ Call(s) /\ NoneWritesOrCloses /\ ~stream[s].paused
  /\ ms12_main_stream_out \in {NULL, s}
  /\ stream' = [stream EXCEPT ![s].at = "write"]
  /\ UNCHANGED <<list, CommThread_ExitFlag, pause, ms12_main_stream_out, device, fault>>

\* "resume the timer here, because we have data now"
ResumeInWrite(s) ==
  /\ stream[s].at = "write"
  /\ Send(IF need_resume THEN <<"RESUME">> ELSE <<>>)
  /\ dropped' = (dropped /\ ~need_resume)
  /\ stream' = [stream EXCEPT ![s].at = IF need_resume THEN "resumed" ELSE "process"]
  /\ UNCHANGED <<CommThread_ExitFlag, pause_flag, is_continuous_paused, need_resume, torn,
                 ms12_main_stream_out, device, calls, fault>>

\* Without the lock under which the RESUME was sent.
ClearNeedResume(s) ==
  /\ stream[s].at = "resumed"
  /\ need_resume' = FALSE
  /\ stream' = [stream EXCEPT ![s].at = "process"]
  /\ UNCHANGED <<list, CommThread_ExitFlag, pause_flag, is_continuous_paused, torn, dropped,
                 ms12_main_stream_out, device, calls, fault>>

\* dolby_ms12_main_open(), unless the stream has the decoder.
MainProcess(s) ==
  /\ stream[s].at = "process"
  /\ ms12_main_stream_out' = IF stream[s].main THEN ms12_main_stream_out ELSE s
  /\ stream' = [stream EXCEPT ![s].main = TRUE, ![s].started = TRUE, ![s].at = "idle",
                              ![s].old = NULL]
  /\ UNCHANGED <<list, CommThread_ExitFlag, pause, device, calls, fault>>

----------------------------------------------------------------------------
(* close_ms12_output_main_stream() and adev_close_output_stream().          *)

\* The stream whose decoder the call of s releases.
Released(s) == IF stream[s].old # NULL THEN stream[s].old ELSE s

StartClose(s) ==
  /\ Call(s) /\ NoneWritesOrCloses
  /\ stream' = [stream EXCEPT ![s].paused = FALSE,
                              ![s].at = IF stream[s].main THEN "release" ELSE "free"]
  /\ dropped' = (dropped \/ (stream[s].paused /\ ~stream[s].main))
  /\ UNCHANGED <<list, CommThread_ExitFlag, pause_flag, is_continuous_paused, need_resume, torn,
                 ms12_main_stream_out, device, fault>>

ReleaseMain(s) ==
  /\ stream[s].at = "release"
  /\ Send(<<"FLUSH", "RESUME">>)
  /\ dropped' = FALSE
  /\ stream' = [stream EXCEPT ![s].at = "await"]
  /\ UNCHANGED <<CommThread_ExitFlag, pause_flag, is_continuous_paused, need_resume, torn,
                 ms12_main_stream_out, device, calls, fault>>

\* Mutation: the close does not wait.
AwaitMessages_NoWait(s) ==
  /\ stream[s].at = "await"
  /\ stream' = [stream EXCEPT ![s].at = "close"]
  /\ UNCHANGED <<list, CommThread_ExitFlag, pause, ms12_main_stream_out, device, calls, fault>>

\* "wait mesg processed": a second is time enough for the messages.
AwaitMessages(s) ==
  /\ stream[s].at = "await" /\ mesg_list = <<>>
  /\ stream' = [stream EXCEPT ![s].at = "close"]
  /\ UNCHANGED <<list, CommThread_ExitFlag, pause, ms12_main_stream_out, device, calls, fault>>

\* Mutation: the stream goes on as the one with the decoder.
MainClosed_KeepsDecoder(s) ==
  LET out == Released(s)
      mine == ms12_main_stream_out = out
  IN  /\ ms12_main_stream_out' = IF mine THEN NULL ELSE ms12_main_stream_out
      /\ pause_flag' = (pause_flag /\ ~mine)
      /\ is_continuous_paused' = (is_continuous_paused /\ ~mine)
      /\ torn' = IF mine THEN comm.at = "pausing" ELSE torn
      /\ stream' = [stream EXCEPT ![s].at = IF out = s THEN "free" ELSE "write",
                                  ![s].old = NULL]

\* What dolby_ms12_main_close() does to the stream and to MS12.
MainClosed(s) ==
  LET out == Released(s)
      mine == ms12_main_stream_out = out
  IN  /\ ms12_main_stream_out' = IF mine THEN NULL ELSE ms12_main_stream_out
      /\ pause_flag' = (pause_flag /\ ~mine)
      /\ is_continuous_paused' = (is_continuous_paused /\ ~mine)
      /\ torn' = IF mine THEN comm.at = "pausing" ELSE torn
      /\ stream' = [stream EXCEPT ![out].main = FALSE,
                                  ![s].at = IF out = s THEN "free" ELSE "write",
                                  ![s].old = NULL]

\* dolby_ms12_main_close(): a message may have come since the wait.
MainClose(s) ==
  /\ stream[s].at = "close"
  /\ MainClosed(s)
  /\ UNCHANGED <<list, CommThread_ExitFlag, need_resume, dropped, device, calls, fault>>

\* The message thread's pointer to the stream, if it has one, points nowhere.
Free(s) ==
  /\ stream[s].at = "free"
  /\ stream' = [stream EXCEPT ![s] = FreshStream("closed")]
  /\ comm' = [comm EXCEPT !.stream = IF @ = s THEN NULL ELSE @]
  /\ UNCHANGED <<mesg_list, late, CommThread_ExitFlag, pause, ms12_main_stream_out, device,
                 calls, fault>>

----------------------------------------------------------------------------
(* ms12_message_threadloop().                                               *)

\* pthread_cond_wait(), under the mutex.
WaitMessage ==
  /\ comm.at = "loop" /\ mesg_list = <<>>
  /\ comm' = [comm EXCEPT !.at = "waiting"]
  /\ UNCHANGED <<mesg_list, late, CommThread_ExitFlag, pause, ms12_main_stream_out, stream,
                 device, calls, fault>>

AtEndOfLoop == IF CommThread_ExitFlag THEN "done" ELSE "loop"

\* Mutation: the list is not looked at again after the wait.
TakeMessage_Unchecked ==
  /\ comm.at = "woken" \/ (comm.at = "loop" /\ mesg_list # <<>>)
  /\ comm' = [comm EXCEPT !.at = "hold"]
  /\ UNCHANGED <<mesg_list, late, CommThread_ExitFlag, pause, ms12_main_stream_out, stream,
                 device, calls, fault>>

\* Repop_Mesg: the head of the list, which stays there; an empty list is a
\* "continue", to the condition of the loop.
TakeMessage ==
  /\ comm.at = "woken" \/ (comm.at = "loop" /\ mesg_list # <<>>)
  /\ comm' = [comm EXCEPT !.at = IF mesg_list = <<>> THEN AtEndOfLoop ELSE "hold"]
  /\ UNCHANGED <<mesg_list, late, CommThread_ExitFlag, pause, ms12_main_stream_out, stream,
                 device, calls, fault>>

\* The loop of 5 ms sleeps.
AwaitMainStream ==
  /\ comm.at = "hold"
  /\ ms12_main_stream_out # NULL \/ CommThread_ExitFlag
  /\ comm' = [comm EXCEPT !.at = "handle"]
  /\ UNCHANGED <<mesg_list, late, CommThread_ExitFlag, pause, ms12_main_stream_out, stream,
                 device, calls, fault>>

UseFreedMessage ==
  /\ comm.at \in {"handle", "remove"} /\ comm.freed
  /\ fault' = "message"
  /\ UNCHANGED <<list, CommThread_ExitFlag, pause, ms12_main_stream_out, stream, device, calls>>

Handles(mesgs) == comm.at = "handle" /\ ~comm.freed /\ Head(mesg_list) \in mesgs

\* The stream is read again, after the loop, and from then on kept.
FaultAtUse(s) == IF IsOpen(s) THEN fault ELSE "stream"

\* dolby_ms12_main_pause(), up to its sleep of 64 ms.
HandlePause ==
  /\ Handles({"PAUSE"})
  /\ fault' = FaultAtUse(ms12_main_stream_out)
  /\ pause_flag' = TRUE
  /\ torn' = FALSE
  /\ comm' = [comm EXCEPT !.at = "pausing", !.stream = ms12_main_stream_out]
  /\ UNCHANGED <<mesg_list, late, CommThread_ExitFlag, is_continuous_paused, need_resume,
                 dropped, ms12_main_stream_out, stream, device, calls>>

\* It signals the stream's condition and tells the calls.
HandlePauseEnd ==
  /\ comm.at = "pausing"
  /\ fault' = FaultAtUse(comm.stream)
  /\ is_continuous_paused' = TRUE
  /\ comm' = [comm EXCEPT !.at = "remove", !.stream = NULL]
  /\ UNCHANGED <<mesg_list, late, CommThread_ExitFlag, pause_flag, need_resume, torn, dropped,
                 ms12_main_stream_out, stream, device, calls>>

\* Mutation: dolby_ms12_main_resume() leaves is_continuous_paused alone.
HandleResume_KeepsPaused ==
  /\ Handles({"RESUME"})
  /\ fault' = FaultAtUse(ms12_main_stream_out)
  /\ pause_flag' = FALSE /\ torn' = FALSE
  /\ comm' = [comm EXCEPT !.at = "remove"]
  /\ UNCHANGED <<mesg_list, late, CommThread_ExitFlag, is_continuous_paused, need_resume,
                 dropped, ms12_main_stream_out, stream, device, calls>>

HandleResume ==
  /\ Handles({"RESUME"})
  /\ fault' = FaultAtUse(ms12_main_stream_out)
  /\ pause_flag' = FALSE /\ torn' = FALSE
  /\ is_continuous_paused' = FALSE
  /\ comm' = [comm EXCEPT !.at = "remove"]
  /\ UNCHANGED <<mesg_list, late, CommThread_ExitFlag, need_resume, dropped,
                 ms12_main_stream_out, stream, device, calls>>

\* A flush changes nothing that is modelled; an EXIT_THREAD is not acted on.
HandleOther ==
  /\ Handles({"FLUSH", "EXIT"})
  /\ fault' = IF Head(mesg_list) = "FLUSH" THEN FaultAtUse(ms12_main_stream_out) ELSE fault
  /\ comm' = [comm EXCEPT !.at = "remove"]
  /\ UNCHANGED <<mesg_list, late, CommThread_ExitFlag, pause, ms12_main_stream_out, stream,
                 device, calls>>

\* Mutation: the thread looks at its loop's condition only.
RemoveMessage_NoRepop ==
  /\ comm.at = "remove" /\ ~comm.freed
  /\ mesg_list' = Tail(mesg_list)
  /\ late' = (late /\ Tail(mesg_list) # <<>>)
  /\ comm' = [comm EXCEPT !.at = IF CommThread_ExitFlag THEN "done" ELSE "waiting"]
  /\ UNCHANGED <<CommThread_ExitFlag, pause, ms12_main_stream_out, stream, device, calls, fault>>

RemoveMessage ==
  /\ comm.at = "remove" /\ ~comm.freed
  /\ mesg_list' = Tail(mesg_list)
  /\ late' = (late /\ Tail(mesg_list) # <<>>)
  /\ comm' = [comm EXCEPT !.at = IF Tail(mesg_list) # <<>> THEN "hold" ELSE AtEndOfLoop]
  /\ UNCHANGED <<CommThread_ExitFlag, pause, ms12_main_stream_out, stream, device, calls, fault>>

----------------------------------------------------------------------------
(* adev_close() and ms12_mesg_thread_destroy().                             *)

\* Every message is freed, without the mutex: the one the thread holds too.
DestroyList ==
  /\ device = "open" /\ \A s \in Streams : stream[s].at = "closed"
  /\ device' = "flag"
  /\ mesg_list' = <<>>
  /\ comm' = [comm EXCEPT !.freed = comm.at \in HasMessage]
  /\ UNCHANGED <<late, CommThread_ExitFlag, pause, ms12_main_stream_out, stream, calls, fault>>

SetExitFlag ==
  /\ device = "flag"
  /\ device' = "exit"
  /\ CommThread_ExitFlag' = TRUE
  /\ UNCHANGED <<list, pause, ms12_main_stream_out, stream, calls, fault>>

\* Mutation: no message wakes the thread.
SendExit_Never ==
  /\ device = "exit"
  /\ device' = "join"
  /\ UNCHANGED <<list, CommThread_ExitFlag, pause, ms12_main_stream_out, stream, calls, fault>>

SendExit ==
  /\ device = "exit"
  /\ device' = "join"
  /\ Send(<<"EXIT">>)
  /\ UNCHANGED <<CommThread_ExitFlag, pause, ms12_main_stream_out, stream, calls, fault>>

JoinThread ==
  /\ device = "join" /\ comm.at = "done"
  /\ device' = "closed"
  /\ UNCHANGED <<list, CommThread_ExitFlag, pause, ms12_main_stream_out, stream, calls, fault>>

----------------------------------------------------------------------------

CallStep(s) ==
  \/ EaseOut(s) \/ SendFlush(s) \/ ResumeInWrite(s) \/ ClearNeedResume(s) \/ MainProcess(s)
  \/ ReleaseMain(s) \/ AwaitMessages(s) \/ MainClose(s) \/ Free(s)

NewCall(s) ==
  \/ Open(s) \/ Pause(s) \/ Resume(s) \/ Flush(s) \/ TakeOver(s) \/ StartWrite(s)
  \/ StartClose(s)

CommStep ==
  \/ WaitMessage \/ TakeMessage \/ AwaitMainStream \/ UseFreedMessage
  \/ HandlePause \/ HandlePauseEnd \/ HandleResume \/ HandleOther \/ RemoveMessage

DestroyStep == SetExitFlag \/ SendExit \/ JoinThread

\* A fault ends the process.
Next ==
  /\ fault = "none"
  /\ \/ \E s \in Streams : NewCall(s) \/ CallStep(s)
     \/ CommStep
     \/ DestroyList
     \/ DestroyStep

\* A call that has begun goes on, and the threads run: nothing makes the
\* framework call, nor MS12 wait for a lock.
Fairness ==
  /\ \A s \in Streams : WF_vars(fault = "none" /\ CallStep(s))
  /\ WF_vars(fault = "none" /\ CommStep)
  /\ WF_vars(fault = "none" /\ DestroyStep)

Spec == Init /\ [][Next]_vars /\ Fairness

----------------------------------------------------------------------------

\* The message that the thread holds is in the list, unless it was freed.
TypeOK ==
  /\ mesg_list \in Seq({"PAUSE", "RESUME", "FLUSH", "EXIT"}) /\ Len(mesg_list) <= MaxMessages
  /\ comm \in [at : {"loop", "waiting", "woken", "hold", "handle", "pausing", "remove", "done"},
               stream : Streams \cup {NULL}, freed : BOOLEAN]
  /\ comm.at \in HasMessage => mesg_list # <<>> \/ comm.freed
  /\ {CommThread_ExitFlag, pause_flag, is_continuous_paused, need_resume} \subseteq BOOLEAN
  /\ {late, torn, dropped} \subseteq BOOLEAN
  /\ ms12_main_stream_out \in Streams \cup {NULL}
  /\ stream \in [Streams -> [at : {"closed", "idle", "ease", "flush", "write", "resumed",
                                  "process", "release", "await", "close", "free"},
                            started : BOOLEAN, paused : BOOLEAN, main : BOOLEAN,
                            old : Streams \cup {NULL}]]
  /\ device \in {"open", "flag", "exit", "join", "closed"}
  /\ calls \in 0..MaxCalls
  /\ fault \in {"none", "stream", "message"}

\* The message thread uses a stream that is NULL or has been freed in one case
\* only: another stream's call sent a message after a close or a take-over had
\* found the list empty and before it cleared ms12_main_stream_out.
NothingFreedIsUsed == fault = "stream" => late

\* The device is open, no call is in progress and no message waits.
AtRest ==
  /\ device = "open"
  /\ \A s \in Streams : stream[s].at \in {"closed", "idle"}
  /\ mesg_list = <<>>

\* Whatever the order of calls and messages, MS12 ends up paused only for a
\* stream: some stream is paused (not always the one with the decoder: any
\* stream's pause is sent), or one was resumed and the next write resumes MS12.
\* The code gives a pause up without a RESUME in three cases (dropped): a flush
\* of a stream that was never written, the close of a stream without the
\* decoder, and a resume just before a write clears need_resume.
PausedOnlyIfAsked ==
  AtRest /\ pause_flag =>
    /\ ms12_main_stream_out # NULL
    /\ (\E s \in Streams : stream[s].paused) \/ need_resume \/ dropped

\* What the calls take for the state of MS12 is its state, but for a decoder
\* closed while its PAUSE was being handled: MS12 then runs and is taken for
\* paused, until the next PAUSE or RESUME is handled.
FlagsAgree == AtRest => (is_continuous_paused <=> pause_flag \/ torn)

\* PAUSE, RESUME and FLUSH go to ms12_main_stream_out: it is the stream that
\* has the main decoder, whoever took it from whom.
DecoderIsReached ==
  (\A s \in Streams : stream[s].at \in {"closed", "idle"}) =>
    \A s \in Streams : stream[s].main => ms12_main_stream_out = s

\* Every call returns.
CallsReturn ==
  \A s \in Streams : stream[s].at # "idle" ~> stream[s].at \in {"idle", "closed"} \/ fault # "none"

\* The device's close joins the message thread.
ThreadJoined == device # "open" ~> device = "closed" \/ fault # "none"
=============================================================================
