-------------------------- MODULE Ms12MessagesProofs --------------------------
(***************************************************************************)
(* Theorems about Ms12Messages for any set of streams, whichever of them   *)
(* are raw or synchronised, and any bounds on the calls and the list: the  *)
(* message thread uses no stream that is gone, the messages reach the      *)
(* stream with the decoder, and MS12 is left paused only when it should.   *)
(*                                                                         *)
(* The contents of the list matter: a flag says what MS12 does now, and    *)
(* the messages that wait, the last one first, what it will do.            *)
(***************************************************************************)
EXTENDS Ms12Messages, TLAPS, SequenceTheorems

----------------------------------------------------------------------------
(* The invariant. *)

\* Where a write, a take-over or a close is, and where the other calls are.
Busy  == {"write", "resumed", "process", "release", "await", "close", "free"}
Aside == {"closed", "idle", "ease", "flush"}

\* A write, a take-over or a close has no other of them beside it.
Exclusive ==
  \A s, t \in Streams : s # t /\ stream[s].at \in Busy => stream[t].at \in Aside

\* The decoder is the main stream's, and whoever is about to open it has seen
\* that no other stream has it.
Decoder(s) ==
  /\ stream[s].main <=> ms12_main_stream_out = s
  /\ stream[s].main => stream[s].started /\ stream[s].at \notin {"closed", "free"}
  /\ stream[s].at \in {"write", "resumed", "process"} => ms12_main_stream_out \in {NULL, s}
  /\ stream[s].at \in {"release", "await", "close"} =>
       ms12_main_stream_out # NULL /\ ms12_main_stream_out = Released(s)
  /\ stream[s].old # NULL => stream[s].at \in {"release", "await", "close"}

\* A stream that is closed, or that its call keeps busy, is not paused.
NotPaused(s) == stream[s].at \in Busy \cup {"closed"} => ~stream[s].paused

\* adev_close() comes after the streams, and finds no message but its own.
Destroyed ==
  /\ device # "open" => /\ \A s \in Streams : stream[s].at = "closed"
                        /\ mesg_list \in {<<>>, <<"EXIT">>}
  /\ device \in {"flag", "exit"} => mesg_list = <<>>
  /\ CommThread_ExitFlag => device # "open"

\* The message that is being handled keeps the main stream from being closed,
\* unless it was sent when the close had found the list empty.
Held ==
  /\ comm.freed => device # "open" /\ comm.at \in HasMessage
  /\ comm.at = "handle" /\ device = "open" => ms12_main_stream_out # NULL \/ late
  /\ comm.at = "pausing" => /\ pause_flag \/ torn
                            /\ comm.freed \/ Head(mesg_list) = "PAUSE"
                            /\ late \/ (comm.stream # NULL /\ comm.stream = ms12_main_stream_out)
  /\ mesg_list # <<>> /\ (\E s \in Streams : stream[s].at = "close") => late

\* The messages that have yet to change the flags.
Unhandled ==
  {i \in 1..Len(mesg_list) : /\ mesg_list[i] \in {"PAUSE", "RESUME"}
                             /\ i = 1 => comm.at # "remove"}

\* What pause_flag will be once they have been handled.
WillBePaused ==
  \/ Unhandled = {} /\ pause_flag
  \/ \E i \in Unhandled : mesg_list[i] = "PAUSE" /\ \A j \in Unhandled : j <= i

FlagsMatch ==
  device = "open" /\ Unhandled = {} => (is_continuous_paused <=> pause_flag \/ torn)

\* MS12 is paused on a stream.
PausedStream ==
  pause_flag => ms12_main_stream_out # NULL \/ (fault = "stream" /\ comm.at = "pausing")

\* What makes a pause expected: somebody has asked for it, or is going to send
\* the RESUME that ends it, or has given it up.
Expected ==
  \/ \E s \in Streams : stream[s].paused
  \/ need_resume /\ \A s \in Streams : stream[s].at # "resumed"
  \/ dropped
  \/ \E s \in Streams : stream[s].at = "release"

PauseAccounted == device = "open" /\ WillBePaused => Expected

Ms12Inv ==
  /\ TypeOK
  /\ Exclusive
  /\ \A s \in Streams : Decoder(s) /\ NotPaused(s)
  /\ Destroyed
  /\ Held
  /\ FlagsMatch
  /\ PausedStream
  /\ PauseAccounted
  /\ NothingFreedIsUsed

----------------------------------------------------------------------------
(* The types, one by one. *)

Messages == {"PAUSE", "RESUME", "FLUSH", "EXIT"}

CommAt == {"loop", "waiting", "woken", "hold", "handle", "pausing", "remove", "done"}

StreamAt == {"closed", "idle", "ease", "flush", "write", "resumed", "process", "release",
             "await", "close", "free"}

StreamState == [at : StreamAt, started : BOOLEAN, paused : BOOLEAN, main : BOOLEAN,
                old : Streams \cup {NULL}]

CommState == [at : CommAt, stream : Streams \cup {NULL}, freed : BOOLEAN]

\* TypeOK, with the types named.
LEMMA Typed ==
  ASSUME TypeOK
  PROVE  /\ mesg_list \in Seq(Messages) /\ Len(mesg_list) <= MaxMessages
         /\ comm \in CommState
         /\ comm.at \in HasMessage => mesg_list # <<>> \/ comm.freed
         /\ CommThread_ExitFlag \in BOOLEAN /\ pause_flag \in BOOLEAN
         /\ is_continuous_paused \in BOOLEAN /\ need_resume \in BOOLEAN
         /\ late \in BOOLEAN /\ torn \in BOOLEAN /\ dropped \in BOOLEAN
         /\ ms12_main_stream_out \in Streams \cup {NULL}
         /\ stream \in [Streams -> StreamState]
         /\ device \in {"open", "flag", "exit", "join", "closed"}
         /\ calls \in 0..MaxCalls
         /\ fault \in {"none", "stream", "message"}
BY DEF TypeOK, Messages, CommState, CommAt, StreamState, StreamAt

\* The fields of a stream's record, and what becomes of them.
LEMMA Fields ==
  ASSUME NEW r \in StreamState
  PROVE  /\ r.at \in StreamAt /\ r.started \in BOOLEAN /\ r.paused \in BOOLEAN
         /\ r.main \in BOOLEAN /\ r.old \in Streams \cup {NULL}
BY DEF StreamState

\* The fields of the thread's record, and where it may go.
LEMMA CommFields ==
  ASSUME NEW r \in CommState
  PROVE  /\ r.at \in CommAt /\ r.stream \in Streams \cup {NULL} /\ r.freed \in BOOLEAN
         /\ \A a \in CommAt : [r EXCEPT !.at = a] \in CommState
         /\ \A a \in CommAt, o \in Streams \cup {NULL} :
              [r EXCEPT !.at = a, !.stream = o] \in CommState
BY DEF CommState

\* The same of the state a step leads to.
LEMMA TypedAgain ==
  ASSUME mesg_list' \in Seq(Messages), Len(mesg_list') <= MaxMessages, comm' \in CommState,
         comm'.at \in HasMessage => mesg_list' # <<>> \/ comm'.freed,
         CommThread_ExitFlag' \in BOOLEAN, pause_flag' \in BOOLEAN,
         is_continuous_paused' \in BOOLEAN, need_resume' \in BOOLEAN,
         late' \in BOOLEAN, torn' \in BOOLEAN, dropped' \in BOOLEAN,
         ms12_main_stream_out' \in Streams \cup {NULL}, stream' \in [Streams -> StreamState],
         device' \in {"open", "flag", "exit", "join", "closed"}, calls' \in 0..MaxCalls,
         fault' \in {"none", "stream", "message"}
  PROVE  TypeOK'
BY DEF TypeOK, Messages, CommState, CommAt, StreamState, StreamAt

\* While a stream is open so is the device, and no message has been freed.
LEMMA DeviceOpen ==
  ASSUME Ms12Inv
  PROVE  /\ \A s \in Streams : stream[s].at # "closed" => device = "open"
         /\ device = "open" => CommThread_ExitFlag = FALSE /\ comm.freed = FALSE
         /\ device = "open" /\ comm.at \in HasMessage => mesg_list # <<>>
BY Typed, CommFields DEF Ms12Inv, Destroyed, Held

\* The invariant holds when the device has been opened.
LEMMA InitInv ==
  ASSUME Init
  PROVE  Ms12Inv
<1>1. TypeOK
  <2>1. mesg_list \in Seq(Messages) /\ Len(mesg_list) = 0
    BY EmptySeq DEF Init
  <2>2. stream \in [Streams -> StreamState]
    BY DEF Init, FreshStream, StreamState, StreamAt
  <2>3. comm \in CommState /\ comm.at \notin HasMessage
    BY DEF Init, CommState, CommAt, HasMessage
  <2>4. Len(mesg_list) <= MaxMessages /\ calls \in 0..MaxCalls
    BY <2>1, Ms12Assumption DEF Init
  <2>5. /\ CommThread_ExitFlag \in BOOLEAN /\ pause_flag \in BOOLEAN
        /\ is_continuous_paused \in BOOLEAN /\ need_resume \in BOOLEAN
        /\ late \in BOOLEAN /\ torn \in BOOLEAN /\ dropped \in BOOLEAN
        /\ ms12_main_stream_out \in Streams \cup {NULL}
        /\ device \in {"open", "flag", "exit", "join", "closed"}
        /\ fault \in {"none", "stream", "message"}
    BY DEF Init
  <2> QED
    BY <2>1, <2>2, <2>3, <2>4, <2>5
       DEF TypeOK, Messages, CommState, CommAt, StreamState, StreamAt
<1>2. /\ Exclusive /\ Destroyed /\ Held /\ FlagsMatch /\ PausedStream
      /\ NothingFreedIsUsed
  BY DEF Init, FreshStream, Exclusive, Busy, Destroyed, Held, FlagsMatch, PausedStream,
         NothingFreedIsUsed
<1>3. \A s \in Streams : Decoder(s) /\ NotPaused(s)
  BY Ms12Assumption DEF Init, FreshStream, Decoder, NotPaused
<1>4. PauseAccounted
  BY DEF Init, PauseAccounted, WillBePaused, Unhandled
<1> QED
  BY <1>1, <1>2, <1>3, <1>4 DEF Ms12Inv

----------------------------------------------------------------------------
(* The switches in the list. *)

\* The switches that wait, when the thread only moves, when it has handled
\* the head of the list, and when it removes it.
LEMMA UnhandledKept ==
  ASSUME mesg_list' = mesg_list, comm.at = "remove" <=> comm'.at = "remove"
  PROVE  Unhandled' = Unhandled
BY DEF Unhandled

\* A switch at the head of the list waits until it has been handled.
LEMMA HeadUnhandled ==
  ASSUME TypeOK, mesg_list # <<>>, Head(mesg_list) \in {"PAUSE", "RESUME"}, comm.at # "remove"
  PROVE  1 \in Unhandled
<1>1. Len(mesg_list) \in Nat /\ Len(mesg_list) # 0 /\ mesg_list[1] = Head(mesg_list)
  BY Typed, LenProperties, EmptySeq
<1>2. 1 \in 1..Len(mesg_list)
  BY <1>1
<1> QED
  BY <1>1, <1>2 DEF Unhandled

\* The head of the list has been handled.
LEMMA UnhandledHead ==
  ASSUME TypeOK, mesg_list' = mesg_list, mesg_list # <<>>,
         comm.at # "remove", comm'.at = "remove"
  PROVE  /\ 1 \in Unhandled <=> Head(mesg_list) \in {"PAUSE", "RESUME"}
         /\ Unhandled' = Unhandled \ {1} /\ mesg_list[1] = Head(mesg_list)
         /\ \A i \in Unhandled : i \in Nat /\ i >= 1
<1>1. Len(mesg_list) \in Nat /\ Len(mesg_list) # 0 /\ mesg_list[1] = Head(mesg_list)
  BY Typed, LenProperties, EmptySeq
<1>2. 1 \in 1..Len(mesg_list)
  BY <1>1
<1> QED
  BY <1>1, <1>2 DEF Unhandled

\* The head of the list has been removed: the others move up.
LEMMA UnhandledTail ==
  ASSUME TypeOK, mesg_list # <<>>, mesg_list' = Tail(mesg_list),
         comm.at = "remove", comm'.at # "remove"
  PROVE  /\ \A i \in Unhandled : i \in Nat /\ i - 1 \in Unhandled' /\ mesg_list'[i - 1] = mesg_list[i]
         /\ \A i \in Unhandled' : i \in Nat /\ i + 1 \in Unhandled /\ mesg_list[i + 1] = mesg_list'[i]
<1>1. PICK m \in Seq(Messages) : m = mesg_list
  BY Typed
<1>2. PICK p \in Seq(Messages) : p = mesg_list'
  BY <1>1, HeadTailProperties
<1>3. /\ Len(m) \in Nat /\ Len(m) # 0 /\ Len(p) = Len(m) - 1
      /\ \A i \in 1..Len(p) : p[i] = m[i + 1]
  BY <1>1, <1>2, LenProperties, EmptySeq, HeadTailProperties
<1>4. Unhandled = {i \in 1..Len(m) : m[i] \in {"PAUSE", "RESUME"} /\ i # 1}
  BY <1>1 DEF Unhandled
<1>5. Unhandled' = {i \in 1..Len(p) : p[i] \in {"PAUSE", "RESUME"}}
  BY <1>2 DEF Unhandled
<1>6. ASSUME NEW i \in Unhandled
      PROVE  i \in Nat /\ i - 1 \in Unhandled' /\ p[i - 1] = m[i]
  <2>1. i \in 1..Len(m) /\ i # 1 /\ m[i] \in {"PAUSE", "RESUME"}
    BY <1>4
  <2>2. i - 1 \in 1..Len(p) /\ (i - 1) + 1 = i
    BY <1>3, <2>1
  <2>3. p[i - 1] = m[(i - 1) + 1]
    BY <1>3, <2>2
  <2> QED
    BY <1>5, <2>1, <2>2, <2>3
<1>7. ASSUME NEW i \in Unhandled'
      PROVE  i \in Nat /\ i + 1 \in Unhandled /\ m[i + 1] = p[i]
  BY <1>3, <1>4, <1>5
<1> QED
  BY <1>1, <1>2, <1>6, <1>7

----------------------------------------------------------------------------
(* Sending. *)

\* What an append leaves of the list and adds to it.
LEMMA Appended ==
  ASSUME NEW m \in Seq(Messages), NEW n \in Seq(Messages)
  PROVE  /\ m \o n \in Seq(Messages) /\ Len(m \o n) = Len(m) + Len(n)
         /\ Len(m) \in Nat /\ Len(n) \in Nat
         /\ \A i \in 1..Len(m) : (m \o n)[i] = m[i]
         /\ \A i \in 1..Len(n) : (m \o n)[Len(m) + i] = n[i]
         /\ m # <<>> => m \o n # <<>> /\ Head(m \o n) = Head(m)
<1>1. /\ m \o n \in Seq(Messages) /\ Len(m \o n) = Len(m) + Len(n)
      /\ \A i \in 1..(Len(m) + Len(n)) :
           (m \o n)[i] = IF i <= Len(m) THEN m[i] ELSE n[i - Len(m)]
  BY ConcatProperties
<1>2. Len(m) \in Nat /\ Len(n) \in Nat
  BY LenProperties
<1>3. \A i \in 1..Len(n) : (m \o n)[Len(m) + i] = n[i]
  BY <1>1, <1>2
<1>4. m # <<>> => m \o n # <<>> /\ Head(m \o n) = Head(m)
  BY <1>1, <1>2, EmptySeq
<1> QED
  BY <1>1, <1>2, <1>3, <1>4

\* A message that is sent waits behind the ones that wait already.
LEMMA Sent ==
  ASSUME TypeOK, device = "open" => comm.freed = FALSE, device = "open",
         NEW mesgs \in Seq(Messages), Send(mesgs)
  PROVE  /\ mesg_list' \in Seq(Messages) /\ Len(mesg_list') <= MaxMessages
         /\ comm' \in CommState
         /\ comm'.at = comm.at \/ (comm.at = "waiting" /\ comm'.at = "woken")
         /\ comm'.stream = comm.stream /\ comm'.freed = comm.freed
         /\ comm'.at \in HasMessage => mesg_list' # <<>>
         /\ mesg_list # <<>> => mesg_list' # <<>> /\ Head(mesg_list') = Head(mesg_list)
         /\ \A i \in 1..Len(mesg_list) : i \in Unhandled <=> i \in Unhandled'
         /\ \A i \in 1..Len(mesgs) :
              /\ Len(mesg_list) + i \in 1..Len(mesg_list')
              /\ mesg_list'[Len(mesg_list) + i] = mesgs[i]
              /\ mesgs[i] \in {"PAUSE", "RESUME"} <=> Len(mesg_list) + i \in Unhandled'
         /\ Len(mesg_list') = Len(mesg_list) + Len(mesgs)
         /\ \A i \in 1..Len(mesg_list) : mesg_list'[i] = mesg_list[i]
         /\ late' \in BOOLEAN /\ (late => late')
         /\ mesg_list = <<>> /\ mesg_list' # <<>> => mesgs # <<>>
<1>1. PICK m \in Seq(Messages) : m = mesg_list
  BY Typed
<1>2. PICK p \in Seq(Messages) : p = mesg_list'
  BY <1>1, Appended DEF Send
<1>3. /\ p = m \o mesgs /\ Len(p) <= MaxMessages
  BY <1>1, <1>2, Appended DEF Send
<1>4. /\ Len(p) = Len(m) + Len(mesgs) /\ Len(m) \in Nat /\ Len(mesgs) \in Nat
      /\ \A i \in 1..Len(m) : p[i] = m[i]
      /\ \A i \in 1..Len(mesgs) : p[Len(m) + i] = mesgs[i]
      /\ m # <<>> => p # <<>> /\ Head(p) = Head(m)
  BY <1>3, Appended
<1>5. /\ comm' \in CommState
      /\ comm'.at = comm.at \/ (comm.at = "waiting" /\ comm'.at = "woken")
      /\ comm'.stream = comm.stream /\ comm'.freed = comm.freed
  BY Typed DEF Send, CommState, CommAt
<1>6. comm'.at \in HasMessage => m # <<>>
  BY <1>1, <1>5, Typed DEF HasMessage
<1>7. comm'.at = "remove" <=> comm.at = "remove"
  BY <1>5
<1>8. comm.at = "remove" => Len(m) # 0
  BY <1>5, <1>6, EmptySeq DEF HasMessage
<1>9. \A i \in 1..Len(m) : i \in Unhandled <=> i \in Unhandled'
  BY <1>1, <1>2, <1>4, <1>7 DEF Unhandled
<1>10. \A i \in 1..Len(mesgs) :
         /\ Len(m) + i \in 1..Len(p)
         /\ mesgs[i] \in {"PAUSE", "RESUME"} <=> Len(m) + i \in Unhandled'
  BY <1>1, <1>2, <1>4, <1>7, <1>8 DEF Unhandled
<1>11. late' \in BOOLEAN /\ (late => late')
  BY Typed DEF Send
<1>12. m = <<>> /\ p # <<>> => mesgs # <<>>
  BY <1>4, EmptySeq
<1> QED
  BY <1>1, <1>2, <1>3, <1>4, <1>5, <1>6, <1>9, <1>10, <1>11, <1>12

\* Messages that switch nothing leave what will be.
LEMMA SentNoSwitch ==
  ASSUME TypeOK, device = "open", comm.freed = FALSE, NEW mesgs \in Seq(Messages), Send(mesgs),
         \A i \in 1..Len(mesgs) : mesgs[i] \notin {"PAUSE", "RESUME"},
         pause_flag' = pause_flag
  PROVE  Unhandled' = Unhandled /\ WillBePaused' = WillBePaused
<1>1. PICK k \in Nat : k = Len(mesg_list)
  BY Typed, LenProperties
<1>2. PICK p \in Seq(Messages) : p = mesg_list'
  BY Sent
<1>3. Len(mesgs) \in Nat /\ Len(p) = k + Len(mesgs)
  BY <1>1, <1>2, Sent, LenProperties
<1>4. Unhandled \subseteq 1..k /\ Unhandled' \subseteq 1..Len(p)
  BY <1>1, <1>2 DEF Unhandled
<1>5. \A i \in 1..Len(mesgs) : k + i \notin Unhandled'
  BY <1>1, Sent
<1>6. \A i \in 1..k : i \in Unhandled <=> i \in Unhandled'
  BY <1>1, Sent
<1>7. \A i \in Unhandled' : i \in 1..k
  <2> SUFFICES ASSUME NEW i \in Unhandled', i \notin 1..k
               PROVE  FALSE
    OBVIOUS
  <2>1. i \in 1..Len(p)
    BY <1>4
  <2>2. i - k \in 1..Len(mesgs) /\ i = k + (i - k)
    BY <1>3, <2>1
  <2> QED
    BY <1>5, <2>2
<1>8. Unhandled' = Unhandled
  BY <1>4, <1>6, <1>7
<1>9. \A i \in Unhandled : mesg_list'[i] = mesg_list[i]
  BY <1>1, <1>4, Sent
<1>10. WillBePaused' = (\/ Unhandled = {} /\ pause_flag
                        \/ \E i \in Unhandled : /\ mesg_list'[i] = "PAUSE"
                                               /\ \A j \in Unhandled : j <= i)
  BY <1>8 DEF WillBePaused
<1> QED
  BY <1>8, <1>9, <1>10, Zenon DEF WillBePaused

\* A switch that is sent decides what will be.
LEMMA SentSwitch ==
  ASSUME TypeOK, device = "open", comm.freed = FALSE, NEW mesgs \in Seq(Messages), Send(mesgs),
         mesgs # <<>>, mesgs[Len(mesgs)] \in {"PAUSE", "RESUME"}
  PROVE  /\ Unhandled' # {}
         /\ mesgs[Len(mesgs)] = "RESUME" => ~WillBePaused'
<1>1. PICK k \in Nat : k = Len(mesg_list)
  BY Typed, LenProperties
<1>2. PICK p \in Seq(Messages) : p = mesg_list'
  BY Sent
<1>3. Len(mesgs) \in Nat /\ Len(mesgs) # 0 /\ Len(p) = k + Len(mesgs)
  BY <1>1, <1>2, Sent, LenProperties, EmptySeq
<1>4. Len(p) \in Unhandled' /\ p[Len(p)] = mesgs[Len(mesgs)]
  <2>1. PICK i \in 1..Len(mesgs) : i = Len(mesgs)
    BY <1>3
  <2>2. k + i \in Unhandled' /\ mesg_list'[k + i] = mesgs[i]
    BY <1>1, <2>1, Sent
  <2>3. k + i = Len(p)
    BY <1>3, <2>1
  <2> QED
    BY <1>2, <2>1, <2>2, <2>3
<1>5. Unhandled' \subseteq 1..Len(p)
  BY <1>2 DEF Unhandled
<1>6. ASSUME mesgs[Len(mesgs)] = "RESUME", WillBePaused'
      PROVE  FALSE
  <2>1. PICK i \in Unhandled' : p[i] = "PAUSE" /\ \A j \in Unhandled' : j <= i
    BY <1>2, <1>4, <1>6 DEF WillBePaused
  <2>2. i = Len(p)
    BY <1>3, <1>4, <1>5, <2>1
  <2> QED
    BY <1>4, <1>6, <2>1, <2>2
<1> QED
  BY <1>4, <1>6

----------------------------------------------------------------------------
(* What each call does to the streams. *)

\* The streams a call does not work on are left alone.
OthersKept(s) == \A t \in Streams : t # s => stream'[t] = stream[t]

\* What it is for one stream's record to be replaced.
LEMMA Replaced ==
  ASSUME stream \in [Streams -> StreamState], NEW s \in Streams, NEW r \in StreamState,
         stream' = [stream EXCEPT ![s] = r]
  PROVE  stream' \in [Streams -> StreamState] /\ stream'[s] = r /\ OthersKept(s)
BY DEF OthersKept

\* Open and Free: the record is new.
LEMMA FreshEffect ==
  ASSUME TypeOK, NEW s \in Streams, NEW a \in {"idle", "closed"},
         stream' = [stream EXCEPT ![s] = FreshStream(a)]
  PROVE  /\ stream' \in [Streams -> StreamState] /\ OthersKept(s)
         /\ stream'[s].at = a /\ stream'[s].started = FALSE /\ stream'[s].paused = FALSE
         /\ stream'[s].main = FALSE /\ stream'[s].old = NULL
<1>1. FreshStream(a) \in StreamState
  BY DEF FreshStream, StreamState, StreamAt
<1>2. stream' \in [Streams -> StreamState] /\ stream'[s] = FreshStream(a) /\ OthersKept(s)
  BY <1>1, Typed, Replaced
<1> QED
  BY <1>2 DEF FreshStream

\* The calls that only move, and set pause_status.
LEMMA MoveEffect ==
  ASSUME TypeOK, NEW s \in Streams, NEW a \in StreamAt, NEW p \in BOOLEAN,
         stream' = [stream EXCEPT ![s].paused = p, ![s].at = a]
  PROVE  /\ stream' \in [Streams -> StreamState] /\ OthersKept(s)
         /\ stream'[s].at = a /\ stream'[s].started = stream[s].started
         /\ stream'[s].paused = p /\ stream'[s].main = stream[s].main
         /\ stream'[s].old = stream[s].old
<1>1. stream[s] \in StreamState
  BY Typed
<1>2. [stream[s] EXCEPT !.paused = p, !.at = a] \in StreamState
  BY <1>1 DEF StreamState
<1>3. stream' = [stream EXCEPT ![s] = [stream[s] EXCEPT !.paused = p, !.at = a]]
  BY Typed
<1>4. /\ stream' \in [Streams -> StreamState]
      /\ stream'[s] = [stream[s] EXCEPT !.paused = p, !.at = a] /\ OthersKept(s)
  BY <1>2, <1>3, Typed, Replaced
<1> QED
  BY <1>1, <1>4 DEF StreamState

\* The calls that only move.
LEMMA AtEffect ==
  ASSUME TypeOK, NEW s \in Streams, NEW a \in StreamAt,
         stream' = [stream EXCEPT ![s].at = a]
  PROVE  /\ stream' \in [Streams -> StreamState] /\ OthersKept(s)
         /\ stream'[s].at = a /\ stream'[s].started = stream[s].started
         /\ stream'[s].paused = stream[s].paused /\ stream'[s].main = stream[s].main
         /\ stream'[s].old = stream[s].old
<1>1. stream[s] \in StreamState
  BY Typed
<1>2. [stream[s] EXCEPT !.at = a] \in StreamState
  BY <1>1 DEF StreamState
<1>3. /\ stream' \in [Streams -> StreamState]
      /\ stream'[s] = [stream[s] EXCEPT !.at = a] /\ OthersKept(s)
  BY <1>2, Typed, Replaced
<1> QED
  BY <1>1, <1>3 DEF StreamState

\* The calls that only set pause_status.
LEMMA PausedEffect ==
  ASSUME TypeOK, NEW s \in Streams, NEW p \in BOOLEAN,
         stream' = [stream EXCEPT ![s].paused = p]
  PROVE  /\ stream' \in [Streams -> StreamState] /\ OthersKept(s)
         /\ stream'[s].at = stream[s].at /\ stream'[s].started = stream[s].started
         /\ stream'[s].paused = p /\ stream'[s].main = stream[s].main
         /\ stream'[s].old = stream[s].old
<1>1. stream[s] \in StreamState
  BY Typed
<1>2. [stream[s] EXCEPT !.paused = p] \in StreamState
  BY <1>1 DEF StreamState
<1>3. /\ stream' \in [Streams -> StreamState]
      /\ stream'[s] = [stream[s] EXCEPT !.paused = p] /\ OthersKept(s)
  BY <1>2, Typed, Replaced
<1> QED
  BY <1>1, <1>3 DEF StreamState

\* The stream whose decoder is taken over is the one that has it, so it is
\* released: its pause ends at once.
LEMMA TakeOverEffect ==
  ASSUME Ms12Inv, NEW s \in Streams, TakeOver(s)
  PROVE  /\ stream' \in [Streams -> StreamState]
         /\ stream[s].at = "idle" /\ stream[s].main = FALSE
         /\ stream'[s].at = "release" /\ stream'[s].started = stream[s].started
         /\ stream'[s].paused = stream[s].paused /\ stream'[s].main = stream[s].main
         /\ stream'[s].old = ms12_main_stream_out
         /\ ms12_main_stream_out \in Streams /\ ms12_main_stream_out # s
         /\ \A t \in Streams : t # s => /\ stream[t].at \in Aside
                                        /\ stream'[t].at = stream[t].at
                                        /\ stream'[t].started = stream[t].started
                                        /\ stream'[t].main = stream[t].main
                                        /\ stream'[t].old = stream[t].old
                                        /\ stream'[t].paused => stream[t].paused
<1>1. PICK o \in Streams \cup {NULL} : o = ms12_main_stream_out
  BY Typed DEF Ms12Inv
<1>2. o \in Streams /\ o # s /\ stream[o].main /\ stream[s].main = FALSE
  BY <1>1, Typed, Fields DEF TakeOver, Ms12Inv, Decoder
<1>3. stream' = [stream EXCEPT ![o].paused = FALSE, ![s].at = "release", ![s].old = o]
  BY <1>1, <1>2 DEF TakeOver
<1>4. stream[s] \in StreamState /\ stream[o] \in StreamState
  BY <1>2, Typed DEF Ms12Inv
<1>5. /\ [stream[o] EXCEPT !.paused = FALSE] \in StreamState
      /\ [stream[s] EXCEPT !.at = "release", !.old = o] \in StreamState
  BY <1>4 DEF StreamState, StreamAt
<1>6. stream' = [[stream EXCEPT ![o] = [stream[o] EXCEPT !.paused = FALSE]]
                   EXCEPT ![s] = [stream[s] EXCEPT !.at = "release", !.old = o]]
  BY <1>2, <1>3, Typed DEF Ms12Inv
<1>7. /\ stream' \in [Streams -> StreamState]
      /\ stream'[s] = [stream[s] EXCEPT !.at = "release", !.old = o]
      /\ stream'[o] = [stream[o] EXCEPT !.paused = FALSE]
      /\ \A t \in Streams : t # s /\ t # o => stream'[t] = stream[t]
  BY <1>2, <1>5, <1>6, Typed DEF Ms12Inv
<1>8. \A t \in Streams : stream[t].at \in Aside
  BY DEF TakeOver, NoneWritesOrCloses, Aside
<1>9. stream[s].at = "idle"
  BY DEF TakeOver, Call
<1>10. /\ stream'[s].at = "release" /\ stream'[s].started = stream[s].started
       /\ stream'[s].paused = stream[s].paused /\ stream'[s].main = stream[s].main
       /\ stream'[s].old = o
  BY <1>4, <1>7 DEF StreamState
<1>11. /\ stream'[o].at = stream[o].at /\ stream'[o].started = stream[o].started
       /\ stream'[o].main = stream[o].main /\ stream'[o].old = stream[o].old
       /\ stream'[o].paused = FALSE
  BY <1>4, <1>7 DEF StreamState
<1>12. \A t \in Streams : t # s => /\ stream'[t].at = stream[t].at
                                   /\ stream'[t].started = stream[t].started
                                   /\ stream'[t].main = stream[t].main
                                   /\ stream'[t].old = stream[t].old
                                   /\ stream'[t].paused => stream[t].paused
  BY <1>7, <1>11
<1> QED
  BY <1>1, <1>2, <1>7, <1>8, <1>9, <1>10, <1>12

\* The decoder that is released is the one that MS12 has.
LEMMA MainClosedEffect ==
  ASSUME Ms12Inv, NEW s \in Streams, stream[s].at = "close", MainClosed(s)
  PROVE  /\ stream' \in [Streams -> StreamState]
         /\ stream'[s].at \in {"free", "write"} /\ stream'[s].old = NULL
         /\ ms12_main_stream_out' = NULL
         /\ pause_flag' = FALSE /\ is_continuous_paused' = FALSE
         /\ torn' = (comm.at = "pausing")
         /\ stream'[s].main = FALSE /\ stream'[s].paused = stream[s].paused
         /\ \A t \in Streams : stream'[t].main = FALSE
         /\ \A t \in Streams : t # s => /\ stream[t].at \in Aside
                                        /\ stream'[t].at = stream[t].at
                                        /\ stream'[t].started = stream[t].started
                                        /\ stream'[t].paused = stream[t].paused
                                        /\ stream'[t].old = stream[t].old
<1>1. PICK o \in Streams : o = ms12_main_stream_out /\ o = Released(s)
  BY Typed DEF Ms12Inv, Decoder
<1>2. stream' = [stream EXCEPT ![o].main = FALSE,
                               ![s].at = IF o = s THEN "free" ELSE "write",
                               ![s].old = NULL]
  BY <1>1 DEF MainClosed
<1>3. /\ ms12_main_stream_out' = NULL /\ pause_flag' = FALSE /\ is_continuous_paused' = FALSE
      /\ torn' = (comm.at = "pausing")
  BY <1>1 DEF MainClosed
<1>4. stream[s] \in StreamState /\ stream[o] \in StreamState
  BY Typed DEF Ms12Inv
<1>5. \A t \in Streams : t # o => stream[t].main = FALSE
  BY <1>1, Typed, Fields DEF Ms12Inv, Decoder
<1>6. \A t \in Streams : t # s => stream[t].at \in Aside
  BY DEF Ms12Inv, Exclusive, Busy
<1>7. CASE o = s
  <2>1. [stream[s] EXCEPT !.main = FALSE, !.at = "free", !.old = NULL] \in StreamState
    BY <1>4 DEF StreamState, StreamAt
  <2>2. stream' = [stream EXCEPT ![s] = [stream[s] EXCEPT !.main = FALSE, !.at = "free",
                                                          !.old = NULL]]
    BY <1>2, <1>7, Typed DEF Ms12Inv
  <2>3. /\ stream' \in [Streams -> StreamState]
        /\ stream'[s] = [stream[s] EXCEPT !.main = FALSE, !.at = "free", !.old = NULL]
        /\ OthersKept(s)
    BY <2>1, <2>2, Typed, Replaced DEF Ms12Inv
  <2>4. /\ stream'[s].at = "free" /\ stream'[s].main = FALSE
        /\ stream'[s].paused = stream[s].paused /\ stream'[s].old = NULL
    BY <1>4, <2>3 DEF StreamState
  <2> QED
    BY <1>3, <1>5, <1>6, <1>7, <2>3, <2>4 DEF OthersKept
<1>8. CASE o # s
  <2>1. /\ [stream[o] EXCEPT !.main = FALSE] \in StreamState
        /\ [stream[s] EXCEPT !.at = "write", !.old = NULL] \in StreamState
    BY <1>4 DEF StreamState, StreamAt
  <2>2. stream' = [[stream EXCEPT ![o] = [stream[o] EXCEPT !.main = FALSE]]
                     EXCEPT ![s] = [stream[s] EXCEPT !.at = "write", !.old = NULL]]
    BY <1>2, <1>8, Typed DEF Ms12Inv
  <2>3. /\ stream' \in [Streams -> StreamState]
        /\ stream'[s] = [stream[s] EXCEPT !.at = "write", !.old = NULL]
        /\ stream'[o] = [stream[o] EXCEPT !.main = FALSE]
        /\ \A t \in Streams : t # s /\ t # o => stream'[t] = stream[t]
    BY <1>8, <2>1, <2>2, Typed DEF Ms12Inv
  <2>4. /\ stream'[s].at = "write" /\ stream'[s].main = stream[s].main
        /\ stream'[s].paused = stream[s].paused /\ stream'[s].old = NULL
    BY <1>4, <2>3 DEF StreamState
  <2>5. /\ stream'[o].at = stream[o].at /\ stream'[o].started = stream[o].started
        /\ stream'[o].main = FALSE /\ stream'[o].paused = stream[o].paused
        /\ stream'[o].old = stream[o].old
    BY <1>4, <2>3 DEF StreamState
  <2>6. \A t \in Streams : t # s => /\ stream'[t].at = stream[t].at
                                    /\ stream'[t].started = stream[t].started
                                    /\ stream'[t].paused = stream[t].paused
                                    /\ stream'[t].old = stream[t].old
    BY <2>3, <2>5
  <2>7. \A t \in Streams : stream'[t].main = FALSE
    BY <1>5, <1>8, <2>3, <2>4, <2>5
  <2> QED
    BY <1>3, <1>6, <2>3, <2>4, <2>6, <2>7
<1> QED
  BY <1>7, <1>8

\* The stream that processes data has the decoder, or gets it from nobody.
LEMMA MainProcessEffect ==
  ASSUME Ms12Inv, NEW s \in Streams, MainProcess(s)
  PROVE  /\ stream' \in [Streams -> StreamState] /\ OthersKept(s)
         /\ stream'[s].at = "idle" /\ stream'[s].started = TRUE /\ stream'[s].main = TRUE
         /\ stream'[s].paused = stream[s].paused /\ stream'[s].old = NULL
         /\ ms12_main_stream_out \in {NULL, s} /\ ms12_main_stream_out' = s
<1>1. stream[s] \in StreamState
  BY Typed DEF Ms12Inv
<1>2. [stream[s] EXCEPT !.main = TRUE, !.started = TRUE, !.at = "idle", !.old = NULL]
        \in StreamState
  BY <1>1 DEF StreamState, StreamAt
<1>3. stream' = [stream EXCEPT ![s] = [stream[s] EXCEPT !.main = TRUE, !.started = TRUE,
                                                         !.at = "idle", !.old = NULL]]
  BY Typed DEF Ms12Inv, MainProcess
<1>4. /\ stream' \in [Streams -> StreamState] /\ OthersKept(s)
      /\ stream'[s] = [stream[s] EXCEPT !.main = TRUE, !.started = TRUE, !.at = "idle",
                                        !.old = NULL]
  BY <1>2, <1>3, Typed, Replaced DEF Ms12Inv
<1>5. ms12_main_stream_out \in {NULL, s} /\ ms12_main_stream_out' = s
  BY Fields, <1>1 DEF Ms12Inv, Decoder, MainProcess
<1> QED
  BY <1>1, <1>4, <1>5 DEF StreamState

\* What of the streams the decoder depends on.
SameDecoder(t) ==
  /\ stream'[t].at = stream[t].at /\ stream'[t].started = stream[t].started
  /\ stream'[t].main = stream[t].main /\ stream'[t].old = stream[t].old

\* A call goes where no other call is in its way.
LEMMA ExclusiveKept ==
  ASSUME Exclusive, NEW s \in Streams, stream'[s].at \in StreamAt,
         \A t \in Streams : t # s => stream'[t].at = stream[t].at,
         stream'[s].at \in Busy =>
           stream[s].at \in Busy \/ \A t \in Streams : stream[t].at \in Aside
  PROVE  Exclusive'
BY DEF Exclusive, StreamAt, Busy, Aside

\* A stream that is left alone is where it was with the decoder.
LEMMA DecoderKept ==
  ASSUME NEW t \in Streams, Decoder(t), SameDecoder(t),
         ms12_main_stream_out' = ms12_main_stream_out
  PROVE  Decoder(t)'
BY DEF Decoder, SameDecoder, Released

\* The calls that leave the decoder where it is.
LEMMA StreamsKept ==
  ASSUME Ms12Inv, NEW s \in Streams, OthersKept(s),
         ms12_main_stream_out' = ms12_main_stream_out, Decoder(s)'
  PROVE  \A t \in Streams : Decoder(t)'
<1>1. \A t \in Streams : t # s => SameDecoder(t)
  BY DEF OthersKept, SameDecoder
<1> QED
  BY <1>1, DecoderKept DEF Ms12Inv

\* The streams after a step: well typed, apart from each other, and the
\* decoder where it should be.
StreamsInv ==
  stream \in [Streams -> StreamState] /\ Exclusive /\ \A t \in Streams : Decoder(t)

\* While any call is in progress, the stream that has the decoder is open.
LEMMA NewCallStreams ==
  ASSUME Ms12Inv, NEW s \in Streams, NewCall(s)
  PROVE  StreamsInv'
<1> USE DEF Ms12Inv
<1>0. /\ stream[s].at \in StreamAt /\ stream[s].started \in BOOLEAN
      /\ stream[s].paused \in BOOLEAN /\ stream[s].main \in BOOLEAN
      /\ Decoder(s) /\ TypeOK /\ Exclusive
  BY Typed, Fields
<1>1. CASE Open(s)
  <2>1. /\ stream' \in [Streams -> StreamState] /\ OthersKept(s)
        /\ stream'[s].at = "idle" /\ stream'[s].main = FALSE /\ stream'[s].old = NULL
    BY <1>1, FreshEffect DEF Open
  <2>2. ms12_main_stream_out' = ms12_main_stream_out /\ stream[s].main = FALSE
    BY <1>0, <1>1 DEF Open, Decoder
  <2>3. Exclusive'
    BY <1>0, <2>1, ExclusiveKept DEF OthersKept, StreamAt, Busy
  <2>4. Decoder(s)'
    BY <1>0, <2>1, <2>2 DEF Decoder
  <2> QED
    BY <2>1, <2>2, <2>3, <2>4, StreamsKept DEF StreamsInv
<1>2. CASE Pause(s) \/ Resume(s)
  <2>1. PICK p \in BOOLEAN : stream' = [stream EXCEPT ![s].paused = p]
    BY <1>2 DEF Pause, Resume
  <2>2. /\ stream' \in [Streams -> StreamState] /\ OthersKept(s) /\ SameDecoder(s)
    BY <1>0, <2>1, PausedEffect DEF SameDecoder
  <2>3. stream[s].at = "idle" /\ ms12_main_stream_out' = ms12_main_stream_out
    BY <1>2 DEF Pause, Resume, Call
  <2>4. Exclusive'
    BY <1>0, <2>2, <2>3, ExclusiveKept DEF OthersKept, SameDecoder, Busy
  <2> QED
    BY <1>0, <2>2, <2>3, <2>4, StreamsKept, DecoderKept DEF StreamsInv
<1>3. CASE Flush(s)
  <2>1. stream[s].at = "idle" /\ ms12_main_stream_out' = ms12_main_stream_out
    BY <1>3 DEF Flush, Call
  <2>2. CASE stream[s].started
    <3>1. PICK a \in {"ease", "flush"} : stream' = [stream EXCEPT ![s].at = a]
      BY <1>3, <2>2 DEF Flush
    <3>2. /\ stream' \in [Streams -> StreamState] /\ OthersKept(s)
          /\ stream'[s].at = a /\ stream'[s].started = stream[s].started
          /\ stream'[s].main = stream[s].main /\ stream'[s].old = stream[s].old
      BY <1>0, <3>1, AtEffect DEF StreamAt
    <3>3. Exclusive'
      BY <1>0, <2>1, <3>1, <3>2, ExclusiveKept DEF OthersKept, StreamAt, Busy
    <3>4. Decoder(s)'
      BY <1>0, <2>1, <3>1, <3>2 DEF Decoder
    <3> QED
      BY <2>1, <3>2, <3>3, <3>4, StreamsKept DEF StreamsInv
  <2>3. CASE ~stream[s].started
    <3>1. stream' = [stream EXCEPT ![s].paused = FALSE]
      BY <1>3, <2>3 DEF Flush
    <3>2. stream' \in [Streams -> StreamState] /\ OthersKept(s) /\ SameDecoder(s)
      BY <1>0, <3>1, PausedEffect DEF SameDecoder
    <3>3. Exclusive'
      BY <1>0, <2>1, <3>2, ExclusiveKept DEF OthersKept, SameDecoder, Busy
    <3> QED
      BY <1>0, <2>1, <3>2, <3>3, StreamsKept, DecoderKept DEF StreamsInv
  <2> QED
    BY <2>2, <2>3
<1>4. CASE TakeOver(s)
  <2>1. ms12_main_stream_out' = ms12_main_stream_out
    BY <1>4 DEF TakeOver
  <2>2. Exclusive'
    <3>1. /\ \A t \in Streams : t # s => stream'[t].at = stream[t].at
          /\ stream'[s].at = "release"
          /\ \A t \in Streams : stream[t].at \in Aside
      BY <1>4, TakeOverEffect DEF TakeOver, NoneWritesOrCloses, Aside
    <3> QED
      BY <1>0, <3>1, ExclusiveKept DEF StreamAt
  <2>3. Decoder(s)'
    BY <1>0, <1>4, <2>1, TakeOverEffect, Ms12Assumption DEF Decoder, Released
  <2>4. \A t \in Streams : t # s => SameDecoder(t)
    BY <1>4, TakeOverEffect DEF SameDecoder
  <2>5. \A t \in Streams : Decoder(t)'
    BY <2>1, <2>3, <2>4, DecoderKept
  <2> QED
    BY <1>4, <2>2, <2>5, TakeOverEffect DEF StreamsInv
<1>5. CASE StartWrite(s)
  <2>1. /\ stream' \in [Streams -> StreamState] /\ OthersKept(s)
        /\ stream'[s].at = "write" /\ stream'[s].started = stream[s].started
        /\ stream'[s].main = stream[s].main /\ stream'[s].old = stream[s].old
    BY <1>0, <1>5, AtEffect DEF StartWrite, StreamAt
  <2>2. /\ stream[s].at = "idle" /\ ms12_main_stream_out' = ms12_main_stream_out
        /\ ms12_main_stream_out \in {NULL, s}
        /\ \A t \in Streams : stream[t].at \in Aside
    BY <1>5 DEF StartWrite, Call, NoneWritesOrCloses, Aside
  <2>3. Exclusive'
    BY <1>0, <2>1, <2>2, ExclusiveKept DEF OthersKept, StreamAt
  <2>4. Decoder(s)'
    BY <1>0, <2>1, <2>2 DEF Decoder
  <2> QED
    BY <2>1, <2>2, <2>3, <2>4, StreamsKept DEF StreamsInv
<1>6. CASE StartClose(s)
  <2>1. PICK a \in {"release", "free"} :
          /\ a = IF stream[s].main THEN "release" ELSE "free"
          /\ stream' = [stream EXCEPT ![s].paused = FALSE, ![s].at = a]
    BY <1>6 DEF StartClose
  <2>2. /\ stream' \in [Streams -> StreamState] /\ OthersKept(s)
        /\ stream'[s].at = a /\ stream'[s].started = stream[s].started
        /\ stream'[s].main = stream[s].main /\ stream'[s].old = stream[s].old
    BY <1>0, <2>1, MoveEffect DEF StreamAt
  <2>3. /\ stream[s].at = "idle" /\ ms12_main_stream_out' = ms12_main_stream_out
        /\ \A t \in Streams : stream[t].at \in Aside
    BY <1>6 DEF StartClose, Call, NoneWritesOrCloses, Aside
  <2>4. Exclusive'
    BY <1>0, <2>1, <2>2, <2>3, ExclusiveKept DEF OthersKept, StreamAt
  <2>5. Decoder(s)'
    BY <1>0, <2>1, <2>2, <2>3, Ms12Assumption DEF Decoder, Released
  <2> QED
    BY <2>2, <2>3, <2>4, <2>5, StreamsKept DEF StreamsInv
<1> QED
  BY <1>1, <1>2, <1>3, <1>4, <1>5, <1>6 DEF NewCall

\* The same of the steps of a call that has begun.
LEMMA CallStepStreams ==
  ASSUME Ms12Inv, NEW s \in Streams, CallStep(s)
  PROVE  StreamsInv'
<1> USE DEF Ms12Inv
<1>0. /\ stream[s].at \in StreamAt /\ stream[s].started \in BOOLEAN
      /\ stream[s].paused \in BOOLEAN /\ stream[s].main \in BOOLEAN
      /\ Decoder(s) /\ TypeOK /\ Exclusive
  BY Typed, Fields
<1>1. CASE EaseOut(s)
  <2>1. /\ stream' \in [Streams -> StreamState] /\ OthersKept(s)
        /\ stream'[s].at = "flush" /\ stream'[s].started = stream[s].started
        /\ stream'[s].main = stream[s].main /\ stream'[s].old = stream[s].old
    BY <1>0, <1>1, MoveEffect DEF EaseOut, StreamAt
  <2>2. stream[s].at = "ease" /\ ms12_main_stream_out' = ms12_main_stream_out
    BY <1>1 DEF EaseOut
  <2>3. Exclusive'
    BY <1>0, <2>1, <2>2, ExclusiveKept DEF OthersKept, StreamAt, Busy
  <2>4. Decoder(s)'
    BY <1>0, <2>1, <2>2 DEF Decoder
  <2> QED
    BY <2>1, <2>2, <2>3, <2>4, StreamsKept DEF StreamsInv
<1>2. CASE SendFlush(s)
  <2>1. /\ stream' \in [Streams -> StreamState] /\ OthersKept(s)
        /\ stream'[s].at = "idle" /\ stream'[s].started = stream[s].started
        /\ stream'[s].main = stream[s].main /\ stream'[s].old = stream[s].old
    BY <1>0, <1>2, MoveEffect DEF SendFlush, StreamAt
  <2>2. stream[s].at = "flush" /\ ms12_main_stream_out' = ms12_main_stream_out
    BY <1>2 DEF SendFlush
  <2>3. Exclusive'
    BY <1>0, <2>1, <2>2, ExclusiveKept DEF OthersKept, StreamAt, Busy
  <2>4. Decoder(s)'
    BY <1>0, <2>1, <2>2 DEF Decoder
  <2> QED
    BY <2>1, <2>2, <2>3, <2>4, StreamsKept DEF StreamsInv
<1>3. CASE ResumeInWrite(s) \/ ClearNeedResume(s)
  <2>1. PICK a \in {"resumed", "process"} : stream' = [stream EXCEPT ![s].at = a]
    BY <1>0, <1>3, Typed DEF ResumeInWrite, ClearNeedResume
  <2>2. /\ stream' \in [Streams -> StreamState] /\ OthersKept(s)
        /\ stream'[s].at = a /\ stream'[s].started = stream[s].started
        /\ stream'[s].main = stream[s].main /\ stream'[s].old = stream[s].old
    BY <1>0, <2>1, AtEffect DEF StreamAt
  <2>3. stream[s].at \in {"write", "resumed"} /\ ms12_main_stream_out' = ms12_main_stream_out
    BY <1>3 DEF ResumeInWrite, ClearNeedResume
  <2>4. Exclusive'
    BY <1>0, <2>2, <2>3, ExclusiveKept DEF OthersKept, StreamAt, Busy
  <2>5. Decoder(s)'
    BY <1>0, <2>2, <2>3 DEF Decoder
  <2> QED
    BY <2>2, <2>3, <2>4, <2>5, StreamsKept DEF StreamsInv
<1>4. CASE MainProcess(s)
  <2>1. stream[s].at = "process"
    BY <1>4 DEF MainProcess
  <2>2. Exclusive'
    BY <1>0, <1>4, <2>1, MainProcessEffect, ExclusiveKept DEF OthersKept, StreamAt, Busy
  <2>3. Decoder(s)'
    BY <1>4, MainProcessEffect DEF Decoder
  <2>4. ASSUME NEW t \in Streams, t # s
        PROVE  Decoder(t)'
    <3>1. SameDecoder(t) /\ Decoder(t)
      BY <1>4, <2>4, MainProcessEffect DEF OthersKept, SameDecoder
    <3>2. stream[t].at \in Aside
      BY <1>0, <2>1, <2>4 DEF Exclusive, Busy
    <3>3. stream[t].main = FALSE
      BY <1>4, <2>4, <3>1, MainProcessEffect, Ms12Assumption, Typed, Fields DEF Decoder
    <3> QED
      BY <1>4, <2>4, <3>1, <3>2, <3>3, MainProcessEffect DEF Decoder, SameDecoder, Aside
  <2> QED
    BY <1>4, <2>2, <2>3, <2>4, MainProcessEffect DEF StreamsInv
<1>5. CASE ReleaseMain(s)
  <2>1. /\ stream' \in [Streams -> StreamState] /\ OthersKept(s)
        /\ stream'[s].at = "await" /\ stream'[s].started = stream[s].started
        /\ stream'[s].main = stream[s].main /\ stream'[s].old = stream[s].old
    BY <1>0, <1>5, AtEffect DEF ReleaseMain, StreamAt
  <2>2. stream[s].at = "release" /\ ms12_main_stream_out' = ms12_main_stream_out
    BY <1>5 DEF ReleaseMain
  <2>3. Exclusive'
    BY <1>0, <2>1, <2>2, ExclusiveKept DEF OthersKept, StreamAt, Busy
  <2>4. Decoder(s)'
    BY <1>0, <2>1, <2>2 DEF Decoder, Released
  <2> QED
    BY <2>1, <2>2, <2>3, <2>4, StreamsKept DEF StreamsInv
<1>6. CASE AwaitMessages(s)
  <2>1. /\ stream' \in [Streams -> StreamState] /\ OthersKept(s)
        /\ stream'[s].at = "close" /\ stream'[s].started = stream[s].started
        /\ stream'[s].main = stream[s].main /\ stream'[s].old = stream[s].old
    BY <1>0, <1>6, AtEffect DEF AwaitMessages, StreamAt
  <2>2. stream[s].at = "await" /\ ms12_main_stream_out' = ms12_main_stream_out
    BY <1>6 DEF AwaitMessages
  <2>3. Exclusive'
    BY <1>0, <2>1, <2>2, ExclusiveKept DEF OthersKept, StreamAt, Busy
  <2>4. Decoder(s)'
    BY <1>0, <2>1, <2>2 DEF Decoder, Released
  <2> QED
    BY <2>1, <2>2, <2>3, <2>4, StreamsKept DEF StreamsInv
<1>7. CASE MainClose(s)
  <2>1. stream[s].at = "close" /\ MainClosed(s)
    BY <1>7 DEF MainClose
  <2>2. Exclusive'
    BY <1>0, <2>1, MainClosedEffect, ExclusiveKept DEF StreamAt, Busy
  <2>3. /\ stream'[s].at \in {"free", "write"} /\ stream'[s].old = NULL
        /\ ms12_main_stream_out' = NULL
        /\ \A t \in Streams : stream'[t].main = FALSE
        /\ \A t \in Streams : t # s => /\ stream[t].at \in Aside
                                       /\ stream'[t].at = stream[t].at
                                       /\ stream'[t].old = stream[t].old
    BY <2>1, MainClosedEffect
  <2>4. ASSUME NEW t \in Streams
        PROVE  Decoder(t)'
    <3>1. stream'[t].at \notin {"release", "await", "close", "resumed", "process"}
      BY <2>3 DEF Aside
    <3>2. stream'[t].old = NULL
      BY <2>3 DEF Decoder, Aside
    <3> QED
      BY <2>3, <3>1, <3>2, Ms12Assumption DEF Decoder
  <2> QED
    BY <2>1, <2>2, <2>4, MainClosedEffect DEF StreamsInv
<1>8. CASE Free(s)
  <2>1. /\ stream' \in [Streams -> StreamState] /\ OthersKept(s)
        /\ stream'[s].at = "closed" /\ stream'[s].main = FALSE /\ stream'[s].old = NULL
    BY <1>0, <1>8, FreshEffect DEF Free
  <2>2. /\ stream[s].at = "free" /\ ms12_main_stream_out' = ms12_main_stream_out
        /\ stream[s].main = FALSE
    BY <1>0, <1>8 DEF Free, Decoder
  <2>3. Exclusive'
    BY <1>0, <2>1, <2>2, ExclusiveKept DEF OthersKept, StreamAt, Busy
  <2>4. Decoder(s)'
    BY <1>0, <2>1, <2>2 DEF Decoder
  <2> QED
    BY <2>1, <2>2, <2>3, <2>4, StreamsKept DEF StreamsInv
<1> QED
  BY <1>1, <1>2, <1>3, <1>4, <1>5, <1>7, <1>8, <1>6 DEF CallStep

\* A stream that its call keeps busy is paused by nobody.
LEMMA CallNotPaused ==
  ASSUME Ms12Inv, NEW s \in Streams, NewCall(s) \/ CallStep(s)
  PROVE  \A t \in Streams : NotPaused(t)'
<1>0. /\ stream[s].at \in StreamAt /\ stream[s].paused \in BOOLEAN /\ TypeOK
      /\ \A t \in Streams : NotPaused(t)
  BY Typed, Fields DEF Ms12Inv
<1> SUFFICES \/ OthersKept(s) /\ NotPaused(s)'
             \/ \A t \in Streams : NotPaused(t)'
  BY <1>0 DEF OthersKept, NotPaused
<1>1. CASE Open(s) \/ Free(s)
  <2>1. PICK a \in {"idle", "closed"} : stream' = [stream EXCEPT ![s] = FreshStream(a)]
    BY <1>1 DEF Open, Free
  <2> QED
    BY <1>0, <2>1, FreshEffect DEF NotPaused
<1>2. CASE Pause(s) \/ Resume(s)
  <2>1. PICK p \in BOOLEAN : stream' = [stream EXCEPT ![s].paused = p]
    BY <1>2 DEF Pause, Resume
  <2>2. stream[s].at = "idle"
    BY <1>2 DEF Pause, Resume, Call
  <2> QED
    BY <1>0, <2>1, <2>2, PausedEffect DEF NotPaused, Busy
<1>3. CASE Flush(s)
  <2>1. CASE stream[s].started
    <3>1. PICK a \in {"ease", "flush"} : stream' = [stream EXCEPT ![s].at = a]
      BY <1>3, <2>1 DEF Flush
    <3> QED
      BY <1>0, <3>1, AtEffect DEF NotPaused, StreamAt, Busy
  <2>2. CASE ~stream[s].started
    <3>1. stream' = [stream EXCEPT ![s].paused = FALSE]
      BY <1>3, <2>2 DEF Flush
    <3> QED
      BY <1>0, <3>1, PausedEffect DEF NotPaused
  <2> QED
    BY <2>1, <2>2
<1>4. CASE TakeOver(s)
  <2>1. ~stream[s].paused
    BY <1>4 DEF TakeOver
  <2> QED
    BY <1>0, <1>4, <2>1, TakeOverEffect DEF NotPaused
<1>5. CASE StartWrite(s) \/ ResumeInWrite(s) \/ ClearNeedResume(s) \/ ReleaseMain(s) \/ AwaitMessages(s)
  <2>1. PICK a \in StreamAt : stream' = [stream EXCEPT ![s].at = a]
    BY <1>0, <1>5, Typed DEF StartWrite, ResumeInWrite, ClearNeedResume, ReleaseMain,
                             AwaitMessages, StreamAt
  <2>2. ~stream[s].paused
    BY <1>0, <1>5 DEF StartWrite, ResumeInWrite, ClearNeedResume, ReleaseMain, AwaitMessages,
                      NotPaused, Busy
  <2> QED
    BY <1>0, <2>1, <2>2, AtEffect DEF NotPaused
<1>6. CASE StartClose(s) \/ SendFlush(s)
  <2>1. PICK a \in StreamAt : stream' = [stream EXCEPT ![s].paused = FALSE, ![s].at = a]
    BY <1>6 DEF StartClose, SendFlush, StreamAt
  <2> QED
    BY <1>0, <2>1, MoveEffect DEF NotPaused
<1>7. CASE EaseOut(s)
  <2>1. stream' = [stream EXCEPT ![s].paused = TRUE, ![s].at = "flush"]
    BY <1>7 DEF EaseOut
  <2> QED
    BY <1>0, <2>1, MoveEffect DEF NotPaused, StreamAt, Busy
<1>8. CASE MainProcess(s)
  BY <1>8, MainProcessEffect DEF NotPaused, Busy
<1>9. CASE MainClose(s)
  <2>1. stream[s].at = "close" /\ MainClosed(s)
    BY <1>9 DEF MainClose
  <2>2. ~stream[s].paused
    BY <1>0, <2>1 DEF NotPaused, Busy
  <2> QED
    BY <1>0, <2>1, <2>2, MainClosedEffect DEF NotPaused
<1> QED
  BY <1>1, <1>2, <1>3, <1>4, <1>5, <1>6, <1>7, <1>8, <1>9 DEF NewCall, CallStep

----------------------------------------------------------------------------
(* What each call does to the list and to the flags. *)

\* The messages that the calls send together.
LEMMA Tuples ==
  /\ <<>> \in Seq(Messages) /\ Len(<<>>) = 0
  /\ <<"PAUSE">> \in Seq(Messages) /\ Len(<<"PAUSE">>) = 1 /\ <<"PAUSE">>[1] = "PAUSE"
  /\ <<"RESUME">> \in Seq(Messages) /\ Len(<<"RESUME">>) = 1 /\ <<"RESUME">>[1] = "RESUME"
  /\ <<"EXIT">> \in Seq(Messages) /\ Len(<<"EXIT">>) = 1 /\ <<"EXIT">>[1] = "EXIT"
  /\ <<"FLUSH">> \o <<>> \in Seq(Messages) /\ Len(<<"FLUSH">> \o <<>>) = 1
  /\ (<<"FLUSH">> \o <<>>)[1] = "FLUSH"
  /\ <<"FLUSH">> \o <<"RESUME">> \in Seq(Messages) /\ Len(<<"FLUSH">> \o <<"RESUME">>) = 2
  /\ (<<"FLUSH">> \o <<"RESUME">>)[2] = "RESUME"
  /\ <<"FLUSH", "RESUME">> \in Seq(Messages) /\ Len(<<"FLUSH", "RESUME">>) = 2
  /\ <<"FLUSH", "RESUME">>[2] = "RESUME"
<1>1. /\ <<>> \in Seq(Messages) /\ Len(<<>>) = 0
      /\ <<"FLUSH">> \in Seq(Messages) /\ Len(<<"FLUSH">>) = 1 /\ <<"FLUSH">>[1] = "FLUSH"
      /\ <<"RESUME">> \in Seq(Messages) /\ Len(<<"RESUME">>) = 1 /\ <<"RESUME">>[1] = "RESUME"
  BY DEF Messages
<1>2. /\ <<"FLUSH">> \o <<>> \in Seq(Messages) /\ Len(<<"FLUSH">> \o <<>>) = 1
      /\ (<<"FLUSH">> \o <<>>)[1] = "FLUSH"
  BY <1>1, Appended
<1>3. /\ <<"FLUSH">> \o <<"RESUME">> \in Seq(Messages)
      /\ Len(<<"FLUSH">> \o <<"RESUME">>) = 2 /\ (<<"FLUSH">> \o <<"RESUME">>)[2] = "RESUME"
  <2>1. PICK f \in Seq(Messages), r \in Seq(Messages) : f = <<"FLUSH">> /\ r = <<"RESUME">>
    BY <1>1
  <2>2. f \o r \in Seq(Messages) /\ Len(f \o r) = 2 /\ (f \o r)[1 + 1] = r[1]
    BY <1>1, <2>1, Appended
  <2> QED
    BY <1>1, <2>1, <2>2
<1> QED
  BY <1>1, <1>2, <1>3 DEF Messages

\* A call that sends nothing sends the empty sequence.
LEMMA SendsNothing ==
  ASSUME TypeOK, UNCHANGED list
  PROVE  Send(<<>>)
<1>1. PICK m \in Seq(Messages) : m = mesg_list
  BY Typed
<1>2. m \o <<>> = m
  BY ConcatEmptySeq
<1>3. mesg_list' = mesg_list \o <<>> /\ comm' = comm /\ late' = late
  BY <1>1, <1>2 DEF list
<1>4. Len(mesg_list) + Len(<<>>) <= MaxMessages
  BY Typed, Tuples, LenProperties, Ms12Assumption
<1> QED
  BY <1>3, <1>4, Typed DEF Send

\* What a call changes besides the streams and the list.  A stream that goes on
\* to close the decoder has found the list empty.
CallChanges(mesgs) ==
  /\ Send(mesgs)
  /\ UNCHANGED <<device, CommThread_ExitFlag, pause_flag, torn, fault>>
  /\ is_continuous_paused' \in BOOLEAN /\ need_resume' \in BOOLEAN /\ dropped' \in BOOLEAN
  /\ calls' \in 0..MaxCalls
  /\ ms12_main_stream_out # NULL => ms12_main_stream_out' = ms12_main_stream_out
  /\ \/ mesg_list' = <<>>
     \/ \A t \in Streams : stream'[t].at = "close" => stream[t].at = "close"

\* A message in the list stays where it is, so what the message thread holds
\* is what it held.
LEMMA CallKeepsHeld ==
  ASSUME Ms12Inv, StreamsInv', device = "open", ms12_main_stream_out' \in Streams \cup {NULL},
         NEW mesgs \in Seq(Messages), CallChanges(mesgs)
  PROVE  TypeOK' /\ Destroyed' /\ Held' /\ PausedStream' /\ NothingFreedIsUsed'
<1>0. TypeOK /\ comm.freed = FALSE /\ CommThread_ExitFlag = FALSE /\ Send(mesgs)
  BY DeviceOpen DEF Ms12Inv, CallChanges
<1>1. /\ mesg_list' \in Seq(Messages) /\ Len(mesg_list') <= MaxMessages
      /\ comm' \in CommState
      /\ comm'.at = comm.at \/ (comm.at = "waiting" /\ comm'.at = "woken")
      /\ comm'.stream = comm.stream /\ comm'.freed = comm.freed
      /\ comm'.at \in HasMessage => mesg_list' # <<>>
      /\ mesg_list # <<>> => mesg_list' # <<>> /\ Head(mesg_list') = Head(mesg_list)
      /\ late' \in BOOLEAN /\ (late => late')
      /\ mesg_list = <<>> /\ mesg_list' # <<>> => mesgs # <<>>
  BY <1>0, Sent
<1>2. TypeOK'
  <2>1. /\ CommThread_ExitFlag' \in BOOLEAN /\ pause_flag' \in BOOLEAN
        /\ is_continuous_paused' \in BOOLEAN /\ need_resume' \in BOOLEAN
        /\ torn' \in BOOLEAN /\ dropped' \in BOOLEAN
        /\ device' \in {"open", "flag", "exit", "join", "closed"} /\ calls' \in 0..MaxCalls
        /\ fault' \in {"none", "stream", "message"}
    BY <1>0, Typed DEF CallChanges
  <2>2. stream' \in [Streams -> StreamState]
    BY DEF StreamsInv
  <2>3. comm'.at \in HasMessage => mesg_list' # <<>> \/ comm'.freed
    BY <1>1
  <2> QED
    BY <1>1, <2>1, <2>2, <2>3, TypedAgain
<1>3. Destroyed' /\ PausedStream' /\ NothingFreedIsUsed'
  BY <1>0, <1>1 DEF Destroyed, PausedStream, NothingFreedIsUsed, CallChanges, Ms12Inv
<1>4. comm.at = "pausing" => mesg_list # <<>>
  BY <1>0, DeviceOpen DEF HasMessage
<1>5. ASSUME mesg_list' # <<>>, NEW t \in Streams, stream'[t].at = "close"
      PROVE  late'
  <2>1. stream[t].at = "close"
    BY <1>5 DEF CallChanges
  <2>2. CASE mesg_list # <<>>
    BY <1>1, <2>1, <2>2 DEF Held, Ms12Inv
  <2>3. CASE mesg_list = <<>>
    BY <1>0, <1>1, <1>5, <2>1, <2>3 DEF Send
  <2> QED
    BY <2>2, <2>3
<1>6. /\ comm'.freed => device' # "open" /\ comm'.at \in HasMessage
      /\ comm'.at = "handle" /\ device' = "open" => ms12_main_stream_out' # NULL \/ late'
  BY <1>0, <1>1 DEF Held, CallChanges, Ms12Inv
<1>7. comm'.at = "pausing" =>
        /\ pause_flag' \/ torn'
        /\ Head(mesg_list') = "PAUSE"
        /\ late' \/ (comm'.stream # NULL /\ comm'.stream = ms12_main_stream_out')
  BY <1>0, <1>1, <1>4 DEF Held, CallChanges, Ms12Inv
<1>8. Held'
  BY <1>5, <1>6, <1>7 DEF Held
<1> QED
  BY <1>2, <1>3, <1>8

\* A call that sends no switch, or a PAUSE that is expected, or a RESUME.
LEMMA CallKeepsFlags ==
  ASSUME Ms12Inv, device = "open", NEW mesgs \in Seq(Messages), CallChanges(mesgs),
         \/ /\ \A i \in 1..Len(mesgs) : mesgs[i] \notin {"PAUSE", "RESUME"}
            /\ is_continuous_paused' = is_continuous_paused
            /\ Expected => Expected'
         \/ mesgs # <<>> /\ mesgs[Len(mesgs)] = "PAUSE" /\ Expected'
         \/ mesgs # <<>> /\ mesgs[Len(mesgs)] = "RESUME"
  PROVE  FlagsMatch' /\ PauseAccounted'
<1>0. /\ TypeOK /\ comm.freed = FALSE /\ Send(mesgs)
      /\ pause_flag' = pause_flag /\ torn' = torn
  BY DeviceOpen DEF Ms12Inv, CallChanges
<1>1. CASE /\ \A i \in 1..Len(mesgs) : mesgs[i] \notin {"PAUSE", "RESUME"}
           /\ is_continuous_paused' = is_continuous_paused
           /\ Expected => Expected'
  <2>1. Unhandled' = Unhandled /\ WillBePaused' = WillBePaused
    BY <1>0, <1>1, SentNoSwitch
  <2>2. FlagsMatch'
    BY <1>0, <1>1, <2>1 DEF FlagsMatch, Ms12Inv
  <2>3. PauseAccounted'
    BY <1>1, <2>1 DEF PauseAccounted, CallChanges, Ms12Inv
  <2> QED
    BY <2>2, <2>3
<1>2. CASE mesgs # <<>> /\ mesgs[Len(mesgs)] = "PAUSE" /\ Expected'
  <2>1. Unhandled' # {}
    BY <1>0, <1>2, SentSwitch
  <2> QED
    BY <1>2, <2>1 DEF FlagsMatch, PauseAccounted
<1>3. CASE mesgs # <<>> /\ mesgs[Len(mesgs)] = "RESUME"
  <2>1. Unhandled' # {} /\ ~WillBePaused'
    BY <1>0, <1>3, SentSwitch
  <2> QED
    BY <2>1 DEF FlagsMatch, PauseAccounted
<1> QED
  BY <1>1, <1>2, <1>3

\* What is left for each call to show.
LEMMA CallInv ==
  ASSUME Ms12Inv, StreamsInv', device = "open", ms12_main_stream_out' \in Streams \cup {NULL},
         NEW mesgs \in Seq(Messages), CallChanges(mesgs), \A t \in Streams : NotPaused(t)',
         \/ /\ \A i \in 1..Len(mesgs) : mesgs[i] \notin {"PAUSE", "RESUME"}
            /\ is_continuous_paused' = is_continuous_paused
            /\ Expected => Expected'
         \/ mesgs # <<>> /\ mesgs[Len(mesgs)] = "PAUSE" /\ Expected'
         \/ mesgs # <<>> /\ mesgs[Len(mesgs)] = "RESUME"
  PROVE  Ms12Inv'
<1>1. TypeOK' /\ Destroyed' /\ Held' /\ PausedStream' /\ NothingFreedIsUsed'
  BY CallKeepsHeld
<1>2. FlagsMatch' /\ PauseAccounted'
  BY CallKeepsFlags
<1> QED
  BY <1>1, <1>2 DEF Ms12Inv, StreamsInv

\* A call that takes no pause back, or gives it up, leaves it expected.
LEMMA ExpectedKept ==
  ASSUME NEW s \in Streams, OthersKept(s), Expected,
         need_resume => need_resume', dropped => dropped',
         stream[s].paused => stream'[s].paused \/ dropped',
         stream'[s].at = "resumed" => stream[s].at = "resumed", stream[s].at # "release"
  PROVE  Expected'
<1>1. CASE \E t \in Streams : stream[t].paused
  BY <1>1 DEF Expected, OthersKept
<1>2. CASE need_resume /\ \A t \in Streams : stream[t].at # "resumed"
  BY <1>2 DEF Expected, OthersKept
<1>3. CASE dropped
  BY <1>3 DEF Expected
<1>4. CASE \E t \in Streams : stream[t].at = "release"
  BY <1>4 DEF Expected, OthersKept
<1> QED
  BY <1>1, <1>2, <1>3, <1>4 DEF Expected

\* A call that sends nothing.
LEMMA NothingInv ==
  ASSUME Ms12Inv, StreamsInv', device = "open", ms12_main_stream_out' \in Streams \cup {NULL},
         CallChanges(<<>>), \A t \in Streams : NotPaused(t)',
         is_continuous_paused' = is_continuous_paused, Expected => Expected'
  PROVE  Ms12Inv'
<1>1. PICK m \in Seq(Messages) : m = <<>> /\ Len(m) = 0
  BY Tuples
<1>2. CallChanges(m) /\ \A i \in 1..Len(m) : m[i] \notin {"PAUSE", "RESUME"}
  BY <1>1
<1> QED
  BY <1>2, CallInv

\* A call that sends a PAUSE.
LEMMA PauseInv ==
  ASSUME Ms12Inv, StreamsInv', device = "open", ms12_main_stream_out' \in Streams \cup {NULL},
         CallChanges(<<"PAUSE">>), \A t \in Streams : NotPaused(t)',
         Expected'
  PROVE  Ms12Inv'
<1>1. PICK m \in Seq(Messages) : m = <<"PAUSE">>
  BY Tuples
<1>2. m # <<>> /\ m[Len(m)] = "PAUSE"
  BY <1>1, Tuples
<1>3. CallChanges(m)
  BY <1>1
<1> QED
  BY <1>2, <1>3, CallInv

\* A call that sends a RESUME.
LEMMA ResumeInv ==
  ASSUME Ms12Inv, StreamsInv', device = "open", ms12_main_stream_out' \in Streams \cup {NULL},
         CallChanges(<<"RESUME">>), \A t \in Streams : NotPaused(t)'
  PROVE  Ms12Inv'
<1>1. PICK m \in Seq(Messages) : m = <<"RESUME">>
  BY Tuples
<1>2. m # <<>> /\ m[Len(m)] = "RESUME"
  BY <1>1, Tuples
<1>3. CallChanges(m)
  BY <1>1
<1> QED
  BY <1>2, <1>3, CallInv

\* A FLUSH with a RESUME behind it, as one sequence.
LEMMA FlushResume ==
  /\ \E m \in Seq(Messages) : /\ m = <<"FLUSH">> \o <<"RESUME">>
                              /\ m # <<>> /\ m[Len(m)] = "RESUME"
  /\ \E m \in Seq(Messages) : m = <<"FLUSH", "RESUME">> /\ m # <<>> /\ m[Len(m)] = "RESUME"
<1>1. PICK m \in Seq(Messages) : m = <<"FLUSH">> \o <<"RESUME">> /\ Len(m) = 2 /\ m[2] = "RESUME"
  BY Tuples
<1>2. PICK n \in Seq(Messages) : n = <<"FLUSH", "RESUME">> /\ Len(n) = 2 /\ n[2] = "RESUME"
  BY Tuples
<1>3. m # <<>> /\ n # <<>>
  BY <1>1, <1>2, Tuples
<1> QED
  BY <1>1, <1>2, <1>3

\* A call begins: what it sends, and why a pause stays expected.
LEMMA NewCallInv ==
  ASSUME Ms12Inv, NEW s \in Streams, NewCall(s)
  PROVE  Ms12Inv'
<1>0. /\ TypeOK /\ Decoder(s) /\ StreamsInv' /\ (\A t \in Streams : NotPaused(t)')
      /\ device = "open"
      /\ ms12_main_stream_out \in Streams \cup {NULL} /\ need_resume \in BOOLEAN
      /\ is_continuous_paused \in BOOLEAN /\ dropped \in BOOLEAN /\ calls' \in 0..MaxCalls
      /\ stream[s].at \in StreamAt /\ stream[s].paused \in BOOLEAN /\ stream[s].main \in BOOLEAN
  <2>1. TypeOK /\ Decoder(s)
    BY DEF Ms12Inv
  <2>2. device = "open" /\ calls < MaxCalls /\ calls' = calls + 1
    BY DEF NewCall, Open, Pause, Resume, Flush, TakeOver, StartWrite, StartClose, Call
  <2>3. calls' \in 0..MaxCalls
    BY <2>1, <2>2, Typed, Ms12Assumption
  <2> QED
    BY <2>1, <2>2, <2>3, Typed, Fields, NewCallStreams, CallNotPaused
<1>1. CASE Open(s)
  <2>1. /\ UNCHANGED <<list, CommThread_ExitFlag, pause, ms12_main_stream_out, device, fault>>
        /\ stream[s].at = "closed"
    BY <1>1 DEF Open
  <2>2. OthersKept(s) /\ stream'[s].at = "idle"
    BY <1>0, <1>1, FreshEffect DEF Open
  <2>3. CallChanges(<<>>) /\ is_continuous_paused' = is_continuous_paused
    BY <1>0, <2>1, <2>2, SendsNothing DEF CallChanges, pause, OthersKept
  <2>4. Expected => Expected'
    <3>1. ~stream[s].paused
      BY <2>1 DEF Ms12Inv, NotPaused
    <3> QED
      BY <1>0, <2>1, <2>2, <3>1, ExpectedKept DEF pause
  <2> QED
    BY <1>0, <2>1, <2>3, <2>4, NothingInv
<1>2. CASE Pause(s)
  <2>1. /\ ms12_main_stream_out' = ms12_main_stream_out /\ stream[s].at = "idle"
        /\ UNCHANGED pause /\ stream' = [stream EXCEPT ![s].paused = TRUE]
    BY <1>2 DEF Pause, Call
  <2>2. OthersKept(s) /\ stream'[s].at = "idle" /\ stream'[s].paused = TRUE
    BY <1>0, <2>1, PausedEffect
  <2>3. Expected'
    BY <2>2 DEF Expected
  <2>4. CASE is_continuous_paused
    <3>1. CallChanges(<<>>)
      BY <1>0, <1>2, <2>1, <2>2, <2>4 DEF Pause, CallChanges, pause, OthersKept
    <3> QED
      BY <1>0, <2>1, <2>3, <3>1, NothingInv DEF pause
  <2>5. CASE ~is_continuous_paused
    <3>1. CallChanges(<<"PAUSE">>)
      BY <1>0, <1>2, <2>1, <2>2, <2>5 DEF Pause, CallChanges, pause, OthersKept
    <3> QED
      BY <1>0, <2>1, <2>3, <3>1, PauseInv
  <2> QED
    BY <2>4, <2>5
<1>3. CASE Resume(s)
  <2>1. /\ ms12_main_stream_out' = ms12_main_stream_out
        /\ is_continuous_paused' = is_continuous_paused
        /\ need_resume' = (need_resume \/ s \in Raw) /\ stream[s].at = "idle"
        /\ dropped' = (s \in Raw /\ (dropped \/ \E t \in Streams : stream[t].at = "resumed"))
    BY <1>3 DEF Resume, Call
  <2>2. OthersKept(s) /\ stream'[s].at = "idle"
    BY <1>0, <1>3, <2>1, PausedEffect DEF Resume
  <2>3. CASE s \in Raw
    <3>1. CallChanges(<<>>)
      BY <1>0, <1>3, <2>1, <2>2, <2>3 DEF Resume, CallChanges, OthersKept
    <3>2. Expected'
      <4>1. CASE \E t \in Streams : stream[t].at = "resumed"
        BY <2>1, <2>3, <4>1 DEF Expected
      <4>2. CASE ~(\E t \in Streams : stream[t].at = "resumed")
        BY <2>1, <2>2, <2>3, <4>2 DEF Expected, OthersKept
      <4> QED
        BY <4>1, <4>2
    <3> QED
      BY <1>0, <2>1, <3>1, <3>2, NothingInv
  <2>4. CASE s \notin Raw
    <3>1. CallChanges(<<"RESUME">>)
      BY <1>0, <1>3, <2>1, <2>2, <2>4 DEF Resume, CallChanges, OthersKept
    <3> QED
      BY <1>0, <2>1, <3>1, ResumeInv
  <2> QED
    BY <2>3, <2>4
<1>4. CASE Flush(s)
  <2>1. /\ UNCHANGED <<list, CommThread_ExitFlag, pause_flag, is_continuous_paused, need_resume,
                       torn, ms12_main_stream_out, device, fault>>
        /\ stream[s].at = "idle"
        /\ dropped' = (dropped \/ (stream[s].paused /\ ~stream[s].started))
    BY <1>4 DEF Flush, Call
  <2>2. /\ OthersKept(s) /\ stream'[s].at \in {"idle", "ease", "flush"}
        /\ stream[s].paused => stream'[s].paused \/ dropped'
    <3>1. CASE stream[s].started
      <4>1. PICK a \in {"ease", "flush"} : stream' = [stream EXCEPT ![s].at = a]
        BY <1>4, <3>1 DEF Flush
      <4> QED
        BY <1>0, <4>1, AtEffect DEF StreamAt
    <3>2. CASE ~stream[s].started
      <4>1. stream' = [stream EXCEPT ![s].paused = FALSE]
        BY <1>4, <3>2 DEF Flush
      <4> QED
        BY <1>0, <2>1, <3>2, <4>1, PausedEffect
    <3> QED
      BY <3>1, <3>2
  <2>3. CallChanges(<<>>)
    BY <1>0, <2>1, <2>2, SendsNothing DEF CallChanges, OthersKept
  <2>4. Expected => Expected'
    BY <1>0, <2>1, <2>2, ExpectedKept
  <2> QED
    BY <1>0, <2>1, <2>3, <2>4, NothingInv
<1>5. CASE TakeOver(s)
  <2>1. UNCHANGED <<list, CommThread_ExitFlag, pause, ms12_main_stream_out, device, fault>>
    BY <1>5 DEF TakeOver
  <2>2. CallChanges(<<>>)
    BY <1>0, <1>5, <2>1, SendsNothing, TakeOverEffect DEF CallChanges, pause
  <2>3. Expected'
    BY <1>5, TakeOverEffect DEF Expected
  <2> QED
    BY <1>0, <2>1, <2>2, <2>3, NothingInv DEF pause
<1>6. CASE StartWrite(s)
  <2>1. /\ UNCHANGED <<list, CommThread_ExitFlag, pause, ms12_main_stream_out, device, fault>>
        /\ stream[s].at = "idle"
    BY <1>6 DEF StartWrite, Call
  <2>2. OthersKept(s) /\ stream'[s].at = "write" /\ stream'[s].paused = stream[s].paused
    BY <1>0, <1>6, AtEffect DEF StartWrite, StreamAt
  <2>3. CallChanges(<<>>)
    BY <1>0, <2>1, <2>2, SendsNothing DEF CallChanges, pause, OthersKept
  <2>4. Expected => Expected'
    BY <1>0, <2>1, <2>2, ExpectedKept DEF pause
  <2> QED
    BY <1>0, <2>1, <2>3, <2>4, NothingInv DEF pause
<1>7. CASE StartClose(s)
  <2>1. /\ UNCHANGED <<list, CommThread_ExitFlag, pause_flag, is_continuous_paused, need_resume,
                       torn, ms12_main_stream_out, device, fault>>
        /\ stream[s].at = "idle"
        /\ dropped' = (dropped \/ (stream[s].paused /\ ~stream[s].main))
    BY <1>7 DEF StartClose, Call
  <2>2. PICK a \in {"release", "free"} :
          /\ a = IF stream[s].main THEN "release" ELSE "free"
          /\ stream' = [stream EXCEPT ![s].paused = FALSE, ![s].at = a]
    BY <1>7 DEF StartClose
  <2>3. OthersKept(s) /\ stream'[s].at = a
    BY <1>0, <2>2, MoveEffect DEF StreamAt
  <2>4. CallChanges(<<>>)
    BY <1>0, <2>1, <2>3, SendsNothing DEF CallChanges, OthersKept
  <2>5. Expected => Expected'
    <3>1. CASE stream[s].main
      BY <2>2, <2>3, <3>1 DEF Expected
    <3>2. CASE ~stream[s].main
      BY <1>0, <2>1, <2>3, <3>2, ExpectedKept
    <3> QED
      BY <3>1, <3>2
  <2> QED
    BY <1>0, <2>1, <2>4, <2>5, NothingInv
<1> QED
  BY <1>1, <1>2, <1>3, <1>4, <1>5, <1>6, <1>7 DEF NewCall

\* The decoder is closed.  What waits in the list then was sent late.
LEMMA MainCloseInv ==
  ASSUME Ms12Inv, NEW s \in Streams, MainClose(s)
  PROVE  Ms12Inv'
<1>0. /\ TypeOK /\ Held /\ Destroyed /\ StreamsInv' /\ (\A t \in Streams : NotPaused(t)')
      /\ stream[s].at = "close" /\ MainClosed(s) /\ device = "open"
      /\ comm.freed = FALSE /\ CommThread_ExitFlag = FALSE
      /\ comm.at \in HasMessage => mesg_list # <<>>
  <2>1. CallStep(s) /\ stream[s].at = "close" /\ MainClosed(s)
    BY DEF CallStep, MainClose
  <2> QED
    BY <2>1, CallStepStreams, CallNotPaused, DeviceOpen DEF Ms12Inv
<1>1. /\ UNCHANGED <<mesg_list, comm, late, CommThread_ExitFlag, need_resume, dropped, device,
                     calls, fault>>
      /\ ms12_main_stream_out' = NULL /\ pause_flag' = FALSE /\ is_continuous_paused' = FALSE
      /\ torn' = (comm.at = "pausing")
      /\ stream'[s].at \in {"free", "write"} /\ stream'[s].paused = stream[s].paused
      /\ \A t \in Streams : t # s => stream'[t].at = stream[t].at /\ stream'[t].paused = stream[t].paused
  BY <1>0, MainClosedEffect DEF MainClose, list
<1>2. TypeOK'
  <2>1. /\ stream' \in [Streams -> StreamState] /\ pause_flag' \in BOOLEAN
        /\ is_continuous_paused' \in BOOLEAN /\ ms12_main_stream_out' \in Streams \cup {NULL}
        /\ torn' \in BOOLEAN
    BY <1>0, <1>1 DEF StreamsInv
  <2> QED
    BY <1>0, <1>1, <2>1, Typed, TypedAgain
<1>3. comm.at \in HasMessage => late
  BY <1>0 DEF Held
<1>4. Held'
  BY <1>0, <1>1, <1>3 DEF Held, HasMessage
<1>5. Destroyed' /\ PausedStream' /\ NothingFreedIsUsed'
  BY <1>0, <1>1 DEF Destroyed, PausedStream, NothingFreedIsUsed, Ms12Inv
<1>6. Unhandled' = Unhandled
  BY <1>1, UnhandledKept
<1>7. comm.at = "pausing" => Unhandled # {}
  <2>1. comm.at = "pausing" => mesg_list # <<>> /\ Head(mesg_list) = "PAUSE"
    BY <1>0 DEF Held, HasMessage
  <2> QED
    BY <1>0, <2>1, HeadUnhandled
<1>8. FlagsMatch'
  BY <1>1, <1>6, <1>7 DEF FlagsMatch
<1>9. WillBePaused' => WillBePaused
  BY <1>1, <1>6 DEF WillBePaused
<1>10. Expected => Expected'
  <2>1. CASE \E t \in Streams : stream[t].paused
    BY <1>1, <2>1 DEF Expected
  <2>2. CASE need_resume /\ \A t \in Streams : stream[t].at # "resumed"
    <3>1. \A t \in Streams : stream'[t].at # "resumed"
      BY <1>1, <2>2
    <3> QED
      BY <1>1, <2>2, <3>1 DEF Expected
  <2>3. CASE dropped
    BY <1>1, <2>3 DEF Expected
  <2>4. CASE \E t \in Streams : stream[t].at = "release"
    BY <1>0, <1>1, <2>4 DEF Expected
  <2> QED
    BY <2>1, <2>2, <2>3, <2>4 DEF Expected
<1>11. PauseAccounted'
  BY <1>0, <1>9, <1>10 DEF PauseAccounted, Ms12Inv
<1> QED
  BY <1>0, <1>2, <1>4, <1>5, <1>8, <1>11 DEF Ms12Inv, StreamsInv

\* A stream is freed: the thread's pointer to it, if it has one, was kept late.
LEMMA FreeInv ==
  ASSUME Ms12Inv, NEW s \in Streams, Free(s)
  PROVE  Ms12Inv'
<1>0. /\ TypeOK /\ Held /\ Destroyed /\ StreamsInv' /\ (\A t \in Streams : NotPaused(t)')
      /\ stream[s].at = "free" /\ Decoder(s) /\ NotPaused(s) /\ comm \in CommState
  BY CallStepStreams, CallNotPaused, Typed DEF Ms12Inv, CallStep, Free
<1>1. /\ UNCHANGED <<mesg_list, late, CommThread_ExitFlag, pause, ms12_main_stream_out, device,
                     calls, fault>>
      /\ comm' = [comm EXCEPT !.stream = IF @ = s THEN NULL ELSE @]
  BY DEF Free
<1>2. OthersKept(s) /\ stream'[s].at = "closed"
  BY <1>0, FreshEffect DEF Free
<1>3. /\ comm' \in CommState /\ comm'.at = comm.at /\ comm'.freed = comm.freed
      /\ comm'.stream = IF comm.stream = s THEN NULL ELSE comm.stream
  BY <1>0, <1>1 DEF CommState
<1>4. TypeOK'
  BY <1>0, <1>1, <1>3, Typed, TypedAgain DEF StreamsInv, pause
<1>5. ms12_main_stream_out # s
  BY <1>0 DEF Decoder
<1>6. mesg_list' # <<>> /\ (\E t \in Streams : stream'[t].at = "close") => late'
  BY <1>0, <1>1, <1>2 DEF Held, OthersKept
<1>7. comm'.at = "pausing" =>
        /\ pause_flag' \/ torn'
        /\ comm'.freed \/ Head(mesg_list') = "PAUSE"
        /\ late' \/ (comm'.stream # NULL /\ comm'.stream = ms12_main_stream_out')
  BY <1>0, <1>1, <1>3, <1>5 DEF Held, pause
<1>8. Held'
  BY <1>0, <1>1, <1>3, <1>6, <1>7 DEF Held
<1>9. Destroyed' /\ PausedStream' /\ NothingFreedIsUsed'
  BY <1>0, <1>1, <1>2, <1>3 DEF Destroyed, PausedStream, NothingFreedIsUsed, Ms12Inv, pause,
                               OthersKept
<1>10. Unhandled' = Unhandled
  BY <1>1, <1>3, UnhandledKept
<1>11. FlagsMatch'
  BY <1>1, <1>10 DEF FlagsMatch, Ms12Inv, pause
<1>12. WillBePaused' => WillBePaused
  BY <1>1, <1>10 DEF WillBePaused, pause
<1>13. Expected => Expected'
  <2>1. ~stream[s].paused
    BY <1>0 DEF NotPaused, Busy
  <2> QED
    BY <1>0, <1>1, <1>2, <2>1, ExpectedKept DEF pause
<1>14. PauseAccounted'
  BY <1>1, <1>12, <1>13 DEF PauseAccounted, Ms12Inv
<1> QED
  BY <1>0, <1>4, <1>8, <1>9, <1>11, <1>14 DEF Ms12Inv, StreamsInv

\* A call goes on.
LEMMA CallStepInv ==
  ASSUME Ms12Inv, NEW s \in Streams, CallStep(s)
  PROVE  Ms12Inv'
<1>0. /\ TypeOK /\ Decoder(s) /\ StreamsInv' /\ (\A t \in Streams : NotPaused(t)')
      /\ device = "open"
      /\ ms12_main_stream_out \in Streams \cup {NULL} /\ need_resume \in BOOLEAN
      /\ is_continuous_paused \in BOOLEAN /\ dropped \in BOOLEAN /\ calls' \in 0..MaxCalls
      /\ stream[s].at \in StreamAt /\ stream[s].paused \in BOOLEAN /\ stream[s].main \in BOOLEAN
  <2>1. TypeOK /\ Decoder(s)
    BY DEF Ms12Inv
  <2>2. stream[s].at # "closed" /\ calls' = calls
    BY DEF CallStep, EaseOut, SendFlush, ResumeInWrite, ClearNeedResume, MainProcess, ReleaseMain,
           AwaitMessages, MainClose, Free
  <2> QED
    BY <2>1, <2>2, Typed, Fields, CallStepStreams, CallNotPaused, DeviceOpen
<1>1. CASE EaseOut(s)
  <2>1. /\ ms12_main_stream_out' = ms12_main_stream_out
        /\ stream' = [stream EXCEPT ![s].paused = TRUE, ![s].at = "flush"]
    BY <1>1 DEF EaseOut
  <2>2. OthersKept(s) /\ stream'[s].at = "flush" /\ stream'[s].paused = TRUE
    BY <1>0, <2>1, MoveEffect DEF StreamAt
  <2>3. CallChanges(<<"PAUSE">>)
    BY <1>0, <1>1, <2>2 DEF EaseOut, CallChanges, OthersKept
  <2>4. Expected'
    BY <2>2 DEF Expected
  <2> QED
    BY <1>0, <2>1, <2>3, <2>4, PauseInv
<1>2. CASE SendFlush(s)
  <2>0. PICK resume \in BOOLEAN : resume = (stream[s].paused \/ is_continuous_paused)
    BY <1>0
  <2>1. /\ ms12_main_stream_out' = ms12_main_stream_out /\ need_resume' = need_resume
        /\ is_continuous_paused' = is_continuous_paused /\ dropped' = (dropped /\ ~resume)
        /\ stream' = [stream EXCEPT ![s].paused = FALSE, ![s].at = "idle"]
        /\ stream[s].at = "flush"
        /\ UNCHANGED <<device, CommThread_ExitFlag, pause_flag, torn, fault>>
        /\ Send(<<"FLUSH">> \o IF resume THEN <<"RESUME">> ELSE <<>>)
    BY <1>2, <2>0 DEF SendFlush
  <2>2. OthersKept(s) /\ stream'[s].at = "idle"
    BY <1>0, <2>1, MoveEffect DEF StreamAt
  <2>3. CASE resume
    <3>1. CallChanges(<<"FLUSH">> \o <<"RESUME">>)
      BY <1>0, <2>1, <2>2, <2>3 DEF CallChanges, OthersKept
    <3>2. PICK m \in Seq(Messages) : /\ m = <<"FLUSH">> \o <<"RESUME">>
                                     /\ m # <<>> /\ m[Len(m)] = "RESUME"
      BY FlushResume
    <3>3. CallChanges(m)
      BY <3>1, <3>2
    <3> QED
      BY <1>0, <2>1, <3>2, <3>3, CallInv
  <2>4. CASE ~resume
    <3>1. CallChanges(<<"FLUSH">> \o <<>>)
      BY <1>0, <2>1, <2>2, <2>4 DEF CallChanges, OthersKept
    <3>2. PICK m \in Seq(Messages) : m = <<"FLUSH">> \o <<>> /\ Len(m) = 1 /\ m[1] = "FLUSH"
      BY Tuples
    <3>3. CallChanges(m) /\ \A i \in 1..Len(m) : m[i] \notin {"PAUSE", "RESUME"}
      BY <3>1, <3>2
    <3>4. Expected => Expected'
      BY <1>0, <2>0, <2>1, <2>2, <2>4, ExpectedKept
    <3> QED
      BY <1>0, <2>1, <3>3, <3>4, CallInv
  <2> QED
    BY <2>3, <2>4
<1>3. CASE ResumeInWrite(s)
  <2>1. /\ ms12_main_stream_out' = ms12_main_stream_out /\ need_resume' = need_resume
        /\ is_continuous_paused' = is_continuous_paused /\ dropped' = (dropped /\ ~need_resume)
        /\ stream' = [stream EXCEPT ![s].at = IF need_resume THEN "resumed" ELSE "process"]
        /\ stream[s].at = "write"
        /\ UNCHANGED <<device, CommThread_ExitFlag, pause_flag, torn, fault>>
    BY <1>3 DEF ResumeInWrite
  <2>2. /\ OthersKept(s) /\ stream'[s].paused = stream[s].paused
        /\ stream'[s].at = IF need_resume THEN "resumed" ELSE "process"
    BY <1>0, <2>1, AtEffect DEF StreamAt
  <2>3. CASE need_resume
    <3>1. CallChanges(<<"RESUME">>)
      BY <1>0, <1>3, <2>1, <2>2, <2>3 DEF ResumeInWrite, CallChanges, OthersKept
    <3> QED
      BY <1>0, <2>1, <3>1, ResumeInv
  <2>4. CASE ~need_resume
    <3>1. CallChanges(<<>>)
      BY <1>0, <1>3, <2>1, <2>2, <2>4 DEF ResumeInWrite, CallChanges, OthersKept
    <3>2. Expected => Expected'
      BY <1>0, <2>1, <2>2, <2>4, ExpectedKept
    <3> QED
      BY <1>0, <2>1, <3>1, <3>2, NothingInv
  <2> QED
    BY <2>3, <2>4
<1>4. CASE ClearNeedResume(s)
  <2>1. /\ UNCHANGED <<list, CommThread_ExitFlag, pause_flag, is_continuous_paused, torn, dropped,
                       ms12_main_stream_out, device, calls, fault>>
        /\ need_resume' = FALSE /\ stream[s].at = "resumed"
        /\ stream' = [stream EXCEPT ![s].at = "process"]
    BY <1>4 DEF ClearNeedResume
  <2>2. /\ OthersKept(s) /\ stream'[s].paused = stream[s].paused /\ stream'[s].at = "process"
    BY <1>0, <2>1, AtEffect DEF StreamAt
  <2>3. CallChanges(<<>>)
    BY <1>0, <2>1, <2>2, SendsNothing DEF CallChanges, OthersKept
  <2>4. Expected => Expected'
    BY <2>1, <2>2 DEF Expected, OthersKept
  <2> QED
    BY <1>0, <2>1, <2>3, <2>4, NothingInv
<1>5. CASE MainProcess(s)
  <2>1. /\ OthersKept(s) /\ stream'[s].paused = stream[s].paused /\ stream'[s].at = "idle"
        /\ ms12_main_stream_out \in {NULL, s} /\ ms12_main_stream_out' = s
    BY <1>5, MainProcessEffect
  <2>2. /\ UNCHANGED <<list, CommThread_ExitFlag, pause, device, calls, fault>>
        /\ stream[s].at = "process"
    BY <1>5 DEF MainProcess
  <2>3. CallChanges(<<>>)
    BY <1>0, <2>1, <2>2, SendsNothing DEF CallChanges, pause, OthersKept
  <2>4. Expected => Expected'
    BY <1>0, <2>1, <2>2, ExpectedKept DEF pause
  <2> QED
    BY <1>0, <2>1, <2>2, <2>3, <2>4, NothingInv DEF pause
<1>6. CASE ReleaseMain(s)
  <2>1. /\ ms12_main_stream_out' = ms12_main_stream_out
        /\ stream' = [stream EXCEPT ![s].at = "await"]
    BY <1>6 DEF ReleaseMain
  <2>2. OthersKept(s) /\ stream'[s].at = "await"
    BY <1>0, <2>1, AtEffect DEF StreamAt
  <2>3. CallChanges(<<"FLUSH", "RESUME">>)
    BY <1>0, <1>6, <2>2 DEF ReleaseMain, CallChanges, OthersKept
  <2>4. PICK m \in Seq(Messages) : /\ m = <<"FLUSH", "RESUME">>
                                   /\ m # <<>> /\ m[Len(m)] = "RESUME"
    BY FlushResume
  <2>5. CallChanges(m)
    BY <2>3, <2>4
  <2> QED
    BY <1>0, <2>1, <2>4, <2>5, CallInv
<1>7. CASE AwaitMessages(s)
  <2>1. /\ UNCHANGED <<list, CommThread_ExitFlag, pause, ms12_main_stream_out, device, calls, fault>>
        /\ stream[s].at = "await" /\ mesg_list = <<>>
        /\ stream' = [stream EXCEPT ![s].at = "close"]
    BY <1>7 DEF AwaitMessages
  <2>2. /\ OthersKept(s) /\ stream'[s].at = "close" /\ stream'[s].paused = stream[s].paused
    BY <1>0, <2>1, AtEffect DEF StreamAt
  <2>3. CallChanges(<<>>)
    BY <1>0, <2>1, SendsNothing DEF CallChanges, pause, list
  <2>4. Expected => Expected'
    BY <1>0, <2>1, <2>2, ExpectedKept DEF pause
  <2> QED
    BY <1>0, <2>1, <2>3, <2>4, NothingInv DEF pause
<1> QED
  BY <1>1, <1>2, <1>3, <1>4, <1>5, <1>6, <1>7, MainCloseInv, FreeInv DEF CallStep

----------------------------------------------------------------------------
(* The message thread. *)

\* What the thread leaves alone.
CommKeeps ==
  UNCHANGED <<CommThread_ExitFlag, need_resume, dropped, ms12_main_stream_out, stream, device,
              calls>>

\* The streams and their decoder are as they were.
LEMMA StreamsUnchanged ==
  ASSUME Ms12Inv, stream' = stream, ms12_main_stream_out' = ms12_main_stream_out
  PROVE  Exclusive' /\ \A t \in Streams : Decoder(t)' /\ NotPaused(t)'
<1>1. Exclusive' /\ \A t \in Streams : NotPaused(t)'
  BY DEF Ms12Inv, Exclusive, NotPaused
<1>2. \A t \in Streams : SameDecoder(t)
  BY DEF SameDecoder
<1> QED
  BY <1>1, <1>2, DecoderKept DEF Ms12Inv

\* The thread's part of the type invariant.
LEMMA CommTyped ==
  ASSUME TypeOK, CommKeeps, comm' \in CommState, mesg_list' \in Seq(Messages),
         Len(mesg_list') <= MaxMessages,
         comm'.at \in HasMessage => mesg_list' # <<>> \/ comm'.freed,
         pause_flag' \in BOOLEAN, is_continuous_paused' \in BOOLEAN,
         late' \in BOOLEAN, torn' \in BOOLEAN, fault' \in {"none", "stream", "message"}
  PROVE  TypeOK'
BY Typed, TypedAgain DEF CommKeeps

\* What is left for each step of the thread to show.
LEMMA CommInv ==
  ASSUME Ms12Inv, CommKeeps, TypeOK', Held', NothingFreedIsUsed', PausedStream',
         device # "open" => mesg_list' = mesg_list \/ mesg_list' = <<>>,
         device = "open" => FlagsMatch' /\ (WillBePaused' => WillBePaused)
  PROVE  Ms12Inv'
<1>1. Exclusive' /\ \A t \in Streams : Decoder(t)' /\ NotPaused(t)'
  BY StreamsUnchanged DEF CommKeeps
<1>2. Destroyed'
  BY DEF Ms12Inv, Destroyed, CommKeeps
<1>3. FlagsMatch'
  BY DEF FlagsMatch, CommKeeps
<1>4. PauseAccounted'
  <2>1. Expected => Expected'
    BY DEF Expected, CommKeeps
  <2> QED
    BY <2>1 DEF Ms12Inv, PauseAccounted, CommKeeps
<1> QED
  BY <1>1, <1>2, <1>3, <1>4 DEF Ms12Inv

\* Up to the handling of a message nothing but the thread's place changes.
LEMMA MoveInv ==
  ASSUME Ms12Inv, NEW a \in CommAt \ {"pausing", "remove"},
         comm' = [comm EXCEPT !.at = a], comm.at # "remove", fault = "none",
         UNCHANGED <<mesg_list, late, CommThread_ExitFlag, pause, ms12_main_stream_out, stream,
                     device, calls, fault>>,
         a \in HasMessage => mesg_list # <<>> \/ comm.freed,
         comm.freed => a \in HasMessage,
         a = "handle" /\ device = "open" => ms12_main_stream_out # NULL
  PROVE  Ms12Inv'
<1>1. TypeOK /\ comm \in CommState
  BY Typed DEF Ms12Inv
<1>2. comm' \in CommState /\ comm'.at = a /\ comm'.stream = comm.stream /\ comm'.freed = comm.freed
  BY <1>1, CommFields DEF CommState
<1>3. CommKeeps
  BY DEF CommKeeps, pause
<1>4. TypeOK'
  BY <1>1, <1>2, <1>3, Typed, CommTyped DEF pause
<1>5. Held'
  BY <1>2 DEF Held, Ms12Inv
<1>6. NothingFreedIsUsed' /\ PausedStream'
  BY DEF NothingFreedIsUsed, PausedStream, Ms12Inv, pause
<1>7. Unhandled' = Unhandled
  BY <1>2, UnhandledKept
<1>8. WillBePaused' = WillBePaused
  BY <1>7 DEF WillBePaused, pause
<1>9. FlagsMatch'
  BY <1>7 DEF FlagsMatch, Ms12Inv, pause
<1> QED
  BY <1>3, <1>4, <1>5, <1>8, <1>9, <1>6, CommInv

\* What handles the message at the head has an open stream, but for a message
\* that was sent late: only an EXIT_THREAD is left when the streams are gone.
LEMMA HandledStream ==
  ASSUME Ms12Inv, Handles({"PAUSE", "RESUME", "FLUSH"})
  PROVE  /\ device = "open" /\ mesg_list # <<>>
         /\ late \/ IsOpen(ms12_main_stream_out)
<1>1. TypeOK /\ comm.freed = FALSE /\ comm.at = "handle"
  BY Typed, CommFields DEF Ms12Inv, Handles
<1>2. mesg_list # <<>>
  BY <1>1, Typed DEF HasMessage
<1>3. device = "open"
  <2>1. device # "open" => mesg_list = <<"EXIT">>
    BY <1>2 DEF Ms12Inv, Destroyed
  <2>2. Head(<<"EXIT">>) = "EXIT"
    OBVIOUS
  <2> QED
    BY <2>1, <2>2 DEF Handles
<1>4. late \/ ms12_main_stream_out \in Streams
  BY <1>1, <1>3, Typed DEF Ms12Inv, Held
<1> QED
  BY <1>2, <1>3, <1>4, Ms12Assumption DEF IsOpen, Ms12Inv, Decoder

\* The message thread keeps the invariant.
LEMMA CommStepInv ==
  ASSUME Ms12Inv, CommStep, fault = "none"
  PROVE  Ms12Inv'
<1>0. /\ TypeOK /\ Held /\ comm \in CommState /\ comm.at \in CommAt /\ comm.freed \in BOOLEAN
      /\ comm.stream \in Streams \cup {NULL} /\ mesg_list \in Seq(Messages)
      /\ Len(mesg_list) <= MaxMessages /\ pause_flag \in BOOLEAN
      /\ is_continuous_paused \in BOOLEAN /\ CommThread_ExitFlag \in BOOLEAN
      /\ late \in BOOLEAN /\ torn \in BOOLEAN /\ ms12_main_stream_out \in Streams \cup {NULL}
      /\ comm.at \in HasMessage => mesg_list # <<>> \/ comm.freed
  BY Typed, CommFields DEF Ms12Inv
<1>1. CASE WaitMessage
  BY <1>0, <1>1, MoveInv DEF WaitMessage, Held, CommAt, HasMessage
<1>2. CASE TakeMessage
  <2>1. PICK a \in {"loop", "done", "hold"} :
          comm' = [comm EXCEPT !.at = a] /\ (a = "hold" => mesg_list # <<>>)
    BY <1>2 DEF TakeMessage, AtEndOfLoop
  <2>2. comm.at \in {"loop", "woken"}
    BY <1>2 DEF TakeMessage
  <2>3. comm.freed = FALSE
    BY <1>0, <2>2 DEF Held, HasMessage
  <2>4. a \in CommAt \ {"pausing", "remove"} /\ (a \in HasMessage => mesg_list # <<>>)
    BY <2>1 DEF CommAt, HasMessage
  <2>5. UNCHANGED <<mesg_list, late, CommThread_ExitFlag, pause, ms12_main_stream_out, stream,
                    device, calls, fault>>
    BY <1>2 DEF TakeMessage
  <2> QED
    BY <2>1, <2>2, <2>3, <2>4, <2>5, MoveInv
<1>3. CASE AwaitMainStream
  <2>1. device = "open" => ms12_main_stream_out # NULL
    BY <1>3, DeviceOpen DEF AwaitMainStream
  <2> QED
    BY <1>0, <1>3, <2>1, MoveInv DEF AwaitMainStream, CommAt, HasMessage
<1>4. CASE UseFreedMessage
  <2>1. /\ CommKeeps /\ mesg_list' = mesg_list /\ comm' = comm /\ late' = late
        /\ fault' = "message" /\ UNCHANGED pause /\ device # "open"
    BY <1>0, <1>4 DEF UseFreedMessage, CommKeeps, list, pause, Held
  <2>2. TypeOK'
    BY <1>0, <2>1, CommTyped DEF pause
  <2>3. Held' /\ NothingFreedIsUsed'
    BY <1>0, <2>1 DEF Held, CommKeeps, pause, NothingFreedIsUsed
  <2>4. PausedStream'
    BY <2>1, <1>0 DEF PausedStream, Ms12Inv, CommKeeps, pause
  <2> QED
    BY <2>1, <2>2, <2>3, <2>4, CommInv
<1>5. CASE HandlePause
  <2>1. device = "open" /\ mesg_list # <<>> /\ (late \/ IsOpen(ms12_main_stream_out))
    BY <1>5, HandledStream DEF HandlePause, Handles
  <2>2. /\ CommKeeps /\ mesg_list' = mesg_list /\ late' = late /\ pause_flag' = TRUE
        /\ torn' = FALSE /\ is_continuous_paused' = is_continuous_paused
        /\ fault' = FaultAtUse(ms12_main_stream_out)
        /\ comm' = [comm EXCEPT !.at = "pausing", !.stream = ms12_main_stream_out]
        /\ Head(mesg_list) = "PAUSE" /\ comm.at = "handle" /\ comm.freed = FALSE
    BY <1>0, <1>5 DEF HandlePause, CommKeeps, Handles
  <2>3. /\ comm' \in CommState /\ comm'.at = "pausing" /\ comm'.stream = ms12_main_stream_out
        /\ comm'.freed = FALSE
    BY <1>0, <2>2 DEF CommState, CommAt
  <2>4. /\ fault' \in {"none", "stream"}
        /\ fault' = "none" => IsOpen(ms12_main_stream_out)
        /\ fault' = "stream" => late
    BY <2>1, <2>2 DEF FaultAtUse
  <2>5. TypeOK'
    BY <1>0, <2>1, <2>2, <2>3, <2>4, Typed, CommTyped
  <2>6. Held'
    <3>1. late \/ ms12_main_stream_out # NULL
      BY <2>1 DEF IsOpen
    <3>2. mesg_list' # <<>> /\ (\E t \in Streams : stream'[t].at = "close") => late'
      BY <1>0, <2>2 DEF Held, CommKeeps
    <3> QED
      BY <2>1, <2>2, <2>3, <3>1, <3>2 DEF Held, CommKeeps
  <2>7. NothingFreedIsUsed' /\ PausedStream'
    BY <2>2, <2>4 DEF NothingFreedIsUsed, PausedStream, IsOpen, CommKeeps
  <2>8. Unhandled' = Unhandled /\ 1 \in Unhandled
    BY <1>0, <2>1, <2>2, <2>3, UnhandledKept, HeadUnhandled
  <2>9. WillBePaused' => WillBePaused
    BY <2>2, <2>8 DEF WillBePaused
  <2>10. FlagsMatch'
    BY <2>8 DEF FlagsMatch
  <2> QED
    BY <2>2, <2>5, <2>6, <2>7, <2>9, <2>10, CommInv
<1>6. CASE HandlePauseEnd
  <2>1. /\ comm.at = "pausing" /\ (pause_flag \/ torn)
        /\ comm.freed \/ (mesg_list # <<>> /\ Head(mesg_list) = "PAUSE")
        /\ late \/ (comm.stream # NULL /\ comm.stream = ms12_main_stream_out)
        /\ comm.freed => device # "open"
    BY <1>0, <1>6 DEF HandlePauseEnd, Held, HasMessage
  <2>2. late \/ IsOpen(comm.stream)
    BY <1>0, <2>1, Ms12Assumption DEF IsOpen, Ms12Inv, Decoder
  <2>3. /\ CommKeeps /\ mesg_list' = mesg_list /\ late' = late /\ pause_flag' = pause_flag
        /\ torn' = torn /\ is_continuous_paused' = TRUE /\ fault' = FaultAtUse(comm.stream)
        /\ comm' = [comm EXCEPT !.at = "remove", !.stream = NULL]
    BY <1>6 DEF HandlePauseEnd, CommKeeps
  <2>4. comm' \in CommState /\ comm'.at = "remove" /\ comm'.freed = comm.freed
    BY <1>0, <2>1, <2>3 DEF CommState, CommAt
  <2>5. fault' \in {"none", "stream"} /\ (fault' = "stream" => late)
    BY <2>2, <2>3 DEF FaultAtUse
  <2>6. TypeOK'
    BY <1>0, <2>1, <2>3, <2>4, <2>5, Typed, CommTyped
  <2>7. Held'
    <3>1. mesg_list' # <<>> /\ (\E t \in Streams : stream'[t].at = "close") => late'
      BY <1>0, <2>3 DEF Held, CommKeeps
    <3> QED
      BY <2>1, <2>3, <2>4, <3>1 DEF Held, CommKeeps, HasMessage
  <2>8. NothingFreedIsUsed' /\ PausedStream'
    BY <2>3, <2>5 DEF NothingFreedIsUsed, PausedStream, CommKeeps, Ms12Inv
  <2>9. ASSUME device = "open"
        PROVE  WillBePaused' => WillBePaused
    <3>1. /\ 1 \in Unhandled /\ Unhandled' = Unhandled \ {1} /\ mesg_list[1] = "PAUSE"
          /\ \A i \in Unhandled : i \in Nat /\ i >= 1
      BY <1>0, <2>1, <2>3, <2>4, <2>9, UnhandledHead
    <3>2. CASE Unhandled' = {}
      BY <3>1, <3>2 DEF WillBePaused
    <3>3. CASE Unhandled' # {}
      BY <2>3, <3>1, <3>3 DEF WillBePaused
    <3> QED
      BY <3>2, <3>3
  <2>10. FlagsMatch'
    BY <2>1, <2>3 DEF FlagsMatch
  <2> QED
    BY <2>3, <2>6, <2>7, <2>8, <2>9, <2>10, CommInv
<1>7. CASE HandleResume
  <2>1. device = "open" /\ mesg_list # <<>> /\ (late \/ IsOpen(ms12_main_stream_out))
    BY <1>7, HandledStream DEF HandleResume, Handles
  <2>2. /\ CommKeeps /\ mesg_list' = mesg_list /\ late' = late /\ pause_flag' = FALSE
        /\ torn' = FALSE /\ is_continuous_paused' = FALSE
        /\ fault' = FaultAtUse(ms12_main_stream_out)
        /\ comm' = [comm EXCEPT !.at = "remove"]
        /\ Head(mesg_list) = "RESUME" /\ comm.at = "handle" /\ comm.freed = FALSE
    BY <1>0, <1>7 DEF HandleResume, CommKeeps, Handles
  <2>3. comm' \in CommState /\ comm'.at = "remove" /\ comm'.freed = FALSE
    BY <1>0, <2>2 DEF CommState, CommAt
  <2>4. fault' \in {"none", "stream"} /\ (fault' = "stream" => late)
    BY <2>1, <2>2 DEF FaultAtUse
  <2>5. TypeOK'
    BY <1>0, <2>1, <2>2, <2>3, <2>4, Typed, CommTyped
  <2>6. Held'
    BY <1>0, <2>2, <2>3 DEF Held, CommKeeps
  <2>7. NothingFreedIsUsed' /\ PausedStream'
    BY <2>2, <2>4 DEF NothingFreedIsUsed, PausedStream
  <2>8. /\ 1 \in Unhandled /\ Unhandled' = Unhandled \ {1} /\ mesg_list[1] = "RESUME"
        /\ \A i \in Unhandled : i \in Nat /\ i >= 1
    BY <1>0, <2>1, <2>2, <2>3, UnhandledHead
  <2>9. WillBePaused' => WillBePaused
    BY <2>2, <2>8 DEF WillBePaused
  <2>10. FlagsMatch'
    BY <2>2 DEF FlagsMatch
  <2> QED
    BY <2>2, <2>5, <2>6, <2>7, <2>9, <2>10, CommInv
<1>8. CASE HandleOther
  <2>1. comm.at = "handle" /\ comm.freed = FALSE /\ mesg_list # <<>>
        /\ Head(mesg_list) \in {"FLUSH", "EXIT"}
    BY <1>0, <1>8 DEF HandleOther, Handles, HasMessage
  <2>2. Head(mesg_list) = "FLUSH" => late \/ IsOpen(ms12_main_stream_out)
    BY <2>1, HandledStream DEF Handles
  <2>3. /\ CommKeeps /\ mesg_list' = mesg_list /\ late' = late /\ UNCHANGED pause
        /\ fault' = IF Head(mesg_list) = "FLUSH" THEN FaultAtUse(ms12_main_stream_out) ELSE fault
        /\ comm' = [comm EXCEPT !.at = "remove"]
    BY <1>8 DEF HandleOther, CommKeeps, pause
  <2>4. comm' \in CommState /\ comm'.at = "remove" /\ comm'.freed = FALSE
    BY <1>0, <2>1, <2>3 DEF CommState, CommAt
  <2>5. fault' \in {"none", "stream"} /\ (fault' = "stream" => late)
    BY <2>2, <2>3 DEF FaultAtUse
  <2>6. TypeOK'
    BY <1>0, <2>1, <2>3, <2>4, <2>5, Typed, CommTyped DEF pause
  <2>7. Held'
    BY <1>0, <2>3, <2>4 DEF Held, CommKeeps
  <2>8. NothingFreedIsUsed' /\ PausedStream'
    BY <2>3, <2>5 DEF NothingFreedIsUsed, PausedStream, CommKeeps, Ms12Inv, pause
  <2>9. Unhandled' = Unhandled
    BY <1>0, <2>1, <2>3, <2>4, UnhandledHead
  <2>10. WillBePaused' = WillBePaused
    BY <2>3, <2>9 DEF WillBePaused, pause
  <2>11. FlagsMatch'
    BY <2>3, <2>9 DEF FlagsMatch, Ms12Inv, CommKeeps, pause
  <2> QED
    BY <2>3, <2>6, <2>7, <2>8, <2>10, <2>11, CommInv
<1>9. CASE RemoveMessage
  <2>1. comm.at = "remove" /\ comm.freed = FALSE /\ mesg_list # <<>>
    BY <1>0, <1>9 DEF RemoveMessage, HasMessage
  <2>2. PICK a \in {"hold", "loop", "done"} :
          comm' = [comm EXCEPT !.at = a] /\ (a = "hold" <=> Tail(mesg_list) # <<>>)
    BY <1>9 DEF RemoveMessage, AtEndOfLoop
  <2>3. /\ CommKeeps /\ mesg_list' = Tail(mesg_list) /\ UNCHANGED pause /\ fault' = fault
        /\ late' = (late /\ Tail(mesg_list) # <<>>)
    BY <1>9 DEF RemoveMessage, CommKeeps, pause
  <2>4. comm' \in CommState /\ comm'.at = a /\ comm'.freed = FALSE
    <3>1. a \in CommAt
      BY DEF CommAt
    <3>2. comm' \in CommState
      BY <1>0, <2>2, <3>1, CommFields
    <3> QED
      BY <1>0, <2>1, <2>2, <3>2 DEF CommState
  <2>5. /\ mesg_list' \in Seq(Messages) /\ Len(mesg_list') <= MaxMessages
        /\ device # "open" => mesg_list' = <<>>
    <3>1. Tail(mesg_list) \in Seq(Messages) /\ Len(Tail(mesg_list)) = Len(mesg_list) - 1
      BY <1>0, <2>1, HeadTailProperties
    <3>2. Len(mesg_list) \in Nat /\ MaxMessages \in Nat
      BY <1>0, LenProperties, Ms12Assumption
    <3>3. device # "open" => mesg_list = <<"EXIT">>
      BY <2>1 DEF Ms12Inv, Destroyed
    <3>4. Tail(<<"EXIT">>) = <<>>
      OBVIOUS
    <3> QED
      BY <1>0, <2>3, <3>1, <3>2, <3>3, <3>4
  <2>6. TypeOK'
    <3>1. comm'.at \in HasMessage => mesg_list' # <<>>
      BY <2>2, <2>3, <2>4 DEF HasMessage
    <3>2. /\ pause_flag' \in BOOLEAN /\ is_continuous_paused' \in BOOLEAN
          /\ late' \in BOOLEAN /\ torn' \in BOOLEAN /\ fault' \in {"none", "stream", "message"}
      BY <1>0, <2>3, Typed DEF pause
    <3> QED
      BY <1>0, <2>3, <2>4, <2>5, <3>1, <3>2, CommTyped
  <2>7. Held'
    BY <1>0, <2>1, <2>2, <2>3, <2>4 DEF Held, CommKeeps, HasMessage
  <2>8. /\ \A i \in Unhandled : /\ i \in Nat /\ i - 1 \in Unhandled'
                                /\ mesg_list'[i - 1] = mesg_list[i]
        /\ \A i \in Unhandled' : /\ i \in Nat /\ i + 1 \in Unhandled
                                 /\ mesg_list[i + 1] = mesg_list'[i]
    BY <1>0, <2>1, <2>2, <2>3, <2>4, UnhandledTail
  <2>9. Unhandled' = {} <=> Unhandled = {}
    BY <2>8
  <2>10. ASSUME WillBePaused', Unhandled # {}
         PROVE  WillBePaused
    <3>1. PICK i \in Unhandled' : mesg_list'[i] = "PAUSE" /\ \A j \in Unhandled' : j <= i
      BY <2>9, <2>10 DEF WillBePaused
    <3>2. i \in Nat /\ i + 1 \in Unhandled /\ mesg_list[i + 1] = "PAUSE"
      BY <2>8, <3>1
    <3>3. \A j \in Unhandled : j <= i + 1
      BY <2>8, <3>1, <3>2
    <3> QED
      BY <3>2, <3>3 DEF WillBePaused
  <2>11. WillBePaused' => WillBePaused
    BY <2>3, <2>9, <2>10 DEF WillBePaused, pause
  <2>12. FlagsMatch'
    BY <2>3, <2>9 DEF FlagsMatch, Ms12Inv, CommKeeps, pause
  <2>13. NothingFreedIsUsed' /\ PausedStream'
    BY <2>3 DEF NothingFreedIsUsed, PausedStream, CommKeeps, Ms12Inv, pause
  <2> QED
    BY <2>3, <2>5, <2>6, <2>7, <2>11, <2>12, <2>13, CommInv
<1> QED
  BY <1>1, <1>2, <1>3, <1>4, <1>5, <1>6, <1>7, <1>8, <1>9 DEF CommStep

----------------------------------------------------------------------------
(* The end of the thread. *)

\* What is left for each step of adev_close() to show.
LEMMA ClosedInv ==
  ASSUME Ms12Inv, device' # "open", \A s \in Streams : stream[s].at = "closed",
         device' \in {"open", "flag", "exit", "join", "closed"},
         UNCHANGED <<late, pause, ms12_main_stream_out, stream, calls, fault>>,
         CommThread_ExitFlag' \in BOOLEAN,
         mesg_list' \in {<<>>, <<"EXIT">>}, mesg_list' \in Seq(Messages),
         Len(mesg_list') <= MaxMessages,
         device' \in {"flag", "exit"} => mesg_list' = <<>>,
         comm' \in CommState,
         comm'.at \in HasMessage => mesg_list' # <<>> \/ comm'.freed,
         comm'.freed => comm'.at \in HasMessage, comm.at = "pausing" => comm'.at = "pausing",
         comm'.at = "pausing" =>
           /\ pause_flag \/ torn
           /\ comm'.freed
           /\ late \/ (comm'.stream # NULL /\ comm'.stream = ms12_main_stream_out)
  PROVE  Ms12Inv'
<1>1. TypeOK'
  BY Typed, TypedAgain DEF pause, Ms12Inv
<1>2. /\ Destroyed' /\ FlagsMatch' /\ PauseAccounted' /\ PausedStream'
      /\ NothingFreedIsUsed'
  BY DEF Destroyed, FlagsMatch, PauseAccounted, PausedStream, NothingFreedIsUsed, Ms12Inv, pause
<1>3. Held'
  BY DEF Held, pause
<1>4. Exclusive' /\ \A t \in Streams : Decoder(t)' /\ NotPaused(t)'
  BY StreamsUnchanged
<1> QED
  BY <1>1, <1>2, <1>3, <1>4 DEF Ms12Inv

\* Once adev_close() has emptied the list, a PAUSE that is still being handled
\* has been freed.
LEMMA ClosedHeld ==
  ASSUME Ms12Inv, device # "open"
  PROVE  /\ comm.freed => comm.at \in HasMessage
         /\ comm.at = "pausing" =>
              /\ pause_flag \/ torn
              /\ comm.freed
              /\ late \/ (comm.stream # NULL /\ comm.stream = ms12_main_stream_out)
<1>1. mesg_list \in {<<>>, <<"EXIT">>}
  BY DEF Ms12Inv, Destroyed
<1>2. Head(<<"EXIT">>) = "EXIT"
  OBVIOUS
<1>3. comm.at \in HasMessage => mesg_list # <<>> \/ comm.freed
  BY Typed DEF Ms12Inv
<1>4. comm.at = "pausing" => comm.freed
  BY <1>1, <1>2, <1>3 DEF Ms12Inv, Held, HasMessage
<1> QED
  BY <1>4 DEF Ms12Inv, Held

\* adev_close() keeps the invariant: it finds no stream and no pause.
LEMMA DestroyInv ==
  ASSUME Ms12Inv, DestroyList \/ DestroyStep
  PROVE  Ms12Inv'
<1>0. /\ TypeOK /\ Held /\ Destroyed /\ comm \in CommState /\ comm.at \in CommAt
      /\ comm.freed \in BOOLEAN /\ comm.stream \in Streams \cup {NULL}
      /\ CommThread_ExitFlag \in BOOLEAN /\ late \in BOOLEAN
      /\ comm.at \in HasMessage => mesg_list # <<>> \/ comm.freed
      /\ mesg_list \in Seq(Messages) /\ Len(mesg_list) <= MaxMessages
      /\ <<>> \in Seq(Messages) /\ Len(<<>>) <= MaxMessages
  <2>1. TypeOK /\ Held /\ Destroyed
    BY DEF Ms12Inv
  <2>2. <<>> \in Seq(Messages) /\ Len(<<>>) <= MaxMessages
    BY Tuples, Ms12Assumption
  <2> QED
    BY <2>1, <2>2, Typed, CommFields
<1>1. CASE DestroyList
  <2>1. \A s \in Streams : stream[s].at = "closed"
    BY <1>1 DEF DestroyList
  <2>2. ms12_main_stream_out = NULL
    BY <1>0, <2>1, Typed DEF Ms12Inv, Decoder
  <2>3. PICK held \in BOOLEAN : /\ held <=> comm.at \in HasMessage
                                /\ comm' = [comm EXCEPT !.freed = held]
    <3>1. comm' = [comm EXCEPT !.freed = comm.at \in HasMessage]
      BY <1>1 DEF DestroyList
    <3>2. ASSUME comm.at \in HasMessage
          PROVE  comm' = [comm EXCEPT !.freed = TRUE]
      BY <3>1, <3>2, Zenon
    <3>3. ASSUME comm.at \notin HasMessage
          PROVE  comm' = [comm EXCEPT !.freed = FALSE]
      <4>1. (comm.at \in HasMessage) = FALSE
        BY <3>3
      <4> QED
        BY <3>1, <4>1
    <3> QED
      BY <3>2, <3>3
  <2>4. comm' \in CommState /\ comm'.at = comm.at /\ (comm'.freed <=> comm.at \in HasMessage)
    <3>1. comm' \in CommState /\ comm'.at = comm.at /\ comm'.freed = held
      BY <1>0, <2>3 DEF CommState
    <3> QED
      BY <2>3, <3>1
  <2>5. comm'.at = "pausing" =>
          /\ pause_flag \/ torn
          /\ comm'.freed
          /\ late \/ (comm'.stream # NULL /\ comm'.stream = ms12_main_stream_out)
    <3>1. comm'.stream = comm.stream
      BY <1>0, <2>3 DEF CommState
    <3> QED
      BY <1>0, <2>4, <3>1 DEF Held, HasMessage
  <2> QED
    BY <1>0, <1>1, <2>1, <2>4, <2>5, ClosedInv DEF DestroyList
<1>2. CASE SetExitFlag
  <2>1. device = "flag" /\ \A s \in Streams : stream[s].at = "closed"
    BY <1>0, <1>2 DEF SetExitFlag, Destroyed
  <2>2. mesg_list' = <<>> /\ comm' = comm /\ late' = late
    BY <1>0, <1>2 DEF SetExitFlag, Destroyed, list
  <2>3. /\ comm.freed => comm.at \in HasMessage
        /\ comm.at = "pausing" =>
             /\ pause_flag \/ torn
             /\ comm.freed
             /\ late \/ (comm.stream # NULL /\ comm.stream = ms12_main_stream_out)
    BY <2>1, ClosedHeld
  <2>4. comm.at \in HasMessage => comm.freed
    BY <1>0, <1>2 DEF Destroyed, SetExitFlag
  <2> QED
    BY <1>0, <1>2, <2>1, <2>2, <2>3, <2>4, ClosedInv DEF SetExitFlag
<1>3. CASE SendExit
  <2>1. device = "exit" /\ mesg_list = <<>> /\ \A s \in Streams : stream[s].at = "closed"
    BY <1>0, <1>3 DEF SendExit, Destroyed
  <2>2. /\ mesg_list' = <<"EXIT">>
        /\ comm' = IF comm.at = "waiting" THEN [comm EXCEPT !.at = "woken"] ELSE comm
        /\ Len(mesg_list') <= MaxMessages /\ late' = late
    <3>1. /\ mesg_list' = mesg_list \o <<"EXIT">>
          /\ Len(mesg_list) + Len(<<"EXIT">>) <= MaxMessages
          /\ comm' = IF comm.at = "waiting" THEN [comm EXCEPT !.at = "woken"] ELSE comm
          /\ late' = (late \/ \E t \in Streams : stream[t].at = "close")
      BY <1>3, Tuples DEF SendExit, Send
    <3>2. PICK m \in Seq(Messages) : m = <<"EXIT">>
      BY Tuples
    <3>3. <<>> \o m = m
      BY ConcatEmptySeq
    <3>4. late' = late
      BY <1>0, <2>1, <3>1
    <3> QED
      BY <2>1, <3>1, <3>2, <3>3, <3>4, Tuples
  <2>3. /\ comm.freed => comm.at \in HasMessage
        /\ comm.at = "pausing" =>
             /\ pause_flag \/ torn
             /\ comm.freed
             /\ late \/ (comm.stream # NULL /\ comm.stream = ms12_main_stream_out)
    BY <2>1, ClosedHeld
  <2>4. /\ comm' \in CommState /\ comm'.freed = comm.freed /\ comm'.stream = comm.stream
        /\ comm'.at = comm.at \/ (comm.at = "waiting" /\ comm'.at = "woken")
    BY <1>0, <2>2, CommFields DEF CommState, CommAt
  <2>5. mesg_list' # <<>> /\ mesg_list' \in Seq(Messages)
    BY <2>2, Tuples
  <2>6. UNCHANGED <<late, pause, ms12_main_stream_out, stream, calls, fault>>
    BY <1>3, <2>2 DEF SendExit
  <2>7. device' = "join" /\ CommThread_ExitFlag' \in BOOLEAN
    BY <1>0, <1>3 DEF SendExit
  <2>8. /\ comm'.freed => comm'.at \in HasMessage
        /\ comm.at = "pausing" => comm'.at = "pausing"
    BY <2>3, <2>4 DEF HasMessage
  <2>9. comm'.at = "pausing" =>
          /\ pause_flag \/ torn
          /\ comm'.freed
          /\ late \/ (comm'.stream # NULL /\ comm'.stream = ms12_main_stream_out)
    BY <2>3, <2>4
  <2>10. mesg_list' \in {<<>>, <<"EXIT">>} /\ Len(mesg_list') <= MaxMessages
    BY <2>2
  <2> QED
    BY <1>0, <2>1, <2>4, <2>5, <2>6, <2>7, <2>8, <2>9, <2>10, ClosedInv
<1>4. CASE JoinThread
  <2>1. device = "join" /\ \A s \in Streams : stream[s].at = "closed"
    BY <1>0, <1>4 DEF JoinThread, Destroyed
  <2>2. /\ mesg_list' = mesg_list /\ comm' = comm /\ late' = late
        /\ mesg_list \in {<<>>, <<"EXIT">>}
    BY <1>0, <1>4, <2>1 DEF JoinThread, Destroyed, list
  <2>3. /\ comm.freed => comm.at \in HasMessage
        /\ comm.at = "pausing" =>
             /\ pause_flag \/ torn
             /\ comm.freed
             /\ late \/ (comm.stream # NULL /\ comm.stream = ms12_main_stream_out)
    BY <2>1, ClosedHeld
  <2> QED
    BY <1>0, <1>4, <2>1, <2>2, <2>3, ClosedInv DEF JoinThread
<1> QED
  BY <1>1, <1>2, <1>3, <1>4 DEF DestroyStep

----------------------------------------------------------------------------
(* The theorems. *)

\* Every step keeps the invariant.
LEMMA StepInv ==
  ASSUME Ms12Inv, [Next]_vars
  PROVE  Ms12Inv'
<1>1. CASE Next
  BY <1>1, NewCallInv, CallStepInv, CommStepInv, DestroyInv DEF Next
<1>2. CASE UNCHANGED vars
  <2>1. /\ UNCHANGED <<mesg_list, comm, late, CommThread_ExitFlag, pause_flag,
                       is_continuous_paused, need_resume, torn, dropped, ms12_main_stream_out,
                       stream, device, calls, fault>>
    BY <1>2 DEF vars, list, pause
  <2>2. TypeOK'
    BY <2>1 DEF TypeOK, Ms12Inv
  <2>3. Exclusive' /\ \A t \in Streams : Decoder(t)' /\ NotPaused(t)'
    BY <2>1, StreamsUnchanged
  <2>4. Unhandled' = Unhandled
    BY <2>1, UnhandledKept
  <2>5. FlagsMatch' /\ PauseAccounted'
    BY <2>1, <2>4 DEF FlagsMatch, PauseAccounted, Expected, WillBePaused, Ms12Inv
  <2>6. Destroyed' /\ Held' /\ PausedStream' /\ NothingFreedIsUsed'
    BY <2>1 DEF Destroyed, Held, PausedStream, NothingFreedIsUsed, Ms12Inv
  <2> QED
    BY <2>2, <2>3, <2>5, <2>6 DEF Ms12Inv
<1> QED
  BY <1>1, <1>2

\* The invariant holds in every state of every behaviour.
THEOREM Ms12Invariant == Spec => []Ms12Inv
BY InitInv, StepInv, PTL DEF Spec

\* Every variable keeps its type, and the message that the thread holds is in
\* the list unless adev_close() has freed it.
THEOREM Ms12TypeOK == Spec => []TypeOK
<1>1. Ms12Inv => TypeOK
  BY DEF Ms12Inv
<1> QED
  BY <1>1, Ms12Invariant, PTL

\* dolby_ms12_main_pause(), _resume() and _flush() take no lock, yet they run on
\* a stream that is NULL or has been freed in one case only: another stream's
\* call sent their message after the close or take-over had found the list empty
\* and before dolby_ms12_main_close() cleared ms12_main_stream_out.  Any other
\* message stays at the head of the list, and holds the close up, until it has
\* been handled.
THEOREM Ms12UsesNothingFreed == Spec => []NothingFreedIsUsed
<1>1. Ms12Inv => NothingFreedIsUsed
  BY DEF Ms12Inv
<1> QED
  BY <1>1, Ms12Invariant, PTL

\* ms12_main_stream_out is the stream with is_ms12_main_decoder, however often
\* the streams take the decoder from each other.
THEOREM Ms12DecoderIsReached == Spec => []DecoderIsReached
<1>1. Ms12Inv => DecoderIsReached
  BY DEF Ms12Inv, DecoderIsReached, Decoder
<1> QED
  BY <1>1, Ms12Invariant, PTL

\* At rest there is no message that could still change the flags.
LEMMA AtRestUnhandled ==
  ASSUME Ms12Inv, AtRest
  PROVE  Unhandled = {} /\ device = "open"
BY DEF AtRest, Unhandled

\* When nothing is going on, is_continuous_paused says what
\* dolby_ms12_set_pause_flag() was last told, unless the decoder was closed in
\* the middle of its PAUSE.
THEOREM Ms12FlagsAgree == Spec => []FlagsAgree
<1>1. Ms12Inv => FlagsAgree
  BY AtRestUnhandled DEF Ms12Inv, FlagsMatch, FlagsAgree
<1> QED
  BY <1>1, Ms12Invariant, PTL

\* When nothing is going on and MS12 is paused, there is a main stream, and a
\* stream has been paused, or the next write will resume MS12, or the pause was
\* given up in one of the three ways that send no RESUME.
THEOREM Ms12PausedOnlyIfAsked == Spec => []PausedOnlyIfAsked
<1>1. ASSUME Ms12Inv
      PROVE  PausedOnlyIfAsked
  <2> SUFFICES ASSUME AtRest, pause_flag
               PROVE  /\ ms12_main_stream_out # NULL
                      /\ (\E s \in Streams : stream[s].paused) \/ need_resume \/ dropped
    BY DEF PausedOnlyIfAsked
  <2>1. WillBePaused /\ device = "open"
    BY <1>1, AtRestUnhandled DEF WillBePaused
  <2>2. \A s \in Streams : stream[s].at # "release"
    BY DEF AtRest
  <2>3. (\E s \in Streams : stream[s].paused) \/ need_resume \/ dropped
    BY <1>1, <2>1, <2>2 DEF Ms12Inv, PauseAccounted, Expected
  <2>4. comm.at # "pausing"
    BY <1>1, <2>1, DeviceOpen DEF AtRest, HasMessage
  <2> QED
    BY <1>1, <2>3, <2>4 DEF Ms12Inv, PausedStream
<1> QED
  BY <1>1, Ms12Invariant, PTL
============================================================================
