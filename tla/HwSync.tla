------------------------------- MODULE HwSync -------------------------------
(***************************************************************************)
(* A tunnelled stream on its way into Dolby MS12, and the table that tells *)
(* the A/V synchronisation which pts the decoder has reached:              *)
(*   - out_write_new() (audio_hw.c) takes payloads out of what is written; *)
(*   - aml_audio_ms12_process_wrapper() (aml_audio_ms12_render.c) enters   *)
(*     the pts of each at its offset and feeds it to MS12;                 *)
(*   - ms12_avsync_callback() (audio_hw_ms12_v2.c), on a thread of MS12,   *)
(*     reads the number of bytes MS12 has decoded and then looks up the    *)
(*     pts there;                                                          *)
(*   - out_flush_new() empties the table and sends the FLUSH message, on   *)
(*     which the message thread empties MS12.                              *)
(*                                                                         *)
(* The offsets of the table and the count of decoded bytes must start at   *)
(* the same byte.  They are reset by two threads: a flush waits at most    *)
(* 100 ms for its message, and the end of a pause wakes it too.            *)
(*                                                                         *)
(* The framework (external) writes and flushes a stream from one thread;   *)
(* what a write did not take it writes again, and after a flush it starts  *)
(* with a header.  A write that completes no payload returns 0, though its *)
(* bytes are in the parser: they are parsed again.                         *)
(*                                                                         *)
(* The payloads are in a format MS12 decodes itself, one access unit each; *)
(* MS12 does not refuse one (external).                                    *)
(***************************************************************************)
EXTENDS HeaderParser

CONSTANTS Payloads,     \* what the application sends: records of junk, size, pts
          Bursts,       \* the lengths of the writes, in units
          Dts,          \* is_dts_format(): a write returns after one payload
          AptsNum,      \* HWSYNC_APTS_NUM
          Capacity,     \* what MS12 holds and has not decoded, in units
          MaxFlushes    \* bound: the FLUSH messages sent

ASSUME HwSyncAssumption ==
  /\ Payloads \in Seq([junk : Nat, size : 0..MaxBody, pts : Nat \cup {NA, EOS}])
  /\ \A i \in DOMAIN Payloads :
       /\ Payloads[i].pts = EOS => Payloads[i].size = 0
       /\ Payloads[i].size <= Capacity
  /\ Bursts \subseteq Nat \ {0} /\ Dts \in BOOLEAN
  /\ AptsNum \in Nat \ {0} /\ Capacity \in Nat /\ MaxFlushes \in Nat

VARIABLES
  sent,             \* the units of the stream whose writes have returned
  origin,           \* the units that were sent or dropped before the last flush
  pheader,          \* the stream's audio_header_t
  write,            \* out_write_new(): where it is, and its local variables
  pts_tab, payload_offset,    \* avsync_ctx
  input,            \* what MS12 was fed since it was flushed
  consumed,         \* dolby_ms12_get_main_bytes_consumed()
  consume_payload,  \* ms12_avsync_callback(): what it read of it; -1 outside
  flush,            \* where out_flush_new() is
  mesgs,            \* the FLUSH messages that are not handled yet
  sends,            \* how many were sent
  accepted,         \* history: the check-ins stored since the table was emptied
  late,             \* history: a write began while a FLUSH was not handled yet
  uncounted,        \* history: a payload was fed that payload_offset does not count
  resent,           \* history: a write returned 0 and left something in the parser
  outdated          \* history: a look-up used a count from before MS12 was flushed

ctx  == <<pts_tab, payload_offset, accepted, uncounted>>
ms12 == <<input, consumed>>
lookup == <<consume_payload, outdated>>
vars == <<sent, origin, pheader, write, ctx, ms12, lookup, flush, mesgs, sends, late, resent>>

Stream == StreamOf(Payloads)
Free == [valid |-> FALSE, offset |-> 0, pts |-> 0]
NoWrite == [at |-> "idle", buffer |-> <<>>, bytes_cost |-> 0, pheader_cost |-> 0,
            cur_pts |-> NA, pheader_outsize |-> 0, b_pts_valid |-> FALSE, abuffer |-> <<>>]

Init ==
  /\ sent = 0 /\ origin = 0
  /\ pheader = FreshHeader
  /\ write = NoWrite
  /\ pts_tab = [i \in 1..AptsNum |-> Free] /\ payload_offset = 0
  /\ input = <<>> /\ consumed = 0 /\ consume_payload = -1
  /\ flush = "none" /\ mesgs = 0 /\ sends = 0
  /\ accepted = {} /\ late = FALSE /\ uncounted = FALSE
  /\ resent = FALSE /\ outdated = FALSE

\* Where the i-th payload MS12 was fed begins, and where the last one ends.
StartOf(i) ==
  LET s[n \in 1..Len(input) + 1] == IF n = 1 THEN 0 ELSE s[n - 1] + Len(input[n - 1].body)
  IN  s[i]
Fed == StartOf(Len(input) + 1)

----------------------------------------------------------------------------
(* The table of avsync_ctx.                                                 *)

FirstOf(S) == CHOOSE i \in S : \A j \in S : i <= j

\* Mutation: the search for a slot stops one too late.
CheckIn_PastEnd(tab, offset, apts) ==
  LET slots == {i \in DOMAIN tab : ~tab[i].valid \/ tab[i].offset = offset}
  IN  [i \in DOMAIN tab \cup {IF slots = {} THEN AptsNum + 1 ELSE 1} |->
         IF (slots = {} /\ i = AptsNum + 1) \/ (slots # {} /\ i = FirstOf(slots))
         THEN [valid |-> TRUE, offset |-> offset, pts |-> apts] ELSE tab[i]]

\* avsync_checkin_apts(): the first slot that is free or has the offset.
CheckIn(tab, offset, apts) ==
  LET slots == {i \in DOMAIN tab : ~tab[i].valid \/ tab[i].offset = offset}
  IN  IF slots = {} THEN tab
      ELSE [tab EXCEPT ![FirstOf(slots)] = [valid |-> TRUE, offset |-> offset, pts |-> apts]]

\* The slot avsync_lookup_apts() finds: the first with that offset, or the
\* nearest below; 0 if there is none.
Found(tab, offset) ==
  LET exact == {i \in DOMAIN tab : tab[i].valid /\ tab[i].offset = offset}
      below == {i \in DOMAIN tab : tab[i].valid /\ tab[i].offset < offset}
      nearest == {i \in below : \A j \in below : tab[j].offset <= tab[i].offset}
  IN  IF exact # {} THEN FirstOf(exact)
      ELSE IF below # {} THEN FirstOf(nearest)
      ELSE 0

\* Mutation: the nearest record is given up with the others.
AfterLookup_DropsNearest(tab, offset) ==
  LET f == Found(tab, offset)
      seen == IF f # 0 /\ tab[f].offset = offset THEN 1..(f - 1) ELSE DOMAIN tab
  IN  [i \in DOMAIN tab |->
         IF i \in seen /\ tab[i].offset < offset THEN [tab[i] EXCEPT !.valid = FALSE] ELSE tab[i]]

\* The loop gives up what lies below, as far as it goes: it breaks at an exact
\* match.  The nearest one is "kept as valid, it may be used for next lookup".
AfterLookup(tab, offset) ==
  LET f == Found(tab, offset)
      seen == IF f # 0 /\ tab[f].offset = offset THEN 1..(f - 1) ELSE DOMAIN tab \ {f}
  IN  [i \in DOMAIN tab |->
         IF i \in seen /\ tab[i].offset < offset THEN [tab[i] EXCEPT !.valid = FALSE] ELSE tab[i]]

----------------------------------------------------------------------------
(* Writing.                                                                 *)

\* out_write_new() is called with the next n units.
StartWrite == \E n \in Bursts :
  /\ write.at = "idle" /\ flush = "none"
  /\ sent + n <= Len(Stream)
  /\ write' = [NoWrite EXCEPT !.at = "find", !.buffer = SubSeq(Stream, sent + 1, sent + n)]
  /\ late' = (late \/ mesgs > 0)
  /\ UNCHANGED <<sent, origin, pheader, ctx, ms12, lookup, flush, mesgs, sends, resent>>

\* The call at pheader_rewrite.  cur_pts and pheader_outsize keep what the turn
\* before has left in them.
Frame == FindFrame(pheader, SubSeq(write.buffer, write.bytes_cost + 1, Len(write.buffer)),
                   write.cur_pts, write.pheader_outsize)

\* From pheader_rewrite to the call of aml_out->write().
FindPayload ==
  /\ write.at = "find" /\ Frame.outsize # 0
  /\ pheader' = Frame.header
  /\ write' = [write EXCEPT
                 !.at = "checkin", !.pheader_cost = Frame.cost, !.cur_pts = Frame.cur_pts,
                 !.pheader_outsize = Frame.outsize, !.b_pts_valid = @ \/ Frame.cur_pts # NA,
                 !.abuffer = [body |-> SubSeq(Frame.header.hw_sync_body_buf, 1, Frame.outsize),
                              pts |-> Frame.cur_pts]]
  /\ UNCHANGED <<sent, origin, ctx, ms12, lookup, flush, mesgs, sends, late, resent>>

\* The write completes no payload: return_bytes stays 0, and the framework
\* writes the same units again.
FindNothing ==
  /\ write.at = "find" /\ Frame.outsize = 0
  /\ pheader' = Frame.header
  /\ resent' = (resent \/ Frame.header # pheader)
  /\ write' = NoWrite
  /\ UNCHANGED <<sent, origin, ctx, ms12, lookup, flush, mesgs, sends, late>>

\* Its pts is entered at payload_offset, which is read without the lock.  That
\* a check-in fails is not noticed.
CheckInPts ==
  LET apts == write.abuffer.pts
      tab == CheckIn(pts_tab, payload_offset, apts)
  IN  /\ write.at = "checkin"
      /\ pts_tab' = IF apts = NA THEN pts_tab ELSE tab
      /\ accepted' = IF apts = NA \/ tab = pts_tab THEN accepted
                     ELSE accepted \cup {[offset |-> payload_offset, pts |-> apts]}
      /\ write' = [write EXCEPT !.at = "advance"]
      /\ UNCHANGED <<sent, origin, pheader, payload_offset, uncounted, ms12, lookup, flush, mesgs,
                     sends, late, resent>>

\* Mutation: a payload without a pts is not counted.
AdvanceOffset_OnlyStamped ==
  /\ write.at = "advance"
  /\ payload_offset' = IF write.abuffer.pts = NA THEN payload_offset
                       ELSE payload_offset + Len(write.abuffer.body)
  /\ write' = [write EXCEPT !.at = "feed"]
  /\ UNCHANGED <<sent, origin, pheader, pts_tab, accepted, uncounted, ms12, lookup, flush, mesgs,
                 sends, late, resent>>

\* A payload without a pts is counted unless one before it, in the same write,
\* had a pts.
AdvanceOffset ==
  /\ write.at = "advance"
  /\ IF write.abuffer.pts # NA \/ ~write.b_pts_valid
     THEN payload_offset' = payload_offset + Len(write.abuffer.body) /\ UNCHANGED uncounted
     ELSE uncounted' = TRUE /\ UNCHANGED payload_offset
  /\ write' = [write EXCEPT !.at = "feed"]
  /\ UNCHANGED <<sent, origin, pheader, pts_tab, accepted, ms12, lookup, flush, mesgs, sends, late,
                 resent>>

\* Mutation: the write ends with its first payload, and says it took everything.
FeedMs12_TakesAll ==
  /\ write.at = "feed"
  /\ Fed - consumed + Len(write.abuffer.body) <= Capacity
  /\ input' = Append(input, write.abuffer)
  /\ sent' = sent + Len(write.buffer)
  /\ write' = NoWrite
  /\ UNCHANGED <<origin, pheader, ctx, consumed, lookup, flush, mesgs, sends, late, resent>>

\* dolby_ms12_main_process(), which waits for room; then the end of
\* out_write_new() or its next turn.
FeedMs12 ==
  LET cost == write.bytes_cost + write.pheader_cost
      more == cost < Len(write.buffer) /\ ~Dts
  IN  /\ write.at = "feed"
      /\ Fed - consumed + Len(write.abuffer.body) <= Capacity
      /\ input' = Append(input, write.abuffer)
      /\ sent' = IF more THEN sent ELSE sent + cost
      /\ write' = IF more THEN [write EXCEPT !.at = "find", !.bytes_cost = cost] ELSE NoWrite
      /\ UNCHANGED <<origin, pheader, ctx, consumed, lookup, flush, mesgs, sends, late, resent>>

----------------------------------------------------------------------------
(* MS12: the decoder (external), and its callback.                          *)

Decode ==
  /\ consumed < Fed
  /\ consumed' = consumed + 1
  /\ UNCHANGED <<sent, origin, pheader, write, ctx, input, lookup, flush, mesgs, sends, late,
                 resent>>

\* ms12_avsync_callback() reads the count.
ReadConsumed ==
  /\ consume_payload = -1 /\ consume_payload' = consumed
  /\ UNCHANGED <<sent, origin, pheader, write, ctx, ms12, outdated, flush, mesgs, sends, late,
                 resent>>

\* avsync_lookup_apts(): MS12 may have gone on since, or have been flushed.
LookUp ==
  /\ consume_payload # -1 /\ consume_payload' = -1
  /\ pts_tab' = AfterLookup(pts_tab, consume_payload)
  /\ outdated' = (outdated \/ consume_payload > consumed)
  /\ UNCHANGED <<sent, origin, pheader, write, payload_offset, accepted, uncounted, ms12, flush,
                 mesgs, sends, late, resent>>

----------------------------------------------------------------------------
(* Flushing.                                                                *)

Headers == {i \in 0..(Len(Stream) - 1) : Stream[i + 1].kind = "version"}

\* audio_header_info_reset(), avsync_ctx_reset() and the message; the framework
\* has dropped the rest of what it was to write.
StartFlush ==
  /\ write.at = "idle" /\ flush = "none" /\ sends < MaxFlushes
  /\ \E i \in Headers : i >= sent /\ sent' = i /\ origin' = i
  /\ pheader' = ResetHeader(pheader)
  /\ pts_tab' = [i \in 1..AptsNum |-> Free] /\ payload_offset' = 0
  /\ accepted' = {} /\ uncounted' = FALSE /\ resent' = FALSE /\ outdated' = FALSE
  /\ flush' = "wait" /\ mesgs' = mesgs + 1 /\ sends' = sends + 1
  /\ UNCHANGED <<write, ms12, consume_payload, late>>

\* dolby_ms12_main_flush(), on the message thread.
HandleFlush ==
  /\ mesgs > 0 /\ mesgs' = mesgs - 1
  /\ input' = <<>> /\ consumed' = 0
  /\ UNCHANGED <<sent, origin, pheader, write, ctx, lookup, flush, sends, late, resent>>

\* The wait ends, whatever ended it.
EndFlush ==
  /\ flush = "wait" /\ flush' = "none"
  /\ late' = (late /\ mesgs > 0)
  /\ UNCHANGED <<sent, origin, pheader, write, ctx, ms12, lookup, mesgs, sends, resent>>

----------------------------------------------------------------------------
Writer == StartWrite \/ FindPayload \/ FindNothing \/ CheckInPts \/ AdvanceOffset \/ FeedMs12
Next ==
  Writer \/ Decode \/ ReadConsumed \/ LookUp \/ StartFlush \/ HandleFlush \/ EndFlush

Spec == Init /\ [][Next]_vars

----------------------------------------------------------------------------
Total == Len(Stream)
\* What the stream is made of, and what is fed to MS12.
Units == [kind : {"body"}, of : 1..Len(Payloads), at : 1..MaxBody]
           \cup [kind : {"info"}, size : 0..MaxBody, pts : Nat \cup {NA, EOS}]
           \cup [kind : {"junk", "version"}]
Pieces == [body : Seq(Units), pts : Nat \cup {NA}]

\* Every variable keeps its type; the table keeps its size.
TypeOK ==
  /\ sent \in 0..Total /\ origin \in 0..sent
  /\ pheader.hw_sync_state \in {"header", "body"}
  /\ pheader.hw_sync_header_cnt \in 0..1
  /\ pheader.hw_sync_body_cnt \in 0..MaxBody /\ pheader.hw_sync_frame_size \in 0..MaxBody
  /\ pheader.hw_sync_state = "body" =>
       pheader.hw_sync_body_cnt \in 1..pheader.hw_sync_frame_size
  /\ write.at \in {"idle", "find", "checkin", "advance", "feed"}
  /\ write.b_pts_valid \in BOOLEAN /\ write.abuffer \in Pieces \cup {<<>>}
  /\ pts_tab \in [1..AptsNum -> [valid : BOOLEAN, offset : Nat, pts : Nat]]
  /\ payload_offset \in Nat
  /\ input \in Seq(Pieces) /\ consumed \in 0..Fed /\ consume_payload \in Nat \cup {-1}
  /\ flush \in {"none", "wait"} /\ mesgs \in 0..MaxFlushes /\ sends \in 0..MaxFlushes
  /\ accepted \subseteq [offset : Nat, pts : Nat]
  /\ {late, uncounted, resent, outdated} \subseteq BOOLEAN

\* The table was emptied and MS12 was flushed at the same byte.
InStep == ~late /\ mesgs = 0

\* avsync_reset_apts_tbl(): "the pts table and the payload need reset
\* correspond" to the consumed offset of MS12.  payload_offset is where the
\* next byte fed to MS12 will be, and every pts entered is that of the payload
\* at its offset in MS12's input, up to the one on its way there.  They part at
\* a payload that is not counted (AdvanceOffset).
OffsetsMatchInput ==
  InStep /\ ~uncounted =>
    /\ payload_offset = Fed + IF write.at = "feed" THEN Len(write.abuffer.body) ELSE 0
    /\ \A r \in accepted :
         \/ \E i \in DOMAIN input : StartOf(i) = r.offset /\ input[i].pts = r.pts
         \/ write.at \in {"advance", "feed"} /\ r = [offset |-> Fed, pts |-> write.abuffer.pts]

\* A look-up at o gives the pts entered last at or before o.
GivesLatest(o) ==
  LET before == {r \in accepted : r.offset <= o}
      f == Found(pts_tab, o)
  IN  IF before = {} THEN f = 0
      ELSE /\ f # 0
           /\ \E r \in before : r.pts = pts_tab[f].pts /\ \A q \in before : q.offset <= r.offset

\* So it does at the byte MS12 has reached, and at the one the callback has
\* read, however far MS12 went since, whatever the look-ups before gave up, and
\* in whichever slots the records are.  A count from before a flush is not one
\* of them: at such a count the look-up may give up records that MS12 has not
\* reached, and they are missed until the next flush.
LookupIsLatest ==
  InStep /\ ~outdated =>
    \A o \in {consumed, consume_payload} \cap 0..consumed : GivesLatest(o)

\* Payload k as a whole lies between two positions of the stream.
Ends(k) == Len(StreamOf(SubSeq(Payloads, 1, k)))
Begins(k) == Ends(k - 1) + Payloads[k].junk

SentSinceFlush == {k \in DOMAIN Payloads :
                     Payloads[k].size # 0 /\ Begins(k) >= origin /\ Ends(k) <= sent}

Fits(k, i) == input[i] = PayloadOf(k, Payloads[k])

\* However the stream is cut into writes that complete a payload, every payload
\* sent since the flush has reached MS12 whole, with its own pts and in the
\* stream's order.  (It may have reached it more than once, and parts of
\* payloads in between.)  A write that completes none is written again, and
\* from then on, until the next flush, the parser may take units for others.
NothingIsLost ==
  InStep /\ ~resent /\ flush = "none" /\ write.at = "idle" =>
    /\ \A k \in SentSinceFlush : \E i \in DOMAIN input : Fits(k, i)
    /\ \A k, l \in SentSinceFlush : k < l =>
         \E i \in DOMAIN input : Fits(k, i) /\ \A j \in 1..i : ~Fits(l, j)
=============================================================================
