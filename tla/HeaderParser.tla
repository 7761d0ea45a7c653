---------------------------- MODULE HeaderParser ----------------------------
(***************************************************************************)
(* audio_header_find_frame() of audio_hwsync.c: it takes the payloads of a *)
(* tunnelled stream out of the bytes of its writes.  A payload is preceded *)
(* by a header with its size and its pts; header and payload may be spread *)
(* over several writes, so the parser keeps where it is in an              *)
(* audio_header_t.                                                         *)
(*                                                                         *)
(* A byte string is a sequence of units.  The two units of a header stand  *)
(* for its first four bytes, which hwsync_header_valid() recognises, and   *)
(* for the rest of it; a version 2 header has its shortest length.  Any    *)
(* other unit is skipped while a header is looked for.  A header that is   *)
(* completed by bytes which are not its own, because the caller passes     *)
(* some bytes again, says something else.                                  *)
(***************************************************************************)
EXTENDS Integers, Sequences

CONSTANTS NA,          \* HWSYNC_PTS_NA: the payload has no pts
          EOS,         \* HWSYNC_PTS_EOS: there is no payload after this header
          MaxBody,     \* HWSYNC_MAX_BODY_SIZE
          Misread      \* what such a header says: a record of size and pts

ASSUME HeaderAssumption ==
  /\ NA # EOS /\ MaxBody \in Nat \ {0}
  /\ Misread \in [size : Nat, pts : Nat \cup {NA, EOS}]

\* audio_header_t, as audio_header_info_init() returns it.
FreshHeader ==
  [hw_sync_state |-> "header", hw_sync_header_cnt |-> 0, hw_sync_body_cnt |-> 0,
   hw_sync_frame_size |-> 0, hw_sync_body_buf |-> <<>>, last_apts_from_header |-> 0,
   eos |-> FALSE]

\* audio_header_info_reset(): the payload begun and the last pts are kept.
ResetHeader(h) ==
  [h EXCEPT !.hw_sync_state = "header", !.hw_sync_header_cnt = 0,
            !.hw_sync_frame_size = 0, !.eos = FALSE]

\* The local variables of one call; cur_pts and outsize belong to its caller.
Begin(header, cur_pts, outsize) ==
  [header |-> header, cost |-> 0, cur_pts |-> cur_pts, outsize |-> outsize,
   pts_found |-> FALSE, done |-> FALSE]

\* The second unit of a header completes it: a payload follows unless its size
\* is 0, and its pts is the pts of the call.
TakeHeader(c, u) ==
  LET info == IF u.kind = "info" THEN u ELSE Misread
      size == IF info.size > MaxBody THEN MaxBody ELSE info.size
      next == [c EXCEPT
                !.header.hw_sync_header_cnt = 0,
                !.header.hw_sync_body_cnt = size,
                !.header.hw_sync_frame_size = size,
                !.header.hw_sync_state = IF size # 0 THEN "body" ELSE "header"]
  IN  IF info.pts = EOS
      THEN [next EXCEPT !.header.eos = TRUE]
      ELSE [next EXCEPT !.header.last_apts_from_header = info.pts,
                        !.cur_pts = info.pts, !.pts_found = TRUE]

\* memcpy() to hw_sync_body_buf: what is behind the unit stays there.
StoreBody(h, u) ==
  LET at == h.hw_sync_frame_size - h.hw_sync_body_cnt + 1
      buf == h.hw_sync_body_buf
  IN  [h EXCEPT !.hw_sync_body_buf = SubSeq(buf, 1, at - 1) \o <<u>> \o SubSeq(buf, at + 1, Len(buf)),
                !.hw_sync_body_cnt = @ - 1]

\* The last unit of a payload ends the call.  A payload whose header came with
\* an earlier write has the pts found then.
TakeBody(c, u) ==
  LET h == StoreBody(c.header, u)
  IN  IF h.hw_sync_body_cnt # 0
      THEN [c EXCEPT !.header = h]
      ELSE [c EXCEPT !.header = [h EXCEPT !.hw_sync_state = "header"],
                     !.outsize = h.hw_sync_frame_size,
                     !.cur_pts = IF c.pts_found THEN @ ELSE h.last_apts_from_header,
                     !.done = TRUE]

\* One turn of the loop.
TakeUnit(c, u) ==
  LET next == [c EXCEPT !.cost = @ + 1]
  IN  IF c.header.hw_sync_state = "body" THEN TakeBody(next, u)
      ELSE IF c.header.hw_sync_header_cnt = 1 THEN TakeHeader(next, u)
      ELSE IF u.kind = "version" THEN [next EXCEPT !.header.hw_sync_header_cnt = 1]
      ELSE next

\* audio_header_find_frame() on the units of "in".
FindFrame(header, in, cur_pts, outsize) ==
  LET call[i \in 0..Len(in)] ==
        IF i = 0 THEN Begin(header, cur_pts, outsize)
        ELSE LET last == call[i - 1] IN IF last.done THEN last ELSE TakeUnit(last, in[i])
  IN  call[Len(in)]

----------------------------------------------------------------------------
\* What a stream consists of: junk, then a header and its payload.
UnitsOf(k, p) ==
  [i \in 1..p.junk |-> [kind |-> "junk"]]
    \o <<[kind |-> "version"], [kind |-> "info", size |-> p.size, pts |-> p.pts]>>
    \o [i \in 1..p.size |-> [kind |-> "body", of |-> k, at |-> i]]

\* The payload itself, as it is rendered.
PayloadOf(k, p) ==
  [body |-> [i \in 1..p.size |-> [kind |-> "body", of |-> k, at |-> i]], pts |-> p.pts]

\* The units of the first n payloads, one after another.
StreamOf(payloads) ==
  LET s[n \in 0..Len(payloads)] ==
        IF n = 0 THEN <<>> ELSE s[n - 1] \o UnitsOf(n, payloads[n])
  IN  s[Len(payloads)]

\* The payloads a caller gets that passes every unit once, in calls that end
\* at the cuts and where a payload is complete.
FramesFound(units, cuts) ==
  LET run[i \in 0..Len(units)] ==
        IF i = 0 THEN [call |-> Begin(FreshHeader, NA, 0), frames |-> <<>>]
        ELSE LET prev == run[i - 1]
                 last == prev.call
                 call == TakeUnit(IF i - 1 \in cuts \/ last.done
                                  THEN Begin(last.header, NA, 0) ELSE last,
                                  units[i])
             IN  [call |-> call,
                  frames |-> IF call.done
                             THEN Append(prev.frames,
                                         [body |-> SubSeq(call.header.hw_sync_body_buf, 1, call.outsize),
                                          pts |-> call.cur_pts])
                             ELSE prev.frames]
  IN  run[Len(units)].frames

\* The payloads of the stream, whatever the cuts.
FramesExpected(payloads) ==
  LET f[n \in 0..Len(payloads)] ==
        IF n = 0 THEN <<>>
        ELSE IF payloads[n].size = 0 THEN f[n - 1]
        ELSE Append(f[n - 1], PayloadOf(n, payloads[n]))
  IN  f[Len(payloads)]

\* How a stream is cut into calls does not matter.
CutsDoNotMatter(payloads) ==
  LET units == StreamOf(payloads)
  IN  \A cuts \in SUBSET (1..(Len(units) - 1)) :
        FramesFound(units, cuts) = FramesExpected(payloads)
=============================================================================
