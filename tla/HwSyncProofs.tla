----------------------------- MODULE HwSyncProofs -----------------------------
(***************************************************************************)
(* Theorems about HwSync for any stream of payloads, any lengths of the    *)
(* writes and any size of the table: the offsets of the table are those of *)
(* MS12's input, a look-up at an offset MS12 has reached finds the pts     *)
(* entered last, and as long as each write completes a payload, wherever   *)
(* it ends, every payload reaches MS12 whole and in order.                 *)
(***************************************************************************)
EXTENDS HwSync, TLAPS, SequenceTheorems, WellFoundedInduction

----------------------------------------------------------------------------
(* The invariant.                                                           *)

N == Len(Payloads)

\* The units of payloads.
BodyUnits == [kind : {"body"}, of : 1..N, at : 1..MaxBody]

Times == Nat \cup {NA}

\* u is a unit of a payload, and among the first q units of the stream.
Seen(u, q) == u \in BodyUnits /\ Begins(u.of) + 2 + u.at <= q

SeenTo(s, m, q) == \A i \in 1..m : Seen(s[i], q)

AllSeen(s, q) == SeenTo(s, Len(s), q)

\* buf begins with the first m units of payload k.
Holds(buf, k, m) ==
  m <= Len(buf) /\ \A i \in 1..m : buf[i] = [kind |-> "body", of |-> k, at |-> i]

HeaderState ==
  [hw_sync_state : {"header", "body"}, hw_sync_header_cnt : 0..1,
   hw_sync_body_cnt : 0..MaxBody, hw_sync_frame_size : 0..MaxBody,
   hw_sync_body_buf : Seq(Units), last_apts_from_header : Times, eos : BOOLEAN]

\* A parser's state, whatever it was fed: what is missing of a payload is no more
\* than its size, and the units before are stored.
Sound(h) ==
  /\ h \in HeaderState
  /\ h.hw_sync_state = "body" =>
       /\ h.hw_sync_body_cnt \in 1..h.hw_sync_frame_size
       /\ h.hw_sync_frame_size - h.hw_sync_body_cnt <= Len(h.hw_sync_body_buf)

\* The parser is in payload k, with q units of the stream read.
InBody(h, k, q) ==
  /\ h.hw_sync_body_cnt \in 1..h.hw_sync_frame_size /\ h.hw_sync_header_cnt = 0
  /\ h.hw_sync_frame_size = Payloads[k].size /\ Ends(k) = q + h.hw_sync_body_cnt
  /\ h.last_apts_from_header = Payloads[k].pts
  /\ Holds(h.hw_sync_body_buf, k, h.hw_sync_frame_size - h.hw_sync_body_cnt)

\* The parser's state is that of its place in the stream.
Parsed(h, q) ==
  /\ h \in HeaderState /\ q \in 0..Total
  /\ h.hw_sync_state = "header" /\ h.hw_sync_header_cnt = 0 =>
       \A k \in 1..N : q <= Begins(k) \/ Ends(k) <= q
  /\ h.hw_sync_state = "header" /\ h.hw_sync_header_cnt = 1 =>
       \E k \in 1..N : q = Begins(k) + 1
  /\ h.hw_sync_state = "body" => \E k \in 1..N : InBody(h, k, q)

\* How many units of the stream have been parsed.
PositionOf(s, w) ==
  s + (IF w.at = "idle" THEN 0
       ELSE IF w.at = "find" THEN w.bytes_cost
       ELSE w.bytes_cost + w.pheader_cost)

Position == PositionOf(sent, write)

\* The turn has found a payload, and feeds it to MS12.
InHand(w) == w.at \in {"checkin", "advance", "feed"}

WriteState ==
  [at : {"idle", "find", "checkin", "advance", "feed"}, buffer : Seq(Units),
   bytes_cost : Nat, pheader_cost : Nat, cur_pts : Times, pheader_outsize : Nat,
   b_pts_valid : BOOLEAN, abuffer : Pieces \cup {<<>>}]

\* What is written is the stream from "sent" on.
WritesFrom(s, w, h) ==
  /\ w.at = "idle" => w = NoWrite
  /\ s + Len(w.buffer) <= Total /\ PositionOf(s, w) <= s + Len(w.buffer)
  /\ \A i \in 1..Len(w.buffer) : w.buffer[i] = Stream[s + i]
  /\ w.pheader_outsize <= Len(h.hw_sync_body_buf)
  /\ InHand(w) => w.abuffer \in Pieces /\ w.pheader_outsize # 0
  /\ w.at = "find" /\ w.bytes_cost # 0 => w.pheader_outsize # 0

\* The parser has read the stream up to p; what it may give out it has read there.
Follows(h, w, p) ==
  /\ Parsed(h, p) /\ SeenTo(h.hw_sync_body_buf, w.pheader_outsize, p)
  /\ InHand(w) => AllSeen(w.abuffer.body, p)

Records == [valid : BOOLEAN, offset : Nat, pts : Nat]
Table == [1..AptsNum -> Records]
Entries == [offset : Nat, pts : Nat]

Typed ==
  /\ sent \in 0..Total /\ origin \in 0..sent
  /\ write \in WriteState /\ Sound(pheader)
  /\ pts_tab \in Table /\ payload_offset \in Nat
  /\ input \in Seq(Pieces) /\ consumed \in 0..Fed /\ consume_payload \in Nat \cup {-1}
  /\ flush \in {"none", "wait"} /\ mesgs \in 0..MaxFlushes /\ sends \in 0..MaxFlushes
  /\ mesgs <= sends
  /\ accepted \subseteq Entries
  /\ late \in BOOLEAN /\ uncounted \in BOOLEAN /\ resent \in BOOLEAN /\ outdated \in BOOLEAN

\* While a flush waits, and until its message is handled if no write comes
\* before, nothing has been written since, and the table is as it was left.
Quiet ==
  /\ flush = "wait" \/ (~late /\ mesgs > 0) =>
       /\ write.at = "idle" /\ sent = origin
       /\ payload_offset = 0 /\ accepted = {} /\ uncounted = FALSE
  /\ flush = "wait" /\ mesgs = 0 => input = <<>> /\ consumed = 0

\* The table holds what was entered, and of the records that a look-up gave up
\* there is a later one that it found.
RecordedIn(tab, acc) ==
  \A i \in 1..AptsNum : tab[i].valid => [offset |-> tab[i].offset, pts |-> tab[i].pts] \in acc

KeptIn(tab, acc, c) ==
  \A r \in acc : \E i \in 1..AptsNum :
    /\ tab[i].valid /\ r.offset <= tab[i].offset
    /\ tab[i].offset = r.offset \/ tab[i].offset <= c

\* Look-ups at less are not to come.
ReadCount == IF consume_payload \in 0..consumed THEN consume_payload ELSE consumed

\* StartOf() and Fed, of any input.
Starts(in, i) ==
  LET s[n \in 1..Len(in) + 1] == IF n = 1 THEN 0 ELSE s[n - 1] + Len(in[n - 1].body)
  IN  s[i]

EndOf(in) == Starts(in, Len(in) + 1)

\* What OffsetsMatchInput says.
Matches(offset, acc, in, w) ==
  /\ offset = EndOf(in) + IF w.at = "feed" THEN Len(w.abuffer.body) ELSE 0
  /\ \A r \in acc :
       \/ \E i \in 1..Len(in) : Starts(in, i) = r.offset /\ in[i].pts = r.pts
       \/ w.at \in {"advance", "feed"} /\ r = [offset |-> EndOf(in), pts |-> w.abuffer.pts]

\* Payload k is what this turn feeds to MS12.
OnItsWay(k, w, p) == InHand(w) /\ Ends(k) = p /\ w.abuffer = PayloadOf(k, Payloads[k])

\* Payload k has reached MS12, before any later one.
Reached(k, in) ==
  \E i \in 1..Len(in) :
    /\ in[i] = PayloadOf(k, Payloads[k])
    /\ \A l \in 1..N : \A j \in 1..i :
         k < l /\ Payloads[l].size # 0 => in[j] # PayloadOf(l, Payloads[l])

Due(k, o, p) == Payloads[k].size # 0 /\ o <= Begins(k) /\ Ends(k) <= p

Delivers(in, w, o, p) ==
  \A k \in 1..N : Due(k, o, p) => OnItsWay(k, w, p) \/ Reached(k, in)

InputSeen(in, p) == \A i \in 1..Len(in) : AllSeen(in[i].body, p)

HwInv ==
  /\ Typed
  /\ WritesFrom(sent, write, pheader)
  /\ Quiet
  /\ RecordedIn(pts_tab, accepted)
  /\ ~resent => Follows(pheader, write, Position)
  /\ InStep /\ ~outdated => KeptIn(pts_tab, accepted, ReadCount)
  /\ InStep /\ ~uncounted => Matches(payload_offset, accepted, input, write)
  /\ InStep /\ ~resent => InputSeen(input, Position) /\ Delivers(input, write, origin, Position)

----------------------------------------------------------------------------
(* Recursive functions.                                                     *)

\* Induction up to n, for a set.
LEMMA UpTo ==
  ASSUME NEW n \in Nat, NEW T, 0 \in T, \A i \in 1..n : i - 1 \in T => i \in T
  PROVE  \A i \in 0..n : i \in T
<1> DEFINE Out == {i \in 0..n : i \notin T}
<1>1. SUFFICES ASSUME Out # {} PROVE FALSE
  OBVIOUS
<1>2. Out \subseteq Nat
  OBVIOUS
<1>3. PICK i \in Out : \A j \in Out : <<j, i>> \notin OpToRel(<, Nat)
  BY <1>1, <1>2, NatLessThanWellFounded, WFMin, Zenon
<1>4. \A j \in Out : ~(j < i)
  BY <1>2, <1>3, Zenon DEF OpToRel
<1>5. i \in 1..n
  OBVIOUS
<1>6. i - 1 \notin Out
  BY <1>4, <1>5
<1> QED
  BY <1>5, <1>6

\* The values of a function of i are in S[i], if those before are.
Steps(n, S, a, g) == a \in S[0] /\ \A i \in 1..n : \A x \in S[i - 1] : g[i][x] \in S[i]

Recurs(n, S, a, g, f) ==
  /\ f[0] = a
  /\ \A i \in 1..n : f[i] = g[i][f[i - 1]]
  /\ \A i \in 0..n : f[i] \in S[i]

\* There is a function whose value at i is given by that at i - 1.
LEMMA Recursion ==
  ASSUME NEW n \in Nat, NEW S, NEW a, NEW g, Steps(n, S, a, g)
  PROVE  \E f : Recurs(n, S, a, g, f)
<1>0. a \in S[0] /\ \A i \in 1..n : \A x \in S[i - 1] : g[i][x] \in S[i]
  BY DEF Steps
<1> DEFINE P(m, f) == /\ f[0] = a
                      /\ \A i \in 1..m : f[i] = g[i][f[i - 1]]
                      /\ \A i \in 0..m : f[i] \in S[i]
           T == {m \in 0..n : \E f : P(m, f)}
<1>1. 0 \in T
  <2>1. PICK f : f = [i \in 0..0 |-> a]
    OBVIOUS
  <2>2. f[0] = a
    BY <2>1
  <2>3. P(0, f)
    BY <1>0, <2>2
  <2> QED
    BY <2>3
<1>2. ASSUME NEW m \in 1..n, m - 1 \in T
      PROVE  m \in T
  <2>1. PICK f : P(m - 1, f)
    BY <1>2
  <2> DEFINE h == [i \in 0..m |-> IF i = m THEN g[m][f[m - 1]] ELSE f[i]]
  <2>2. f[m - 1] \in S[m - 1] /\ g[m][f[m - 1]] \in S[m]
    BY <1>0, <2>1
  <2>3. h[0] = a /\ \A i \in 0..m : h[i] \in S[i]
    BY <2>1, <2>2
  <2>4. ASSUME NEW i \in 1..m PROVE h[i] = g[i][h[i - 1]]
    <3>1. i - 1 \in 0..m /\ i - 1 # m /\ h[i - 1] = f[i - 1]
      OBVIOUS
    <3>2. CASE i = m
      BY <3>1, <3>2
    <3>3. CASE i # m
      <4>1. i \in 1..(m - 1)
        BY <3>3
      <4>2. h[i] = f[i]
        BY <3>3
      <4>3. f[i] = g[i][f[i - 1]]
        BY <2>1, <4>1
      <4> QED
        BY <3>1, <4>2, <4>3
    <3> QED
      BY <3>2, <3>3
  <2>5. P(m, h)
    <3> HIDE DEF h
    <3> QED
      BY <2>3, <2>4
  <2> HIDE DEF h, P
  <2> QED
    BY <2>5
<1>3. n \in T
  <2> HIDE DEF T
  <2> QED
    BY <1>1, <1>2, UpTo
<1> QED
  BY <1>3 DEF Recurs

----------------------------------------------------------------------------
(* The stream.                                                              *)

PayloadRecords == [junk : Nat, size : 0..MaxBody, pts : Nat \cup {NA, EOS}]

\* The payloads, and what is known of the bounds.
LEMMA PayloadFields ==
  /\ N \in Nat /\ DOMAIN Payloads = 1..N /\ Payloads \in Seq(PayloadRecords)
  /\ MaxBody \in Nat /\ MaxBody > 0 /\ NA # EOS
  /\ \A k \in 1..N : /\ Payloads[k] \in PayloadRecords
                     /\ Payloads[k].junk \in Nat /\ Payloads[k].size \in 0..MaxBody
                     /\ Payloads[k].size \in Nat /\ Payloads[k].size <= MaxBody
                     /\ Payloads[k].pts \in Nat \cup {NA, EOS}
                     /\ Payloads[k].pts = EOS => Payloads[k].size = 0
<1>1. Payloads \in Seq(PayloadRecords)
  BY HwSyncAssumption DEF PayloadRecords
<1>2. N \in Nat /\ DOMAIN Payloads = 1..N /\ \A k \in 1..N : Payloads[k] \in PayloadRecords
  BY <1>1, LenProperties DEF N
<1>3. MaxBody \in Nat /\ MaxBody > 0 /\ NA # EOS
  BY HeaderAssumption
<1>4. ASSUME NEW k \in 1..N
      PROVE  /\ Payloads[k].junk \in Nat /\ Payloads[k].size \in 0..MaxBody
             /\ Payloads[k].pts \in Nat \cup {NA, EOS}
  BY <1>2 DEF PayloadRecords
<1>5. ASSUME NEW k \in 1..N
      PROVE  Payloads[k].pts = EOS => Payloads[k].size = 0
  BY <1>2, HwSyncAssumption
<1> QED
  BY <1>1, <1>2, <1>3, <1>4, <1>5

\* What is at which place of two sequences one after another.
LEMMA Joined ==
  ASSUME NEW s \in Seq(Units), NEW t \in Seq(Units)
  PROVE  /\ s \o t \in Seq(Units) /\ Len(s \o t) = Len(s) + Len(t)
         /\ \A i \in 1..Len(s) : (s \o t)[i] = s[i]
         /\ \A i \in 1..Len(t) : (s \o t)[Len(s) + i] = t[i]
<1>1. /\ s \o t \in Seq(Units) /\ Len(s \o t) = Len(s) + Len(t)
      /\ \A i \in 1..Len(s) + Len(t) : (s \o t)[i] = IF i <= Len(s) THEN s[i] ELSE t[i - Len(s)]
  BY ConcatProperties
<1>2. PICK m \in Nat, n \in Nat : m = Len(s) /\ n = Len(t)
  BY LenProperties
<1>3. \A i \in 1..m : i \in 1..m + n /\ i <= m
  OBVIOUS
<1>4. \A i \in 1..n : m + i \in 1..m + n /\ ~(m + i <= m) /\ m + i - m = i
  OBVIOUS
<1> QED
  BY <1>1, <1>2, <1>3, <1>4

\* One payload with its junk and its header.
LEMMA UnitsOfLemma ==
  ASSUME NEW k \in 1..N, NEW p \in PayloadRecords
  PROVE  /\ UnitsOf(k, p) \in Seq(Units)
         /\ Len(UnitsOf(k, p)) = p.junk + 2 + p.size
         /\ \A j \in 1..p.junk : UnitsOf(k, p)[j] = [kind |-> "junk"]
         /\ UnitsOf(k, p)[p.junk + 1] = [kind |-> "version"]
         /\ UnitsOf(k, p)[p.junk + 2] = [kind |-> "info", size |-> p.size, pts |-> p.pts]
         /\ \A j \in 1..p.size :
              UnitsOf(k, p)[p.junk + 2 + j] = [kind |-> "body", of |-> k, at |-> j]
<1>0. PICK junk \in Nat, size \in Nat : /\ junk = p.junk /\ size = p.size /\ size <= MaxBody
                                       /\ p.size \in 0..MaxBody /\ p.pts \in Nat \cup {NA, EOS}
  BY PayloadFields DEF PayloadRecords
<1>1. PICK a : a = [i \in 1..junk |-> [kind |-> "junk"]]
  OBVIOUS
<1>2. PICK h : h = <<[kind |-> "version"], [kind |-> "info", size |-> p.size, pts |-> p.pts]>>
  OBVIOUS
<1>3. PICK b : b = [i \in 1..size |-> [kind |-> "body", of |-> k, at |-> i]]
  OBVIOUS
<1>4. a \in Seq(Units) /\ Len(a) = junk
  <2>1. [kind |-> "junk"] \in Units
    BY DEF Units
  <2> QED
    BY <1>1, <2>1
<1>5. h \in Seq(Units) /\ Len(h) = 2
  <2>1. [kind |-> "version"] \in Units
    BY DEF Units
  <2>2. [kind |-> "info", size |-> p.size, pts |-> p.pts] \in Units
    BY <1>0 DEF Units
  <2> QED
    BY <1>2, <2>1, <2>2
<1>6. b \in Seq(Units) /\ Len(b) = size
  <2>1. ASSUME NEW i \in 1..size PROVE [kind |-> "body", of |-> k, at |-> i] \in Units
    <3>1. i \in 1..MaxBody
      BY <1>0, PayloadFields
    <3> QED
      BY <3>1 DEF Units, N
  <2> QED
    BY <1>3, <2>1
<1>7. UnitsOf(k, p) = (a \o h) \o b
  BY <1>0, <1>1, <1>2, <1>3 DEF UnitsOf
<1>8. PICK ah : ah = a \o h
  OBVIOUS
<1>9. /\ ah \in Seq(Units) /\ Len(ah) = junk + 2
      /\ \A i \in 1..junk : ah[i] = a[i]
      /\ \A i \in 1..2 : ah[junk + i] = h[i]
  <2>1. /\ a \o h \in Seq(Units) /\ Len(a \o h) = Len(a) + Len(h)
        /\ \A i \in 1..Len(a) : (a \o h)[i] = a[i]
        /\ \A i \in 1..Len(h) : (a \o h)[Len(a) + i] = h[i]
    BY <1>4, <1>5, Joined
  <2> QED
    BY <1>4, <1>5, <1>8, <2>1
<1>10. /\ ah \o b \in Seq(Units) /\ Len(ah \o b) = junk + 2 + size
       /\ \A i \in 1..junk + 2 : (ah \o b)[i] = ah[i]
       /\ \A i \in 1..size : (ah \o b)[junk + 2 + i] = b[i]
  <2>1. /\ ah \o b \in Seq(Units) /\ Len(ah \o b) = Len(ah) + Len(b)
        /\ \A i \in 1..Len(ah) : (ah \o b)[i] = ah[i]
        /\ \A i \in 1..Len(b) : (ah \o b)[Len(ah) + i] = b[i]
    BY <1>6, <1>9, Joined
  <2> QED
    BY <1>6, <1>9, <2>1
<1>11. ASSUME NEW j \in 1..junk PROVE UnitsOf(k, p)[j] = [kind |-> "junk"]
  <2>1. ah[j] = a[j] /\ (ah \o b)[j] = ah[j]
    BY <1>9, <1>10
  <2> QED
    BY <1>1, <1>7, <1>8, <2>1
<1>12. UnitsOf(k, p)[junk + 1] = [kind |-> "version"]
  <2>1. ah[junk + 1] = h[1] /\ (ah \o b)[junk + 1] = ah[junk + 1]
    BY <1>9, <1>10
  <2> QED
    BY <1>2, <1>7, <1>8, <2>1
<1>13. UnitsOf(k, p)[junk + 2] = [kind |-> "info", size |-> p.size, pts |-> p.pts]
  <2>1. ah[junk + 2] = h[2] /\ (ah \o b)[junk + 2] = ah[junk + 2]
    BY <1>9, <1>10
  <2> QED
    BY <1>2, <1>7, <1>8, <2>1
<1>14. ASSUME NEW j \in 1..size
       PROVE  UnitsOf(k, p)[junk + 2 + j] = [kind |-> "body", of |-> k, at |-> j]
  <2>1. (ah \o b)[junk + 2 + j] = b[j]
    BY <1>10
  <2> QED
    BY <1>3, <1>7, <1>8, <2>1
<1> QED
  BY <1>0, <1>7, <1>8, <1>10, <1>11, <1>12, <1>13, <1>14

\* The units of the k-th payload that is sent.
UnitsAre(u, k) ==
  /\ u \in Seq(Units) /\ Len(u) = Payloads[k].junk + 2 + Payloads[k].size
  /\ \A j \in 1..Payloads[k].junk : u[j] = [kind |-> "junk"]
  /\ u[Payloads[k].junk + 1] = [kind |-> "version"]
  /\ u[Payloads[k].junk + 2] = [kind |-> "info", size |-> Payloads[k].size,
                                pts |-> Payloads[k].pts]
  /\ \A j \in 1..Payloads[k].size :
       u[Payloads[k].junk + 2 + j] = [kind |-> "body", of |-> k, at |-> j]

\* They are those of its record.
LEMMA UnitsOfPayload ==
  ASSUME NEW k \in 1..N
  PROVE  UnitsAre(UnitsOf(k, Payloads[k]), k)
<1>1. PICK p \in PayloadRecords : p = Payloads[k]
  BY PayloadFields
<1>2. PICK u : u = UnitsOf(k, p)
  OBVIOUS
<1>3. /\ u \in Seq(Units) /\ Len(u) = p.junk + 2 + p.size
      /\ \A j \in 1..p.junk : u[j] = [kind |-> "junk"]
      /\ u[p.junk + 1] = [kind |-> "version"]
      /\ u[p.junk + 2] = [kind |-> "info", size |-> p.size, pts |-> p.pts]
      /\ \A j \in 1..p.size : u[p.junk + 2 + j] = [kind |-> "body", of |-> k, at |-> j]
  BY <1>2, UnitsOfLemma
<1>4. UnitsAre(u, k)
  BY <1>1, <1>3 DEF UnitsAre
<1> QED
  BY <1>1, <1>2, <1>4

\* e says where the payloads end.
AreEnds(e) ==
  /\ e[0] = 0
  /\ \A k \in 1..N : e[k] = e[k - 1] + (Payloads[k].junk + 2 + Payloads[k].size)
  /\ \A k \in 0..N : e[k] \in Nat

\* s is the first m payloads.
Laid(s, m, e) ==
  /\ s \in Seq(Units) /\ Len(s) = e[m]
  /\ \A k \in 1..m : \A j \in 1..Payloads[k].junk + 2 + Payloads[k].size :
       s[e[k - 1] + j] = UnitsOf(k, Payloads[k])[j]

\* There are such ends.
LEMMA EndsExist == \E e : AreEnds(e)
<1> DEFINE S == [i \in 0..N |-> Nat]
           g == [i \in 1..N |-> [x \in Nat |-> x + (Payloads[i].junk + 2 + Payloads[i].size)]]
<1>1. N \in Nat
  BY PayloadFields
<1>2. \A k \in 1..N : Payloads[k].junk + 2 + Payloads[k].size \in Nat
  BY PayloadFields
<1>3. 0 \in S[0] /\ \A i \in 1..N : \A x \in S[i - 1] : g[i][x] \in S[i]
  BY <1>1, <1>2
<1>4. PICK S1, g1 : S1 = S /\ g1 = g
  OBVIOUS
<1>5. PICK f : Recurs(N, S1, 0, g1, f)
  <2> HIDE DEF S, g
  <2>1. Steps(N, S1, 0, g1)
    BY <1>3, <1>4 DEF Steps
  <2> QED
    BY <1>1, <2>1, Recursion
<1>6. \A i \in 0..N : f[i] \in Nat
  BY <1>4, <1>5 DEF Recurs
<1>7. ASSUME NEW k \in 1..N
      PROVE  f[k] = f[k - 1] + (Payloads[k].junk + 2 + Payloads[k].size)
  <2>1. f[k] = g[k][f[k - 1]]
    BY <1>4, <1>5 DEF Recurs
  <2>2. f[k - 1] \in Nat
    BY <1>1, <1>6
  <2> QED
    BY <2>1, <2>2
<1>8. f[0] = 0
  BY <1>5 DEF Recurs
<1> QED
  BY <1>6, <1>7, <1>8 DEF AreEnds

\* The payloads do not overlap.
LEMMA EndsGrow ==
  ASSUME NEW e, AreEnds(e), NEW k \in 0..N, NEW l \in k..N
  PROVE  e[k] <= e[l]
<1> DEFINE T == {i \in 0..N : i >= k => e[k] <= e[i]}
<1>0. N \in Nat
  BY PayloadFields
<1>1. 0 \in T
  BY <1>0 DEF AreEnds
<1>2. ASSUME NEW i \in 1..N, i - 1 \in T PROVE i \in T
  <2>1. e[i] = e[i - 1] + (Payloads[i].junk + 2 + Payloads[i].size)
        /\ Payloads[i].junk \in Nat /\ Payloads[i].size \in Nat
    BY PayloadFields DEF AreEnds
  <2>2. e[i] \in Nat /\ e[i - 1] \in Nat /\ e[k] \in Nat
    BY <1>0 DEF AreEnds
  <2>3. e[i - 1] <= e[i]
    BY <2>1, <2>2
  <2>4. CASE i <= k
    BY <2>2, <2>4
  <2>5. CASE i > k
    BY <1>2, <2>2, <2>3, <2>5
  <2> QED
    BY <2>4, <2>5
<1>3. \A i \in 0..N : i \in T
  <2> HIDE DEF T
  <2> QED
    BY <1>0, <1>1, <1>2, UpTo
<1> QED
  BY <1>0, <1>3

\* Every unit belongs to a payload.
LEMMA EndsCover ==
  ASSUME NEW e, AreEnds(e), NEW q \in Nat, q < e[N]
  PROVE  \E k \in 1..N : e[k - 1] <= q /\ q < e[k]
<1> DEFINE T == {i \in 0..N : q < e[i] => \E k \in 1..N : e[k - 1] <= q /\ q < e[k]}
<1>0. N \in Nat
  BY PayloadFields
<1>1. 0 \in T
  BY <1>0 DEF AreEnds
<1>2. ASSUME NEW i \in 1..N, i - 1 \in T PROVE i \in T
  <2>1. e[i] \in Nat /\ e[i - 1] \in Nat
    BY <1>0 DEF AreEnds
  <2>2. CASE q < e[i - 1]
    BY <1>2, <2>2
  <2>3. CASE ~(q < e[i - 1])
    BY <2>1, <2>3
  <2> QED
    BY <2>2, <2>3
<1>3. \A i \in 0..N : i \in T
  <2> HIDE DEF T
  <2> QED
    BY <1>0, <1>1, <1>2, UpTo
<1> QED
  BY <1>0, <1>3

\* A place in a part is one in the whole.
LEMMA Inside ==
  ASSUME NEW a \in Nat, NEW c \in Nat, NEW x \in Nat, NEW y \in Nat, NEW j \in 1..x + 2 + y,
         a + (x + 2 + y) <= c
  PROVE  a + j \in 1..c
OBVIOUS

\* One payload more.
LEMMA LaidNext ==
  ASSUME NEW e, AreEnds(e), NEW m \in 1..N, NEW s, Laid(s, m - 1, e)
  PROVE  Laid(s \o UnitsOf(m, Payloads[m]), m, e)
<1>0. N \in Nat /\ m - 1 \in 0..N
  BY PayloadFields
<1>1. PICK u \in Seq(Units) :
        /\ u = UnitsOf(m, Payloads[m])
        /\ Len(u) = Payloads[m].junk + 2 + Payloads[m].size
  <2>1. PICK u : u = UnitsOf(m, Payloads[m])
    OBVIOUS
  <2>2. UnitsAre(u, m)
    BY <2>1, UnitsOfPayload
  <2>3. u \in Seq(Units) /\ Len(u) = Payloads[m].junk + 2 + Payloads[m].size
    BY <2>2 DEF UnitsAre
  <2> QED
    BY <2>1, <2>3
<1>2. s \in Seq(Units) /\ Len(s) = e[m - 1]
  BY DEF Laid
<1>3. /\ s \o u \in Seq(Units) /\ Len(s \o u) = Len(s) + Len(u)
      /\ \A i \in 1..Len(s) : (s \o u)[i] = s[i]
      /\ \A i \in 1..Len(u) : (s \o u)[Len(s) + i] = u[i]
  BY <1>2, Joined
<1>4. Len(s \o u) = e[m]
  BY <1>1, <1>2, <1>3 DEF AreEnds
<1>5. ASSUME NEW k \in 1..m, NEW j \in 1..Payloads[k].junk + 2 + Payloads[k].size
      PROVE  (s \o u)[e[k - 1] + j] = UnitsOf(k, Payloads[k])[j]
  <2>1. CASE k = m
    BY <1>1, <1>2, <1>3, <2>1
  <2>2. CASE k # m
    <3>1. k \in 1..(m - 1) /\ k \in 1..N /\ k - 1 \in 0..N /\ k \in 0..N /\ m - 1 \in k..N
      BY <1>0, <2>2
    <3>2. e[k] <= e[m - 1]
      BY <1>0, <3>1, EndsGrow
    <3>3. e[k] = e[k - 1] + (Payloads[k].junk + 2 + Payloads[k].size)
          /\ Payloads[k].junk \in Nat /\ Payloads[k].size \in Nat
          /\ e[k - 1] \in Nat /\ e[k] \in Nat /\ e[m - 1] \in Nat
      BY <1>0, <3>1, PayloadFields DEF AreEnds
    <3>4. e[k - 1] + j \in 1..e[m - 1]
      <4>1. e[k - 1] + (Payloads[k].junk + 2 + Payloads[k].size) <= e[m - 1]
        BY <3>2, <3>3
      <4> QED
        BY <3>3, <4>1, Inside
    <3>5. s[e[k - 1] + j] = UnitsOf(k, Payloads[k])[j]
      BY <3>1 DEF Laid
    <3> QED
      BY <1>2, <1>3, <3>4, <3>5
  <2> QED
    BY <2>1, <2>2
<1> QED
  BY <1>1, <1>3, <1>4, <1>5 DEF Laid

\* StreamOf() of the first payloads.
LEMMA StreamLaid ==
  ASSUME NEW e, AreEnds(e), NEW m \in 0..N, NEW P, Len(P) = m,
         \A k \in 1..m : P[k] = Payloads[k]
  PROVE  Laid(StreamOf(P), m, e)
<1> DEFINE S == [i \in 0..m |-> {s \in Seq(Units) : Laid(s, i, e)}]
           g == [i \in 1..m |-> [x \in Seq(Units) |-> x \o UnitsOf(i, P[i])]]
           def(s) == s = [n \in 0..Len(P) |-> IF n = 0 THEN <<>> ELSE s[n - 1] \o UnitsOf(n, P[n])]
           s == CHOOSE s : def(s)
<1>0. N \in Nat /\ m \in Nat /\ m <= N
  BY PayloadFields
<1>1. <<>> \in S[0]
  <2>1. Laid(<<>>, 0, e)
    BY DEF Laid, AreEnds
  <2> QED
    BY <1>0, <2>1
<1>2. ASSUME NEW i \in 1..m, NEW x \in Seq(Units), Laid(x, i - 1, e)
      PROVE  /\ x \o UnitsOf(i, P[i]) \in Seq(Units)
             /\ Laid(x \o UnitsOf(i, P[i]), i, e)
  <2>1. i \in 1..N /\ P[i] = Payloads[i]
    BY <1>0
  <2>2. Laid(x \o UnitsOf(i, P[i]), i, e)
    BY <1>2, <2>1, LaidNext
  <2> QED
    BY <2>2 DEF Laid
<1>3. ASSUME NEW i \in 1..m, NEW x \in S[i - 1]
      PROVE  g[i][x] = x \o UnitsOf(i, P[i]) /\ g[i][x] \in S[i]
  <2>1. i - 1 \in 0..m /\ i \in 0..m
    BY <1>0
  <2>2. x \in Seq(Units) /\ Laid(x, i - 1, e)
    BY <1>3, <2>1
  <2>3. g[i][x] = x \o UnitsOf(i, P[i])
    BY <2>2
  <2> QED
    BY <1>2, <2>1, <2>2, <2>3
<1>4. PICK f : Recurs(m, S, <<>>, g, f)
  <2>1. PICK S1, g1 : S1 = S /\ g1 = g
    OBVIOUS
  <2> HIDE DEF S, g, def, s
  <2>2. Steps(m, S1, <<>>, g1)
    BY <1>1, <1>3, <2>1 DEF Steps
  <2>3. \E f : Recurs(m, S1, <<>>, g1, f)
    BY <1>0, <2>2, Recursion
  <2> QED
    BY <2>1, <2>3
<1>5. \A i \in 0..m : f[i] \in S[i]
  BY <1>4 DEF Recurs
<1>6. \A i \in 1..m : f[i] = f[i - 1] \o UnitsOf(i, P[i])
  <2> SUFFICES ASSUME NEW i \in 1..m PROVE f[i] = f[i - 1] \o UnitsOf(i, P[i])
    OBVIOUS
  <2>1. i - 1 \in 0..m /\ f[i - 1] \in S[i - 1]
    BY <1>0, <1>5
  <2>2. f[i] = g[i][f[i - 1]]
    BY <1>4 DEF Recurs
  <2> QED
    <3> HIDE DEF S, g
    <3> QED
      BY <1>3, <2>1, <2>2
<1>7. f[0] = <<>>
  BY <1>4 DEF Recurs
<1>8. \E h : def(h)
  <2> DEFINE h == [i \in 0..Len(P) |-> f[i]]
  <2>1. ASSUME NEW n \in 0..Len(P)
        PROVE  h[n] = IF n = 0 THEN <<>> ELSE h[n - 1] \o UnitsOf(n, P[n])
    <3>1. CASE n = 0
      BY <1>7, <3>1
    <3>2. CASE n # 0
      <4>1. n \in 1..m /\ n - 1 \in 0..Len(P)
        BY <1>0, <3>2
      <4>2. h[n] = f[n] /\ h[n - 1] = f[n - 1]
        BY <4>1
      <4> QED
        BY <1>6, <3>2, <4>1, <4>2
    <3> QED
      BY <3>1, <3>2
  <2>2. h = [n \in 0..Len(P) |-> h[n]]
    OBVIOUS
  <2>3. def(h)
    <3> HIDE DEF h
    <3> QED
      BY <2>1, <2>2
  <2> QED
    BY <2>3
<1>9. def(s)
  <2> HIDE DEF def
  <2> QED
    BY <1>8, Zenon
<1>10. StreamOf(P) = s[Len(P)]
  BY DEF StreamOf
<1>11. PICK t : t = s
  OBVIOUS
<1>12. t[0] = <<>> /\ \A n \in 1..m : t[n] = t[n - 1] \o UnitsOf(n, P[n])
  <2>1. t = [n \in 0..m |-> IF n = 0 THEN <<>> ELSE t[n - 1] \o UnitsOf(n, P[n])]
    BY <1>9, <1>11
  <2> QED
    BY <1>0, <2>1
<1>13. \A n \in 0..m : t[n] \in S[n]
  <2> DEFINE T == {n \in 0..m : t[n] \in S[n]}
  <2>1. 0 \in T
    <3>1. t[0] \in S[0] /\ 0 \in 0..m
      <4> HIDE DEF S
      <4> QED
        BY <1>0, <1>1, <1>12
    <3> QED
      BY <3>1
  <2>2. ASSUME NEW n \in 1..m, n - 1 \in T PROVE n \in T
    <3>1. t[n - 1] \in S[n - 1] /\ t[n] = t[n - 1] \o UnitsOf(n, P[n]) /\ n \in 0..m
      BY <1>0, <1>12, <2>2
    <3> HIDE DEF S, g
    <3>2. t[n] \in S[n]
      BY <1>3, <3>1
    <3> QED
      BY <3>1, <3>2
  <2> HIDE DEF T
  <2>3. \A n \in 0..m : n \in T
    BY <1>0, <2>1, <2>2, UpTo
  <2> USE DEF T
  <2> QED
    BY <2>3
<1>14. t[m] \in {x \in Seq(Units) : Laid(x, m, e)}
  BY <1>0, <1>13
<1> QED
  BY <1>10, <1>11, <1>14

\* Ends(k) is where the first k payloads end.
LEMMA EndsAre ==
  ASSUME NEW e, AreEnds(e)
  PROVE  /\ \A k \in 0..N : Ends(k) = e[k]
         /\ Laid(Stream, N, e) /\ Total = e[N]
<1>0. N \in Nat /\ Payloads \in Seq(PayloadRecords)
  BY PayloadFields
<1>1. ASSUME NEW k \in 0..N PROVE Ends(k) = e[k]
  <2>1. PICK P : P = SubSeq(Payloads, 1, k)
    OBVIOUS
  <2>2. \A i \in 1..k : Payloads[i] \in PayloadRecords
    BY <1>0, PayloadFields
  <2>3. Len(P) = k /\ \A i \in 1..k : P[i] = Payloads[i]
    <3>1. k \in Int /\ 1 \in Int /\ k - 1 + 1 = k
      BY <1>0
    <3>2. /\ Len(P) = IF 1 <= k THEN k - 1 + 1 ELSE 0
          /\ \A i \in 1..k - 1 + 1 : P[i] = Payloads[1 + i - 1]
      BY <2>1, <2>2, <3>1, SubSeqProperties
    <3> QED
      BY <1>0, <3>1, <3>2
  <2>4. Laid(StreamOf(P), k, e)
    BY <2>3, StreamLaid
  <2> QED
    BY <2>1, <2>4 DEF Ends, Laid
<1>2. Laid(Stream, N, e)
  <2>1. N \in 0..N /\ Len(Payloads) = N
    BY <1>0 DEF N
  <2> QED
    BY <2>1, StreamLaid DEF Stream
<1> QED
  BY <1>1, <1>2 DEF Laid, Total

\* Where the payloads are in the stream, and that they do not overlap.
LEMMA Layout ==
  /\ Total \in Nat /\ Ends(0) = 0 /\ Ends(N) = Total
  /\ \A k \in 0..N : Ends(k) \in 0..Total
  /\ \A k \in 1..N : /\ Begins(k) \in 0..Total
                     /\ Begins(k) = Ends(k - 1) + Payloads[k].junk
                     /\ Ends(k) = Begins(k) + 2 + Payloads[k].size
  /\ \A k, l \in 1..N : k < l => Ends(k) <= Begins(l)
<1>0. N \in Nat
  BY PayloadFields
<1>1. PICK e : AreEnds(e)
  BY EndsExist
<1>2. /\ \A k \in 0..N : Ends(k) = e[k]
      /\ Total = e[N]
  BY <1>1, EndsAre
<1>3. \A k \in 0..N : Ends(k) \in Nat
  BY <1>1, <1>2 DEF AreEnds
<1>4. \A k \in 0..N : \A l \in k..N : Ends(k) <= Ends(l)
  <2> SUFFICES ASSUME NEW k \in 0..N, NEW l \in k..N PROVE Ends(k) <= Ends(l)
    OBVIOUS
  <2>1. l \in 0..N
    BY <1>0
  <2> QED
    BY <1>1, <1>2, <2>1, EndsGrow
<1>5. Total \in Nat /\ Ends(0) = 0 /\ Ends(N) = Total
  BY <1>0, <1>1, <1>2, <1>3 DEF AreEnds
<1>6. \A k \in 0..N : Ends(k) \in 0..Total
  <2> SUFFICES ASSUME NEW k \in 0..N PROVE Ends(k) \in 0..Total
    OBVIOUS
  <2>1. N \in k..N
    BY <1>0
  <2>2. Ends(k) <= Ends(N)
    BY <1>4, <2>1
  <2> QED
    BY <1>3, <1>5, <2>2
<1>7. ASSUME NEW k \in 1..N
      PROVE  /\ Begins(k) \in 0..Total
             /\ Begins(k) = Ends(k - 1) + Payloads[k].junk
             /\ Ends(k) = Begins(k) + 2 + Payloads[k].size
  <2>1. k - 1 \in 0..N /\ k \in 0..N
    BY <1>0
  <2>2. e[k] = e[k - 1] + (Payloads[k].junk + 2 + Payloads[k].size)
    BY <1>1 DEF AreEnds
  <2>3. PICK j \in Nat, z \in Nat : j = Payloads[k].junk /\ z = Payloads[k].size
    BY PayloadFields
  <2>4. PICK a, b : a = Ends(k - 1) /\ b = Ends(k) /\ a \in Nat /\ b \in 0..Total
    BY <1>3, <1>6, <2>1
  <2>5. b = a + (j + 2 + z)
    BY <1>2, <2>1, <2>2, <2>3, <2>4
  <2>6. Begins(k) = a + j
    BY <2>3, <2>4 DEF Begins
  <2> QED
    BY <1>5, <2>3, <2>4, <2>5, <2>6
<1>8. ASSUME NEW k \in 1..N, NEW l \in 1..N, k < l PROVE Ends(k) <= Begins(l)
  <2>1. k \in 0..N /\ l - 1 \in k..N /\ l - 1 \in 0..N
    BY <1>0, <1>8
  <2>2. Ends(k) <= Ends(l - 1) /\ Ends(k) \in Nat /\ Ends(l - 1) \in Nat
    BY <1>3, <1>4, <2>1
  <2>3. Payloads[l].junk \in Nat
    BY PayloadFields
  <2> QED
    BY <1>7, <2>2, <2>3
<1> QED
  BY <1>5, <1>6, <1>7, <1>8

\* What is where in the stream.
LEMMA Contents ==
  /\ Stream \in Seq(Units) /\ Len(Stream) = Total
  /\ \A k \in 1..N :
       /\ Stream[Begins(k) + 1] = [kind |-> "version"]
       /\ Stream[Begins(k) + 2] = [kind |-> "info", size |-> Payloads[k].size,
                                   pts |-> Payloads[k].pts]
       /\ \A j \in 1..Payloads[k].size :
            Stream[Begins(k) + 2 + j] = [kind |-> "body", of |-> k, at |-> j]
  /\ \A q \in 0..(Total - 1) :
       \/ Stream[q + 1] = [kind |-> "junk"] /\ \A k \in 1..N : q < Begins(k) \/ Ends(k) <= q
       \/ \E k \in 1..N : Begins(k) <= q /\ q < Ends(k)
<1>0. N \in Nat
  BY PayloadFields
<1>1. PICK e : AreEnds(e)
  BY EndsExist
<1>2. /\ \A k \in 0..N : Ends(k) = e[k]
      /\ Total = e[N] /\ Laid(Stream, N, e)
  BY <1>1, EndsAre
<1>3. Stream \in Seq(Units) /\ Len(Stream) = Total
  BY <1>2 DEF Laid
<1>4. ASSUME NEW k \in 1..N
      PROVE  \A j \in 1..Payloads[k].junk + 2 + Payloads[k].size :
               Stream[Ends(k - 1) + j] = UnitsOf(k, Payloads[k])[j]
  <2>1. k - 1 \in 0..N
    BY <1>0
  <2> QED
    BY <1>2, <2>1 DEF Laid
<1>5. ASSUME NEW k \in 1..N
      PROVE  /\ Stream[Begins(k) + 1] = [kind |-> "version"]
             /\ Stream[Begins(k) + 2] = [kind |-> "info", size |-> Payloads[k].size,
                                         pts |-> Payloads[k].pts]
             /\ \A j \in 1..Payloads[k].size :
                  Stream[Begins(k) + 2 + j] = [kind |-> "body", of |-> k, at |-> j]
             /\ \A j \in 1..Payloads[k].junk : Stream[Ends(k - 1) + j] = [kind |-> "junk"]
  <2>1. PICK x, y, a : /\ x = Payloads[k].junk /\ y = Payloads[k].size /\ a = Ends(k - 1)
                       /\ x \in Nat /\ y \in Nat /\ a \in Nat /\ Begins(k) = a + x
    <3>1. k - 1 \in 0..N
      BY <1>0
    <3>2. Ends(k - 1) \in Nat /\ Begins(k) = Ends(k - 1) + Payloads[k].junk
      BY <3>1, Layout
    <3>3. Payloads[k].junk \in Nat /\ Payloads[k].size \in Nat
      BY PayloadFields
    <3> QED
      BY <3>2, <3>3
  <2>2. PICK u : u = UnitsOf(k, Payloads[k])
    OBVIOUS
  <2>3. UnitsAre(u, k)
    BY <2>2, UnitsOfPayload
  <2>4. /\ \A j \in 1..x : u[j] = [kind |-> "junk"]
        /\ u[x + 1] = [kind |-> "version"]
        /\ u[x + 2] = [kind |-> "info", size |-> Payloads[k].size, pts |-> Payloads[k].pts]
        /\ \A j \in 1..y : u[x + 2 + j] = [kind |-> "body", of |-> k, at |-> j]
    BY <2>1, <2>3 DEF UnitsAre
  <2>5. \A j \in 1..x + 2 + y : Stream[a + j] = u[j]
    BY <1>4, <2>1, <2>2
  <2>6. Stream[a + (x + 1)] = u[x + 1] /\ Stream[a + (x + 2)] = u[x + 2]
    <3>1. x + 1 \in 1..x + 2 + y /\ x + 2 \in 1..x + 2 + y
      BY <2>1
    <3> QED
      BY <2>5, <3>1
  <2>7. \A j \in 1..y : Stream[a + (x + 2 + j)] = u[x + 2 + j]
    <3>1. \A j \in 1..y : x + 2 + j \in 1..x + 2 + y
      BY <2>1
    <3> QED
      BY <2>5, <3>1
  <2>8. \A j \in 1..x : Stream[a + j] = u[j]
    <3>1. \A j \in 1..x : j \in 1..x + 2 + y
      BY <2>1
    <3> QED
      BY <2>5, <3>1
  <2>9. /\ Begins(k) + 1 = a + (x + 1) /\ Begins(k) + 2 = a + (x + 2)
        /\ \A j \in 1..y : Begins(k) + 2 + j = a + (x + 2 + j)
    BY <2>1
  <2> QED
    BY <2>1, <2>4, <2>6, <2>7, <2>8, <2>9
<1>6. ASSUME NEW q \in 0..(Total - 1)
      PROVE  \/ Stream[q + 1] = [kind |-> "junk"] /\ \A k \in 1..N : q < Begins(k) \/ Ends(k) <= q
             \/ \E k \in 1..N : Begins(k) <= q /\ q < Ends(k)
  <2>1. q \in Nat /\ q < e[N]
    BY <1>2, Layout
  <2>2. PICK k \in 1..N : e[k - 1] <= q /\ q < e[k]
    BY <1>1, <2>1, EndsCover
  <2>3. k - 1 \in 0..N /\ k \in 0..N
    BY <1>0
  <2>4. /\ Ends(k - 1) <= q /\ q < Ends(k) /\ Ends(k - 1) \in Nat
        /\ Begins(k) = Ends(k - 1) + Payloads[k].junk /\ Payloads[k].junk \in Nat
    <3>1. Ends(k - 1) = e[k - 1] /\ Ends(k) = e[k]
      BY <1>2, <2>3
    <3>2. Ends(k - 1) \in 0..Total /\ Begins(k) = Ends(k - 1) + Payloads[k].junk
      BY <2>3, Layout
    <3>3. Payloads[k].junk \in Nat
      BY PayloadFields
    <3>4. Ends(k - 1) \in Nat
      BY <3>2
    <3> QED
      BY <2>2, <3>1, <3>2, <3>3, <3>4
  <2>5. CASE Begins(k) <= q
    BY <2>4, <2>5
  <2>6. CASE ~(Begins(k) <= q)
    <3>1. Begins(k) \in Nat /\ q < Begins(k)
      BY <2>1, <2>6, Layout
    <3>2. PICK j : j = q - Ends(k - 1) + 1 /\ j \in 1..Payloads[k].junk /\ Ends(k - 1) + j = q + 1
      BY <2>1, <2>4, <3>1
    <3>3. Stream[q + 1] = [kind |-> "junk"]
      <4>1. \A i \in 1..Payloads[k].junk : Stream[Ends(k - 1) + i] = [kind |-> "junk"]
        BY <1>5
      <4> QED
        BY <3>2, <4>1
    <3>4. ASSUME NEW l \in 1..N PROVE q < Begins(l) \/ Ends(l) <= q
      <4>1. Begins(l) \in Nat /\ Ends(l) \in Nat /\ Ends(k - 1) \in Nat
        BY <2>4, Layout
      <4>2. CASE l = k
        BY <3>1, <4>2
      <4>3. CASE l > k
        <5>1. Ends(k) <= Begins(l) /\ Ends(k) \in Nat
          BY <4>3, <2>3, Layout
        <5> QED
          BY <2>1, <2>4, <4>1, <5>1
      <4>4. CASE l < k
        <5>1. l \in 0..N /\ k - 1 \in l..N
          BY <1>0, <4>4
        <5>2. e[l] <= e[k - 1]
          BY <1>1, <5>1, EndsGrow
        <5>3. Ends(l) <= Ends(k - 1)
          BY <1>2, <2>3, <5>1, <5>2
        <5> QED
          BY <2>1, <2>4, <4>1, <5>3
      <4> QED
        BY <1>0, <4>2, <4>3, <4>4
    <3> QED
      BY <3>3, <3>4
  <2> QED
    BY <2>5, <2>6
<1> QED
  BY <1>3, <1>5, <1>6

\* Two payloads: one ends before the other begins.
LEMMA Apart ==
  /\ Total \in Nat
  /\ \A k \in 1..N : /\ Begins(k) \in Nat /\ Ends(k) \in Nat /\ Ends(k) <= Total
                     /\ Payloads[k].size \in Nat /\ Payloads[k].size <= MaxBody
                     /\ Payloads[k].size \in 0..MaxBody
                     /\ Ends(k) = Begins(k) + 2 + Payloads[k].size
  /\ \A k, l \in 1..N : k = l \/ Ends(k) <= Begins(l) \/ Ends(l) <= Begins(k)
<1>1. \A k \in 1..N : Begins(k) \in 0..Total /\ Ends(k) \in 0..Total
  <2>1. \A k \in 1..N : k \in 0..N
    BY PayloadFields
  <2> QED
    BY <2>1, Layout
<1>2. ASSUME NEW k \in 1..N, NEW l \in 1..N
      PROVE  k = l \/ Ends(k) <= Begins(l) \/ Ends(l) <= Begins(k)
  <2>1. k = l \/ k < l \/ l < k
    BY PayloadFields
  <2> QED
    BY <2>1, Layout
<1>3. ASSUME NEW k \in 1..N
      PROVE  /\ Begins(k) \in Nat /\ Ends(k) \in Nat /\ Ends(k) <= Total
             /\ Payloads[k].size \in Nat /\ Payloads[k].size <= MaxBody
             /\ Payloads[k].size \in 0..MaxBody
             /\ Ends(k) = Begins(k) + 2 + Payloads[k].size
  <2>1. Total \in Nat /\ Ends(k) = Begins(k) + 2 + Payloads[k].size
    BY Layout
  <2>2. Begins(k) \in Nat /\ Ends(k) \in Nat /\ Ends(k) <= Total
    BY <1>1, <2>1
  <2> QED
    BY <2>1, <2>2, PayloadFields
<1> QED
  BY <1>2, <1>3, Layout

----------------------------------------------------------------------------
(* The parser.                                                              *)

CallState ==
  [header : HeaderState, cost : Nat, cur_pts : Times, outsize : Nat, pts_found : BOOLEAN,
   done : BOOLEAN]

\* The last unit of payload l is among those from q to p.
EndsIn(l, q, p) == Payloads[l].size # 0 /\ q < Ends(l) /\ Ends(l) <= p

\* The call has found payload k.
Complete(c, k) ==
  /\ Payloads[k].size # 0 /\ c.outsize = Payloads[k].size
  /\ Holds(c.header.hw_sync_body_buf, k, Payloads[k].size)
  /\ c.cur_pts = Payloads[k].pts

\* A call of audio_header_find_frame() that began at q, after i turns.
CallAt(c, q, i) ==
  /\ c \in CallState /\ c.cost <= i /\ (~c.done => c.cost = i)
  /\ Parsed(c.header, q + c.cost) /\ SeenTo(c.header.hw_sync_body_buf, c.outsize, q + c.cost)
  /\ c.outsize <= Len(c.header.hw_sync_body_buf)
  /\ c.pts_found => c.cur_pts = c.header.last_apts_from_header
  /\ ~c.done => \A l \in 1..N : ~EndsIn(l, q, q + c.cost)
  /\ c.done => \E k \in 1..N : /\ Complete(c, k) /\ Ends(k) = q + c.cost
                               /\ \A l \in 1..N : EndsIn(l, q, q + c.cost) => l = k

\* u completes the header of payload k; it is the unit of payload k that the parser takes next.
InfoUnitAt(u, k, p) ==
  p = Begins(k) + 1 /\ u = [kind |-> "info", size |-> Payloads[k].size, pts |-> Payloads[k].pts]

BodyUnitAt(u, h, k, p) ==
  /\ InBody(h, k, p)
  /\ u = [kind |-> "body", of |-> k, at |-> h.hw_sync_frame_size - h.hw_sync_body_cnt + 1]

\* What the next unit can be.
LEMMA NextUnit ==
  ASSUME NEW h, NEW p, Parsed(h, p), p < Total
  PROVE  /\ h.hw_sync_state = "header" /\ h.hw_sync_header_cnt = 0 =>
              \/ /\ Stream[p + 1].kind = "junk"
                 /\ \A k \in 1..N : p < Begins(k) \/ Ends(k) <= p
              \/ Stream[p + 1].kind = "version" /\ \E k \in 1..N : p = Begins(k)
         /\ h.hw_sync_state = "header" /\ h.hw_sync_header_cnt = 1 =>
              \E k \in 1..N : InfoUnitAt(Stream[p + 1], k, p)
         /\ h.hw_sync_state = "body" => \E k \in 1..N : BodyUnitAt(Stream[p + 1], h, k, p)
<1>1. p \in 0..(Total - 1)
  BY Apart DEF Parsed
<1>2. ASSUME h.hw_sync_state = "header", h.hw_sync_header_cnt = 0
      PROVE  \/ /\ Stream[p + 1].kind = "junk"
                /\ \A k \in 1..N : p < Begins(k) \/ Ends(k) <= p
             \/ Stream[p + 1].kind = "version" /\ \E k \in 1..N : p = Begins(k)
  <2>1. CASE Stream[p + 1] = [kind |-> "junk"] /\ \A k \in 1..N : p < Begins(k) \/ Ends(k) <= p
    BY <2>1
  <2>2. CASE \E k \in 1..N : Begins(k) <= p /\ p < Ends(k)
    <3>1. PICK k \in 1..N : Begins(k) <= p /\ p < Ends(k)
      BY <2>2
    <3>2. p <= Begins(k) \/ Ends(k) <= p
      BY <1>2 DEF Parsed
    <3>3. p = Begins(k)
      BY <1>1, <3>1, <3>2, Apart
    <3>4. Stream[Begins(k) + 1] = [kind |-> "version"]
      BY Contents
    <3> QED
      BY <3>3, <3>4
  <2> QED
    BY <1>1, <2>1, <2>2, Contents
<1>3. ASSUME h.hw_sync_state = "header", h.hw_sync_header_cnt = 1
      PROVE  \E k \in 1..N : InfoUnitAt(Stream[p + 1], k, p)
  <2>1. PICK k \in 1..N : p = Begins(k) + 1
    BY <1>3 DEF Parsed
  <2>2. p + 1 = Begins(k) + 2
    BY <2>1, Apart
  <2>3. Stream[Begins(k) + 2] = [kind |-> "info", size |-> Payloads[k].size,
                                 pts |-> Payloads[k].pts]
    BY Contents
  <2> QED
    BY <2>1, <2>2, <2>3 DEF InfoUnitAt
<1>4. ASSUME h.hw_sync_state = "body"
      PROVE  \E k \in 1..N : BodyUnitAt(Stream[p + 1], h, k, p)
  <2>1. PICK k \in 1..N : InBody(h, k, p)
    BY <1>4 DEF Parsed
  <2>2. PICK s, b, e, g : /\ s = Payloads[k].size /\ b = h.hw_sync_body_cnt
                          /\ e = Ends(k) /\ g = Begins(k)
                          /\ s \in Nat /\ b \in 1..s /\ e = p + b /\ e = g + 2 + s /\ g \in Nat
                          /\ h.hw_sync_frame_size = s
    BY <2>1, Apart DEF InBody
  <2>3. PICK j \in 1..s : j = s - b + 1 /\ p + 1 = g + 2 + j
    BY <1>1, <2>2
  <2>4. Stream[Begins(k) + 2 + j] = [kind |-> "body", of |-> k, at |-> j]
    BY <2>2, Contents
  <2> QED
    BY <2>1, <2>2, <2>3, <2>4 DEF BodyUnitAt
<1> QED
  BY <1>2, <1>3, <1>4

\* What has been seen stays seen.
LEMMA SeenStays ==
  ASSUME NEW s, NEW m, NEW q \in Nat, NEW p \in Nat, q <= p, SeenTo(s, m, q)
  PROVE  SeenTo(s, m, p)
<1> SUFFICES ASSUME NEW i \in 1..m PROVE Seen(s[i], p)
  BY DEF SeenTo
<1>1. s[i] \in BodyUnits /\ Begins(s[i].of) + 2 + s[i].at <= q
  BY DEF SeenTo, Seen
<1>2. s[i].of \in 1..N /\ s[i].at \in 1..MaxBody /\ MaxBody \in Nat
  BY <1>1, PayloadFields DEF BodyUnits
<1>3. Begins(s[i].of) \in Nat /\ s[i].at \in Nat
  BY <1>2, Apart
<1> QED
  BY <1>1, <1>3 DEF Seen

\* Nor does it matter how much of it is looked at.
LEMMA SeenLess ==
  ASSUME NEW s, NEW m \in Nat, NEW n \in Nat, n <= m, NEW q, SeenTo(s, m, q)
  PROVE  SeenTo(s, n, q)
BY DEF SeenTo

\* The units of a payload that were stored have been seen.
LEMMA HoldsSeen ==
  ASSUME NEW buf, NEW k \in 1..N, NEW m \in Nat, m <= MaxBody, Holds(buf, k, m),
         NEW p \in Nat, NEW s \in Nat, s = Begins(k), s + 2 + m <= p
  PROVE  SeenTo(buf, m, p)
<1> SUFFICES ASSUME NEW i \in 1..m PROVE Seen(buf[i], p)
  BY DEF SeenTo
<1>1. PICK u : u = [kind |-> "body", of |-> k, at |-> i] /\ buf[i] = u
  BY DEF Holds
<1>2. i \in 1..MaxBody /\ s + 2 + i <= p
  BY PayloadFields
<1>3. u \in BodyUnits /\ u.of = k /\ u.at = i
  BY <1>1, <1>2 DEF BodyUnits
<1> QED
  BY <1>1, <1>2, <1>3 DEF Seen

\* memcpy() of a unit to place "at" of the buffer.
Copied(buf, at, u) == SubSeq(buf, 1, at - 1) \o <<u>> \o SubSeq(buf, at + 1, Len(buf))

StoredAt(buf, at, u, new) ==
  /\ new \in Seq(Units) /\ at <= Len(new) /\ Len(buf) <= Len(new)
  /\ \A i \in 1..at - 1 : new[i] = buf[i]
  /\ new[at] = u
  /\ \A i \in 1..Len(buf) : new[i] = u \/ new[i] = buf[i]

\* It changes no other unit.
LEMMA Stored ==
  ASSUME NEW buf \in Seq(Units), NEW at \in Nat, at # 0, at - 1 <= Len(buf),
         NEW u \in Units, NEW new,
         new = Copied(buf, at, u)
  PROVE  StoredAt(buf, at, u, new)
<1>0. PICK m \in Nat : m = Len(buf)
  BY LenProperties
<1>1. PICK a, b : a = SubSeq(buf, 1, at - 1) /\ b = SubSeq(buf, at + 1, m)
  OBVIOUS
<1>2. \A i \in 1..m : buf[i] \in Units
  BY <1>0, LenProperties
<1>3. /\ a \in Seq(Units) /\ Len(a) = at - 1
      /\ \A i \in 1..at - 1 : a[i] = buf[i]
  <2>1. /\ a \in Seq(Units)
        /\ Len(a) = IF 1 <= at - 1 THEN at - 1 - 1 + 1 ELSE 0
        /\ \A i \in 1..at - 1 - 1 + 1 : a[i] = buf[1 + i - 1]
    <3>1. 1 \in Int /\ at - 1 \in Int /\ \A i \in 1..at - 1 : buf[i] \in Units
      BY <1>0, <1>2
    <3> QED
      BY <1>1, <3>1, SubSeqProperties
  <2>2. at - 1 - 1 + 1 = at - 1 /\ \A i \in 1..at - 1 : 1 + i - 1 = i
    OBVIOUS
  <2> QED
    BY <2>1, <2>2
<1>4. PICK n \in Nat : /\ b \in Seq(Units) /\ Len(b) = n
                       /\ n = IF at <= m THEN m - at ELSE 0
                       /\ \A i \in 1..n : b[i] = buf[at + i]
  <2>0. (IF at <= m THEN m - at ELSE 0) \in Nat
    BY <1>0
  <2>1. PICK n : n = (IF at <= m THEN m - at ELSE 0) /\ n \in Nat
    BY <2>0
  <2>2. /\ b \in Seq(Units)
        /\ Len(b) = IF at + 1 <= m THEN m - (at + 1) + 1 ELSE 0
        /\ \A i \in 1..m - (at + 1) + 1 : b[i] = buf[at + 1 + i - 1]
    <3>1. at + 1 \in Int /\ m \in Int /\ \A i \in at + 1..m : buf[i] \in Units
      BY <1>0, <1>2
    <3>2. PICK o \in Int : o = at + 1
      BY <3>1
    <3>3. /\ SubSeq(buf, o, m) \in Seq(Units)
          /\ Len(SubSeq(buf, o, m)) = IF o <= m THEN m - o + 1 ELSE 0
          /\ \A i \in 1..m - o + 1 : SubSeq(buf, o, m)[i] = buf[o + i - 1]
      BY <3>1, <3>2, SubSeqProperties
    <3> QED
      BY <1>1, <3>2, <3>3
  <2>3. Len(b) = n
    BY <1>0, <2>1, <2>2
  <2>4. ASSUME NEW i \in 1..n PROVE b[i] = buf[at + i]
    <3>1. i \in 1..m - (at + 1) + 1 /\ at + 1 + i - 1 = at + i
      BY <2>1
    <3> QED
      BY <2>2, <3>1
  <2> QED
    BY <2>1, <2>2, <2>3, <2>4
<1>5. <<u>> \in Seq(Units) /\ Len(<<u>>) = 1 /\ <<u>>[1] = u
  OBVIOUS
<1>6. PICK c : /\ c = a \o <<u>> /\ c \in Seq(Units) /\ Len(c) = at
               /\ \A i \in 1..at - 1 : c[i] = a[i]
               /\ c[at] = u
  <2>1. PICK v : v = <<u>>
    OBVIOUS
  <2>2. v \in Seq(Units) /\ Len(v) = 1 /\ v[1] = u
    BY <1>5, <2>1
  <2>3. /\ a \o v \in Seq(Units) /\ Len(a \o v) = Len(a) + Len(v)
        /\ \A i \in 1..Len(a) : (a \o v)[i] = a[i]
        /\ \A i \in 1..Len(v) : (a \o v)[Len(a) + i] = v[i]
    BY <1>3, <2>2, Joined
  <2>4. at - 1 + 1 = at
    OBVIOUS
  <2>5. /\ a \o v \in Seq(Units) /\ Len(a \o v) = at
        /\ \A i \in 1..at - 1 : (a \o v)[i] = a[i]
    BY <1>3, <2>2, <2>3, <2>4
  <2>6. (a \o v)[at] = u
    <3>1. 1 \in 1..Len(v)
      BY <2>2
    <3>2. (a \o v)[Len(a) + 1] = v[1]
      BY <2>3, <3>1
    <3> QED
      BY <1>3, <2>2, <2>4, <3>2
  <2> QED
    BY <2>1, <2>5, <2>6
<1>7. /\ new \in Seq(Units) /\ Len(new) = at + n
      /\ \A i \in 1..at : new[i] = c[i]
      /\ \A i \in 1..n : new[at + i] = b[i]
  <2>1. new = c \o b
    BY <1>0, <1>1, <1>6 DEF Copied
  <2>2. /\ c \o b \in Seq(Units) /\ Len(c \o b) = Len(c) + Len(b)
        /\ \A i \in 1..Len(c) : (c \o b)[i] = c[i]
        /\ \A i \in 1..Len(b) : (c \o b)[Len(c) + i] = b[i]
    BY <1>4, <1>6, Joined
  <2> QED
    BY <1>4, <1>6, <2>1, <2>2
<1>8. at <= Len(new) /\ Len(buf) <= Len(new)
  <2>1. at <= at + n /\ m <= at + n
    BY <1>0, <1>4
  <2> QED
    BY <1>0, <1>7, <2>1
<1>9. \A i \in 1..at - 1 : new[i] = buf[i]
  <2> SUFFICES ASSUME NEW i \in 1..at - 1 PROVE new[i] = buf[i]
    OBVIOUS
  <2>1. i \in 1..at
    OBVIOUS
  <2> QED
    BY <1>3, <1>6, <1>7, <2>1
<1>10. new[at] = u
  <2>1. at \in 1..at
    OBVIOUS
  <2> QED
    BY <1>6, <1>7, <2>1
<1>11. ASSUME NEW i \in 1..Len(buf)
       PROVE  new[i] = u \/ new[i] = buf[i]
  <2>1. CASE i < at
    BY <1>9, <2>1
  <2>2. CASE i = at
    BY <1>10, <2>2
  <2>3. CASE at < i
    <3>1. PICK x \in 1..n : i = at + x
      <4>1. i - at \in 1..n /\ i = at + (i - at)
        BY <1>0, <1>4, <2>3
      <4> QED
        BY <4>1
    <3> QED
      BY <1>4, <1>7, <3>1
  <2> QED
    BY <1>0, <2>1, <2>2, <2>3
<1> QED
  BY <1>7, <1>8, <1>9, <1>10, <1>11 DEF StoredAt

\* d is c a unit later, and no payload ends with this unit.
GoesOn(c, d, p) ==
  /\ ~d.done /\ d.cost = c.cost + 1
  /\ Parsed(d.header, p + 1) /\ SeenTo(d.header.hw_sync_body_buf, d.outsize, p + 1)
  /\ d.outsize <= Len(d.header.hw_sync_body_buf)
  /\ d.pts_found => d.cur_pts = d.header.last_apts_from_header
  /\ \A l \in 1..N : Ends(l) = p + 1 => Payloads[l].size = 0

\* A turn that does not complete a payload.
LEMMA CallGoesOn ==
  ASSUME NEW q \in Nat, NEW i \in Nat, NEW c, CallAt(c, q, i), ~c.done,
         NEW p \in Nat, p = q + c.cost,
         NEW d \in CallState, GoesOn(c, d, p)
  PROVE  CallAt(d, q, i + 1)
<1> USE DEF GoesOn
<1>1. c.cost = i /\ d.cost = i + 1 /\ q + d.cost = p + 1 /\ q + c.cost = p
  BY DEF CallAt
<1>2. ASSUME NEW l \in 1..N PROVE ~EndsIn(l, q, q + d.cost)
  <2>1. ~EndsIn(l, q, q + c.cost)
    BY DEF CallAt
  <2>2. Ends(l) \in Nat /\ c.cost \in Nat
    BY <1>1, Apart
  <2> QED
    BY <1>1, <2>1, <2>2 DEF EndsIn
<1>3. /\ Parsed(d.header, q + d.cost) /\ SeenTo(d.header.hw_sync_body_buf, d.outsize, q + d.cost)
      /\ d.cost <= i + 1
  BY <1>1
<1> QED
  BY <1>1, <1>2, <1>3 DEF CallAt

\* The fields of a call and of its header.
LEMMA CallFields ==
  ASSUME NEW c \in CallState
  PROVE  /\ c.header \in HeaderState /\ c.cost \in Nat /\ c.cur_pts \in Times /\ c.outsize \in Nat
         /\ c.pts_found \in BOOLEAN /\ c.done \in BOOLEAN
         /\ [c EXCEPT !.cost = @ + 1] \in CallState
         /\ [c EXCEPT !.cost = @ + 1].cost = c.cost + 1
         /\ [c EXCEPT !.cost = @ + 1].header = c.header
         /\ [c EXCEPT !.cost = @ + 1].cur_pts = c.cur_pts
         /\ [c EXCEPT !.cost = @ + 1].outsize = c.outsize
         /\ [c EXCEPT !.cost = @ + 1].pts_found = c.pts_found
         /\ [c EXCEPT !.cost = @ + 1].done = c.done
BY DEF CallState

\* The fields of an audio_header_t.
LEMMA HeaderFields ==
  ASSUME NEW h \in HeaderState
  PROVE  /\ h.hw_sync_state \in {"header", "body"} /\ h.hw_sync_header_cnt \in 0..1
         /\ h.hw_sync_body_cnt \in 0..MaxBody /\ h.hw_sync_frame_size \in 0..MaxBody
         /\ h.hw_sync_body_buf \in Seq(Units) /\ Len(h.hw_sync_body_buf) \in Nat
         /\ h.last_apts_from_header \in Times /\ h.eos \in BOOLEAN
<1>1. h.hw_sync_body_buf \in Seq(Units)
  BY DEF HeaderState
<1> QED
  BY <1>1, LenProperties DEF HeaderState

\* No payload ends right after the first unit of a header, nor within one.
LEMMA NoEnd ==
  ASSUME NEW k \in 1..N, NEW l \in 1..N, NEW p \in Nat, Begins(k) < p, p < Ends(k)
  PROVE  Ends(l) # p
BY Apart

\* A unit that is skipped.
LEMMA TakeJunk ==
  ASSUME NEW q \in Nat, NEW i \in Nat, NEW c, CallAt(c, q, i), ~c.done,
         NEW p \in Nat, p = q + c.cost, p < Total,
         NEW u, u.kind = "junk",
         c.header.hw_sync_state = "header", c.header.hw_sync_header_cnt = 0,
         \A k \in 1..N : p < Begins(k) \/ Ends(k) <= p
  PROVE  CallAt(TakeUnit(c, u), q, i + 1)
<1>0. /\ c \in CallState /\ Parsed(c.header, p) /\ c.header \in HeaderState
      /\ c.outsize <= Len(c.header.hw_sync_body_buf)
      /\ SeenTo(c.header.hw_sync_body_buf, c.outsize, p)
      /\ c.pts_found => c.cur_pts = c.header.last_apts_from_header
  BY CallFields DEF CallAt
<1>1. PICK d : d = [c EXCEPT !.cost = @ + 1]
  OBVIOUS
<1>2. /\ d \in CallState /\ d.cost = c.cost + 1 /\ d.header = c.header /\ d.cur_pts = c.cur_pts
      /\ d.outsize = c.outsize /\ d.pts_found = c.pts_found /\ d.done = c.done
  BY <1>0, <1>1, CallFields
<1>3. TakeUnit(c, u) = d
  BY <1>1, <1>0 DEF TakeUnit
<1>4. SeenTo(c.header.hw_sync_body_buf, c.outsize, p + 1)
  BY <1>0, SeenStays, p + 1 \in Nat, p <= p + 1
<1>5. Parsed(d.header, p + 1)
  <2>1. \A k \in 1..N : p + 1 <= Begins(k) \/ Ends(k) <= p + 1
    BY Apart
  <2>2. p + 1 \in 0..Total
    BY Apart
  <2> QED
    BY <1>0, <1>2, <2>1, <2>2 DEF Parsed
<1>6. \A l \in 1..N : Ends(l) # p + 1
  BY Apart
<1>7. CallAt(d, q, i + 1)
  <2>1. d \in CallState /\ GoesOn(c, d, p)
    BY <1>0, <1>2, <1>4, <1>5, <1>6 DEF GoesOn
  <2> QED
    BY <2>1, CallGoesOn
<1> QED
  BY <1>3, <1>7

\* What a turn that takes a unit of a header leaves alone.
Advanced(c, h, d) ==
  /\ d.header = h /\ d.cost = c.cost + 1 /\ d.outsize = c.outsize /\ d.done = c.done
  /\ h.hw_sync_body_buf = c.header.hw_sync_body_buf

\* The first unit of a header is read.
VersionRead(c, h, d) ==
  /\ Advanced(c, h, d)
  /\ h.hw_sync_state = "header" /\ h.hw_sync_header_cnt = 1
  /\ h.last_apts_from_header = c.header.last_apts_from_header
  /\ d.cur_pts = c.cur_pts /\ d.pts_found = c.pts_found

\* The first unit of a header.
LEMMA VersionTaken ==
  ASSUME NEW c \in CallState, NEW u, u.kind = "version",
         c.header.hw_sync_state = "header", c.header.hw_sync_header_cnt # 1
  PROVE  \E h \in HeaderState, d \in CallState : d = TakeUnit(c, u) /\ VersionRead(c, h, d)
<1>1. PICK e : e = [c EXCEPT !.cost = @ + 1]
  OBVIOUS
<1>2. /\ e \in CallState /\ e.cost = c.cost + 1 /\ e.header = c.header /\ e.cur_pts = c.cur_pts
      /\ e.outsize = c.outsize /\ e.pts_found = c.pts_found /\ e.done = c.done
  BY <1>1, CallFields
<1>3. PICK g, h : g \in HeaderState /\ g = c.header /\ h = [g EXCEPT !.hw_sync_header_cnt = 1]
  BY CallFields
<1>4. /\ h \in HeaderState /\ h.hw_sync_state = "header" /\ h.hw_sync_header_cnt = 1
      /\ h.hw_sync_body_buf = c.header.hw_sync_body_buf
      /\ h.last_apts_from_header = c.header.last_apts_from_header
  <2>1. 1 \in 0..1
    OBVIOUS
  <2> QED
    BY <1>3, <2>1 DEF HeaderState
<1>5. PICK d : d = [e EXCEPT !.header.hw_sync_header_cnt = 1]
  OBVIOUS
<1>6. TakeUnit(c, u) = d
  BY <1>1, <1>5 DEF TakeUnit
<1>7. /\ d \in CallState /\ d.header = h /\ d.cost = c.cost + 1 /\ d.cur_pts = c.cur_pts
      /\ d.outsize = c.outsize /\ d.pts_found = c.pts_found /\ d.done = c.done
  BY <1>2, <1>3, <1>4, <1>5 DEF CallState
<1>8. VersionRead(c, h, d)
  BY <1>4, <1>7 DEF VersionRead, Advanced
<1> QED
  BY <1>4, <1>6, <1>7, <1>8

\* It is where a payload begins.
LEMMA TakeVersion ==
  ASSUME NEW q \in Nat, NEW i \in Nat, NEW c, CallAt(c, q, i), ~c.done,
         NEW p \in Nat, p = q + c.cost, p < Total,
         NEW u, u.kind = "version",
         c.header.hw_sync_state = "header", c.header.hw_sync_header_cnt = 0,
         NEW k \in 1..N, p = Begins(k)
  PROVE  CallAt(TakeUnit(c, u), q, i + 1)
<1>0. /\ c \in CallState /\ Parsed(c.header, p) /\ c.header \in HeaderState
      /\ c.outsize <= Len(c.header.hw_sync_body_buf)
      /\ SeenTo(c.header.hw_sync_body_buf, c.outsize, p)
      /\ c.pts_found => c.cur_pts = c.header.last_apts_from_header
  BY CallFields DEF CallAt
<1>1. PICK h \in HeaderState, d \in CallState : d = TakeUnit(c, u) /\ VersionRead(c, h, d)
  BY <1>0, VersionTaken
<1>2. /\ d.header = h /\ d.cost = c.cost + 1 /\ d.cur_pts = c.cur_pts
      /\ d.outsize = c.outsize /\ d.pts_found = c.pts_found /\ d.done = c.done
      /\ h.hw_sync_state = "header" /\ h.hw_sync_header_cnt = 1
      /\ h.hw_sync_body_buf = c.header.hw_sync_body_buf
      /\ h.last_apts_from_header = c.header.last_apts_from_header
  BY <1>1 DEF VersionRead, Advanced
<1>3. SeenTo(c.header.hw_sync_body_buf, c.outsize, p + 1)
  BY <1>0, SeenStays, p + 1 \in Nat, p <= p + 1
<1>4. Parsed(h, p + 1)
  <2>1. p + 1 \in 0..Total /\ p + 1 = Begins(k) + 1
    BY Apart
  <2> QED
    BY <1>2, <2>1 DEF Parsed
<1>5. \A l \in 1..N : Ends(l) # p + 1
  BY Apart, NoEnd
<1>6. GoesOn(c, d, p)
  BY <1>0, <1>2, <1>3, <1>4, <1>5 DEF GoesOn
<1> QED
  BY <1>1, <1>6, CallGoesOn

\* h is g after the header of payload k.
HeaderRead(g, h, k) ==
  /\ h.hw_sync_header_cnt = 0
  /\ h.hw_sync_body_cnt = Payloads[k].size /\ h.hw_sync_frame_size = Payloads[k].size
  /\ h.hw_sync_body_buf = g.hw_sync_body_buf
  /\ IF Payloads[k].size # 0
     THEN h.hw_sync_state = "body" /\ h.last_apts_from_header = Payloads[k].pts
     ELSE h.hw_sync_state = "header"

\* Where the parser is after a header.
LEMMA AfterHeader ==
  ASSUME NEW k \in 1..N, NEW p \in Nat, p = Begins(k) + 1, NEW g \in HeaderState, Parsed(g, p),
         NEW h \in HeaderState, HeaderRead(g, h, k)
  PROVE  Parsed(h, p + 1) /\ \A l \in 1..N : Ends(l) = p + 1 => Payloads[l].size = 0
<1> USE DEF HeaderRead
<1>2. PICK s \in Nat : s = Payloads[k].size /\ s <= MaxBody
  BY Apart
<1>3. Ends(k) = p + 1 + s /\ Ends(k) <= Total /\ Begins(k) \in Nat /\ p + 1 \in 0..Total
  BY <1>2, Apart
<1>4. ASSUME NEW l \in 1..N, Ends(l) = p + 1 PROVE Payloads[l].size = 0
  <2>1. l = k
    BY <1>3, <1>4, Apart
  <2> QED
    BY <1>2, <1>3, <1>4, <2>1
<1>5. CASE s # 0
  <2>1. Holds(h.hw_sync_body_buf, k, s - s)
    <3>1. Len(h.hw_sync_body_buf) \in Nat /\ s - s = 0
      BY HeaderFields
    <3> QED
      BY <3>1 DEF Holds
  <2>2. InBody(h, k, p + 1)
    BY <1>2, <1>3, <1>5, <2>1 DEF InBody
  <2> QED
    BY <1>2, <1>3, <1>4, <1>5, <2>2 DEF Parsed
<1>6. CASE s = 0
  <2>1. p + 1 = Ends(k)
    BY <1>3, <1>6
  <2>2. \A l \in 1..N : p + 1 <= Begins(l) \/ Ends(l) <= p + 1
    BY <2>1, Apart
  <2> QED
    BY <1>2, <1>3, <1>4, <1>6, <2>2 DEF Parsed
<1> QED
  BY <1>5, <1>6

\* The two steps of TakeHeader(), and what the header says.
InfoOf(u) == IF u.kind = "info" THEN u ELSE Misread
SizeOf(info) == IF info.size > MaxBody THEN MaxBody ELSE info.size
StateFor(size) == IF size # 0 THEN "body" ELSE "header"

SizeTaken(c, size, state) ==
  [c EXCEPT !.header.hw_sync_header_cnt = 0, !.header.hw_sync_body_cnt = size,
            !.header.hw_sync_frame_size = size, !.header.hw_sync_state = state]

TimeTaken(c, t) ==
  IF t = EOS THEN [c EXCEPT !.header.eos = TRUE]
  ELSE [c EXCEPT !.header.last_apts_from_header = t, !.cur_pts = t, !.pts_found = TRUE]

\* TakeHeader() takes the size, and then the pts.
LEMMA HeaderTaken ==
  ASSUME NEW c, NEW u, NEW s, s = SizeOf(InfoOf(u)), NEW state, state = StateFor(s),
         NEW t, t = InfoOf(u).pts, NEW d, d = SizeTaken(c, s, state)
  PROVE  TakeHeader(c, u) = TimeTaken(d, t)
<1>1. TakeHeader(c, u) =
        TimeTaken(SizeTaken(c, SizeOf(InfoOf(u)), StateFor(SizeOf(InfoOf(u)))), InfoOf(u).pts)
  BY Zenon DEF TakeHeader, TimeTaken, SizeTaken, SizeOf, StateFor, InfoOf
<1>2. d = SizeTaken(c, SizeOf(InfoOf(u)), StateFor(SizeOf(InfoOf(u))))
  OBVIOUS
<1> QED
  BY <1>1, <1>2

\* A header of size s and pts t is read.
InfoRead(c, s, t, h, d) ==
  /\ Advanced(c, h, d)
  /\ h.hw_sync_header_cnt = 0 /\ h.hw_sync_body_cnt = s /\ h.hw_sync_frame_size = s
  /\ h.hw_sync_state = StateFor(s)
  /\ IF t = EOS THEN /\ h.last_apts_from_header = c.header.last_apts_from_header
                     /\ d.cur_pts = c.cur_pts /\ d.pts_found = c.pts_found
     ELSE h.last_apts_from_header = t /\ d.cur_pts = t

\* The second unit of a header.
LEMMA InfoTaken ==
  ASSUME NEW c \in CallState, NEW u,
         c.header.hw_sync_state = "header", c.header.hw_sync_header_cnt = 1,
         NEW s \in 0..MaxBody, s = SizeOf(InfoOf(u)),
         NEW t \in Nat \cup {NA, EOS}, t = InfoOf(u).pts
  PROVE  \E h \in HeaderState, d \in CallState : d = TakeUnit(c, u) /\ InfoRead(c, s, t, h, d)
<1>1. PICK e : e = [c EXCEPT !.cost = @ + 1]
  OBVIOUS
<1>2. /\ e \in CallState /\ e.cost = c.cost + 1 /\ e.header = c.header /\ e.cur_pts = c.cur_pts
      /\ e.outsize = c.outsize /\ e.pts_found = c.pts_found /\ e.done = c.done
  BY <1>1, CallFields
<1>4. PICK state \in {"header", "body"} : state = StateFor(s)
  BY DEF StateFor
<1>6. PICK d : d = [e EXCEPT !.header.hw_sync_header_cnt = 0,
                             !.header.hw_sync_body_cnt = s,
                             !.header.hw_sync_frame_size = s,
                             !.header.hw_sync_state = state]
  OBVIOUS
<1>7. PICK g : g = c.header /\ g \in HeaderState
  BY CallFields
<1>8. PICK h : h = [g EXCEPT !.hw_sync_header_cnt = 0, !.hw_sync_body_cnt = s,
                             !.hw_sync_frame_size = s, !.hw_sync_state = state]
  OBVIOUS
<1>9. /\ h \in HeaderState /\ h.hw_sync_header_cnt = 0
      /\ h.hw_sync_body_cnt = s /\ h.hw_sync_frame_size = s
      /\ h.hw_sync_state = state /\ h.hw_sync_body_buf = g.hw_sync_body_buf
      /\ h.last_apts_from_header = g.last_apts_from_header
  <2>1. 0 \in 0..1
    OBVIOUS
  <2> QED
    BY <1>7, <1>8, <2>1 DEF HeaderState
<1>10. /\ d \in CallState /\ d.header = h /\ d.cost = c.cost + 1 /\ d.cur_pts = c.cur_pts
       /\ d.outsize = c.outsize /\ d.pts_found = c.pts_found /\ d.done = c.done
  BY <1>2, <1>6, <1>7, <1>8, <1>9 DEF CallState
<1>11. TakeUnit(c, u) = TimeTaken(d, t)
  <2>1. TakeUnit(c, u) = TakeHeader(e, u)
    BY <1>1 DEF TakeUnit
  <2>2. d = SizeTaken(e, s, state)
    BY <1>6 DEF SizeTaken
  <2>3. TakeHeader(e, u) = TimeTaken(d, t)
    BY <1>4, <2>2, HeaderTaken
  <2> QED
    BY <2>1, <2>3
<1>12. CASE t = EOS
  <2>1. PICK h2, d2 : h2 = [h EXCEPT !.eos = TRUE] /\ d2 = [d EXCEPT !.header.eos = TRUE]
    OBVIOUS
  <2>2. /\ h2 \in HeaderState /\ h2.hw_sync_header_cnt = 0
        /\ h2.hw_sync_body_cnt = s /\ h2.hw_sync_frame_size = s
        /\ h2.hw_sync_state = state /\ h2.hw_sync_body_buf = g.hw_sync_body_buf
        /\ h2.last_apts_from_header = g.last_apts_from_header
    BY <1>9, <2>1 DEF HeaderState
  <2>3. /\ d2 \in CallState /\ d2.header = h2 /\ d2.cost = c.cost + 1 /\ d2.cur_pts = c.cur_pts
        /\ d2.outsize = c.outsize /\ d2.pts_found = c.pts_found /\ d2.done = c.done
    BY <1>10, <2>1, <2>2 DEF CallState
  <2>4. d2 = TakeUnit(c, u)
    BY <1>11, <1>12, <2>1 DEF TimeTaken
  <2>5. InfoRead(c, s, t, h2, d2)
    BY <1>4, <1>7, <1>12, <2>2, <2>3 DEF InfoRead, Advanced
  <2> QED
    BY <2>2, <2>3, <2>4, <2>5
<1>13. CASE t # EOS
  <2>0. t \in Times
    BY <1>13 DEF Times
  <2>1. PICK h2, d2 : /\ h2 = [h EXCEPT !.last_apts_from_header = t]
                      /\ d2 = [d EXCEPT !.header.last_apts_from_header = t, !.cur_pts = t,
                                        !.pts_found = TRUE]
    OBVIOUS
  <2>2. /\ h2 \in HeaderState /\ h2.hw_sync_header_cnt = 0
        /\ h2.hw_sync_body_cnt = s /\ h2.hw_sync_frame_size = s
        /\ h2.hw_sync_state = state /\ h2.hw_sync_body_buf = g.hw_sync_body_buf
        /\ h2.last_apts_from_header = t
    BY <1>9, <2>0, <2>1 DEF HeaderState
  <2>3. /\ d2 \in CallState /\ d2.header = h2 /\ d2.cost = c.cost + 1 /\ d2.cur_pts = t
        /\ d2.outsize = c.outsize /\ d2.done = c.done
    BY <1>10, <2>0, <2>1, <2>2 DEF CallState
  <2>4. d2 = TakeUnit(c, u)
    BY <1>11, <1>13, <2>1 DEF TimeTaken
  <2>5. InfoRead(c, s, t, h2, d2)
    BY <1>4, <1>7, <1>13, <2>2, <2>3 DEF InfoRead, Advanced
  <2> QED
    BY <2>2, <2>3, <2>4, <2>5
<1> QED
  BY <1>12, <1>13

\* It is that of the payload whose first unit was read.
LEMMA TakeInfo ==
  ASSUME NEW q \in Nat, NEW i \in Nat, NEW c, CallAt(c, q, i), ~c.done,
         NEW p \in Nat, p = q + c.cost, p < Total,
         c.header.hw_sync_state = "header", c.header.hw_sync_header_cnt = 1,
         NEW k \in 1..N, p = Begins(k) + 1,
         NEW u, u = [kind |-> "info", size |-> Payloads[k].size, pts |-> Payloads[k].pts]
  PROVE  CallAt(TakeUnit(c, u), q, i + 1)
<1>0. /\ c \in CallState /\ Parsed(c.header, p) /\ c.header \in HeaderState
      /\ c.outsize <= Len(c.header.hw_sync_body_buf)
      /\ SeenTo(c.header.hw_sync_body_buf, c.outsize, p)
      /\ c.pts_found => c.cur_pts = c.header.last_apts_from_header
  BY CallFields DEF CallAt
<1>1. PICK s \in 0..MaxBody : s = Payloads[k].size /\ s = SizeOf(InfoOf(u))
  <2>1. /\ Payloads[k].size \in Nat /\ Payloads[k].size <= MaxBody
        /\ Payloads[k].size \in 0..MaxBody /\ MaxBody \in Nat
    BY Apart, PayloadFields
  <2>2. u.kind = "info" /\ u.size = Payloads[k].size
    OBVIOUS
  <2> QED
    BY <2>1, <2>2 DEF SizeOf, InfoOf
<1>2. PICK t \in Nat \cup {NA, EOS} :
        t = Payloads[k].pts /\ (t = EOS => s = 0) /\ t = InfoOf(u).pts
  BY <1>1, PayloadFields DEF InfoOf
<1>3. PICK h \in HeaderState, d \in CallState : d = TakeUnit(c, u) /\ InfoRead(c, s, t, h, d)
  BY <1>0, <1>1, <1>2, InfoTaken
<1>4. /\ d.header = h /\ d.cost = c.cost + 1 /\ d.outsize = c.outsize /\ d.done = c.done
      /\ h.hw_sync_body_buf = c.header.hw_sync_body_buf
      /\ h.hw_sync_header_cnt = 0 /\ h.hw_sync_body_cnt = s /\ h.hw_sync_frame_size = s
      /\ h.hw_sync_state = IF s # 0 THEN "body" ELSE "header"
      /\ d.pts_found => d.cur_pts = h.last_apts_from_header
      /\ t # EOS => h.last_apts_from_header = t
  BY <1>0, <1>3 DEF InfoRead, Advanced, StateFor
<1>5. HeaderRead(c.header, h, k)
  BY <1>1, <1>2, <1>4 DEF HeaderRead
<1>6. Parsed(h, p + 1) /\ \A l \in 1..N : Ends(l) = p + 1 => Payloads[l].size = 0
  BY <1>0, <1>5, AfterHeader
<1>7. SeenTo(c.header.hw_sync_body_buf, c.outsize, p + 1)
  BY <1>0, SeenStays, p + 1 \in Nat, p <= p + 1
<1>8. GoesOn(c, d, p)
  BY <1>0, <1>4, <1>6, <1>7 DEF GoesOn
<1> QED
  BY <1>3, <1>8, CallGoesOn

\* What a turn that takes a unit of a payload does: its size is a, b units are missing.
BodyTaken(c, u, a, b, h, d) ==
  /\ d = TakeUnit(c, u) /\ d.header = h /\ d.cost = c.cost + 1
  /\ h.hw_sync_frame_size = a /\ h.hw_sync_body_cnt = b - 1
  /\ h.hw_sync_header_cnt = c.header.hw_sync_header_cnt
  /\ h.last_apts_from_header = c.header.last_apts_from_header
  /\ a - b + 1 <= Len(h.hw_sync_body_buf)
  /\ Len(c.header.hw_sync_body_buf) <= Len(h.hw_sync_body_buf)
  /\ \A i \in 1..a - b : h.hw_sync_body_buf[i] = c.header.hw_sync_body_buf[i]
  /\ h.hw_sync_body_buf[a - b + 1] = u
  /\ \A i \in 1..Len(c.header.hw_sync_body_buf) :
       h.hw_sync_body_buf[i] = u \/ h.hw_sync_body_buf[i] = c.header.hw_sync_body_buf[i]
  /\ d.done = (b - 1 = 0 \/ c.done)
  /\ d.pts_found = c.pts_found
  /\ IF b - 1 = 0
     THEN /\ h.hw_sync_state = "header" /\ d.outsize = a
          /\ d.cur_pts = IF c.pts_found THEN c.cur_pts
                         ELSE c.header.last_apts_from_header
     ELSE /\ h.hw_sync_state = "body" /\ d.outsize = c.outsize
          /\ d.cur_pts = c.cur_pts

\* A unit of a payload.
LEMMA TakeUnitOfBody ==
  ASSUME NEW c \in CallState, c.header.hw_sync_state = "body", NEW u \in Units,
         NEW a \in Nat, NEW b \in Nat, b # 0, b <= a, a <= MaxBody, b \in 0..MaxBody,
         c.header.hw_sync_frame_size = a, c.header.hw_sync_body_cnt = b,
         a - b <= Len(c.header.hw_sync_body_buf)
  PROVE  \E h \in HeaderState, d \in CallState : BodyTaken(c, u, a, b, h, d)
<1>1. PICK g \in HeaderState, buf \in Seq(Units) :
        g = c.header /\ buf = g.hw_sync_body_buf /\ g.hw_sync_state = "body"
  BY CallFields, HeaderFields
<1>2. PICK at \in Nat : at = a - b + 1 /\ at # 0 /\ at - 1 = a - b
  <2>1. a - b + 1 \in Nat /\ a - b + 1 # 0 /\ a - b + 1 - 1 = a - b
    OBVIOUS
  <2> QED
    BY <2>1
<1>3. PICK new : new = Copied(buf, at, u)
  OBVIOUS
<1>4. /\ new \in Seq(Units) /\ at <= Len(new) /\ Len(buf) <= Len(new)
      /\ \A i \in 1..at - 1 : new[i] = buf[i]
      /\ new[at] = u
      /\ \A i \in 1..Len(buf) : new[i] = u \/ new[i] = buf[i]
  <2>1. at - 1 <= Len(buf)
    BY <1>1, <1>2
  <2>2. at # 0
    BY <1>2
  <2>3. StoredAt(buf, at, u, new)
    BY <1>3, <2>1, <2>2, Stored
  <2> QED
    BY <2>3 DEF StoredAt
<1>5. PICK cnt \in Nat : cnt = b - 1 /\ cnt \in 0..MaxBody
  <2>1. b - 1 \in Nat /\ b - 1 \in 0..MaxBody
    BY PayloadFields
  <2> QED
    BY <2>1
<1>6. PICK h : h = [g EXCEPT !.hw_sync_body_buf = new, !.hw_sync_body_cnt = cnt]
  OBVIOUS
<1>7. StoreBody(g, u) = h
  <2>1. at = g.hw_sync_frame_size - g.hw_sync_body_cnt + 1 /\ g.hw_sync_body_cnt - 1 = cnt
    BY <1>1, <1>2, <1>5
  <2>2. StoreBody(g, u) =
          [g EXCEPT !.hw_sync_body_buf =
                      SubSeq(buf, 1, at - 1) \o <<u>> \o SubSeq(buf, at + 1, Len(buf)),
                    !.hw_sync_body_cnt = @ - 1]
    BY <1>1, <2>1 DEF StoreBody
  <2>3. StoreBody(g, u) = [g EXCEPT !.hw_sync_body_buf = new, !.hw_sync_body_cnt = @ - 1]
    BY <1>3, <2>2 DEF Copied
  <2> QED
    BY <1>1, <1>6, <2>1, <2>3 DEF HeaderState
<1>8. /\ h \in HeaderState /\ h.hw_sync_state = "body" /\ h.hw_sync_header_cnt = g.hw_sync_header_cnt
      /\ h.hw_sync_body_cnt = cnt /\ h.hw_sync_frame_size = a /\ h.hw_sync_body_buf = new
      /\ h.last_apts_from_header = g.last_apts_from_header
  BY <1>1, <1>4, <1>5, <1>6 DEF HeaderState
<1>9. PICK e : /\ e = [c EXCEPT !.cost = @ + 1]
               /\ e \in CallState /\ e.cost = c.cost + 1 /\ e.header = c.header
               /\ e.cur_pts = c.cur_pts /\ e.outsize = c.outsize /\ e.pts_found = c.pts_found
               /\ e.done = c.done
  BY CallFields
<1>10. TakeUnit(c, u) = TakeBody(e, u)
  BY <1>9 DEF TakeUnit
<1>11. CASE cnt # 0
  <2>1. PICK d : d = [e EXCEPT !.header = h]
    OBVIOUS
  <2>2. TakeUnit(c, u) = d
    BY <1>1, <1>7, <1>8, <1>9, <1>10, <1>11, <2>1 DEF TakeBody
  <2>3. /\ d \in CallState /\ d.header = h /\ d.cost = c.cost + 1 /\ d.cur_pts = c.cur_pts
        /\ d.outsize = c.outsize /\ d.pts_found = c.pts_found /\ d.done = c.done
    BY <1>8, <1>9, <2>1 DEF CallState
  <2>4. d.done = (b - 1 = 0 \/ c.done)
    <3>1. c.done \in BOOLEAN /\ b - 1 # 0
      BY <1>5, <1>11, CallFields
    <3> QED
      BY <2>3, <3>1
  <2>5. /\ d = TakeUnit(c, u) /\ h.hw_sync_state = "body" /\ h.hw_sync_body_cnt = b - 1
        /\ b - 1 # 0 /\ a - b + 1 = at /\ a - b = at - 1
        /\ h.hw_sync_header_cnt = c.header.hw_sync_header_cnt
        /\ h.last_apts_from_header = c.header.last_apts_from_header
        /\ c.header.hw_sync_body_buf = buf /\ h.hw_sync_body_buf = new
    BY <1>1, <1>2, <1>5, <1>8, <1>11, <2>2
  <2>6. /\ a - b + 1 <= Len(h.hw_sync_body_buf)
        /\ Len(c.header.hw_sync_body_buf) <= Len(h.hw_sync_body_buf)
        /\ \A i \in 1..a - b : h.hw_sync_body_buf[i] = c.header.hw_sync_body_buf[i]
        /\ h.hw_sync_body_buf[a - b + 1] = u
        /\ \A i \in 1..Len(c.header.hw_sync_body_buf) :
             h.hw_sync_body_buf[i] = u \/ h.hw_sync_body_buf[i] = c.header.hw_sync_body_buf[i]
    BY <1>4, <2>5
  <2> QED
    BY <1>8, <2>3, <2>4, <2>5, <2>6 DEF BodyTaken
<1>12. CASE cnt = 0
  <2>1. PICK t \in Times : t = IF c.pts_found THEN c.cur_pts ELSE c.header.last_apts_from_header
    <3>1. c.cur_pts \in Times /\ c.header.last_apts_from_header \in Times
      BY CallFields, HeaderFields
    <3> QED
      BY <3>1
  <2>2. PICK h2, d : /\ h2 = [h EXCEPT !.hw_sync_state = "header"]
                     /\ d = [e EXCEPT !.header = h2, !.outsize = a, !.cur_pts = t, !.done = TRUE]
    OBVIOUS
  <2>3. /\ h2 \in HeaderState /\ h2.hw_sync_state = "header"
        /\ h2.hw_sync_header_cnt = g.hw_sync_header_cnt
        /\ h2.hw_sync_body_cnt = cnt /\ h2.hw_sync_frame_size = a /\ h2.hw_sync_body_buf = new
        /\ h2.last_apts_from_header = g.last_apts_from_header
    BY <1>8, <2>2 DEF HeaderState
  <2>4. /\ d \in CallState /\ d.header = h2 /\ d.cost = c.cost + 1 /\ d.cur_pts = t
        /\ d.outsize = a /\ d.pts_found = c.pts_found /\ d.done = TRUE
    BY <1>9, <2>1, <2>2, <2>3 DEF CallState
  <2>5. TakeUnit(c, u) = d
    <3>1. t = IF e.pts_found THEN e.cur_pts ELSE h.last_apts_from_header
      BY <1>1, <1>8, <1>9, <2>1
    <3>2. TakeBody(e, u) = [e EXCEPT !.header = [h EXCEPT !.hw_sync_state = "header"],
                     !.outsize = h.hw_sync_frame_size,
                     !.cur_pts = IF e.pts_found THEN @ ELSE h.last_apts_from_header,
                     !.done = TRUE]
      BY <1>1, <1>7, <1>8, <1>9, <1>12 DEF TakeBody
    <3>3. d = [e EXCEPT !.header = [h EXCEPT !.hw_sync_state = "header"],
                     !.outsize = h.hw_sync_frame_size,
                     !.cur_pts = IF e.pts_found THEN @ ELSE h.last_apts_from_header,
                     !.done = TRUE]
      BY <1>8, <1>9, <2>2, <3>1 DEF CallState
    <3> QED
      BY <1>10, <3>2, <3>3
  <2>6. b - 1 = 0 /\ d.done = (b - 1 = 0 \/ c.done)
    BY <1>5, <1>12, <2>4
  <2> QED
    BY <1>1, <1>2, <1>4, <1>5, <2>1, <2>3, <2>4, <2>5, <2>6 DEF BodyTaken
<1> QED
  BY <1>11, <1>12

\* At most, of three numbers.
LEMMA AtMost ==
  ASSUME NEW x \in Nat, NEW y \in Nat, NEW z \in Nat, x <= y, y <= z
  PROVE  x <= z /\ x \in 0..z
OBVIOUS

\* The place of the unit that is read with b of a units to go.
LEMMA PlaceOf ==
  ASSUME NEW a \in Nat, NEW b \in Nat, NEW m \in Nat, b # 0, b <= a, a <= m
  PROVE  /\ a - b + 1 \in Nat /\ a - b + 1 \in 1..m
         /\ b # 1 => b - 1 # 0 /\ b - 1 \in 1..a /\ a - (b - 1) = a - b + 1
OBVIOUS

\* Where it is in the stream.
LEMMA PlaceIn ==
  ASSUME NEW a \in Nat, NEW b \in Nat, NEW p \in Nat, NEW s \in Nat, p + b = s + 2 + a
  PROVE  p + 1 = s + 2 + (a - b + 1)
OBVIOUS

\* A unit of a payload is stored behind those before it.
LEMMA BodyStored ==
  ASSUME NEW p \in Nat, NEW c \in CallState, c.outsize <= Len(c.header.hw_sync_body_buf),
         SeenTo(c.header.hw_sync_body_buf, c.outsize, p),
         NEW k \in 1..N, NEW s \in Nat, s = Begins(k),
         NEW a \in Nat, NEW b \in Nat, b # 0, b <= a, a <= MaxBody, p + b = s + 2 + a,
         Holds(c.header.hw_sync_body_buf, k, a - b),
         NEW u, u = [kind |-> "body", of |-> k, at |-> a - b + 1],
         NEW h \in HeaderState, NEW d \in CallState, BodyTaken(c, u, a, b, h, d)
  PROVE  /\ SeenTo(h.hw_sync_body_buf, c.outsize, p + 1)
         /\ Holds(h.hw_sync_body_buf, k, a - b + 1)
<1>1. PICK at \in Nat : at = a - b + 1 /\ p + 1 = s + 2 + at /\ at \in 1..MaxBody
  <2>0. PICK m \in Nat : m = MaxBody /\ a <= m
    BY PayloadFields
  <2>1. a - b + 1 \in Nat /\ a - b + 1 \in 1..m
    BY <2>0, PlaceOf
  <2>2. p + 1 = s + 2 + (a - b + 1)
    BY PlaceIn
  <2> QED
    BY <2>0, <2>1, <2>2
<1>2. PICK new \in Seq(Units), old \in Seq(Units), out \in Nat :
        /\ new = h.hw_sync_body_buf /\ old = c.header.hw_sync_body_buf /\ out = c.outsize
        /\ out <= Len(old) /\ SeenTo(old, out, p)
  BY CallFields, HeaderFields
<1>3. u = [kind |-> "body", of |-> k, at |-> at] /\ u.of = k /\ u.at = at /\ u \in BodyUnits
  BY <1>1 DEF BodyUnits
<1>4. SeenTo(new, out, p + 1)
  <2> SUFFICES ASSUME NEW j \in 1..out PROVE Seen(new[j], p + 1)
    BY DEF SeenTo
  <2>1. SeenTo(old, out, p + 1)
    BY <1>2, SeenStays, p + 1 \in Nat, p <= p + 1
  <2>2. Seen(u, p + 1)
    BY <1>1, <1>3 DEF Seen
  <2>3. j \in 1..Len(old)
    BY <1>2, LenProperties
  <2>4. new[j] = u \/ new[j] = old[j]
    BY <1>2, <2>3 DEF BodyTaken
  <2> QED
    BY <2>1, <2>2, <2>4 DEF SeenTo
<1>5. at <= Len(new)
  BY <1>1, <1>2 DEF BodyTaken
<1>6. ASSUME NEW j \in 1..at PROVE new[j] = [kind |-> "body", of |-> k, at |-> j]
  <2>1. CASE j = at
    BY <1>1, <1>2, <1>3, <2>1 DEF BodyTaken
  <2>2. CASE j # at
    <3>1. j \in 1..a - b
      BY <1>1, <2>2
    <3> QED
      BY <1>2, <3>1 DEF Holds, BodyTaken
  <2> QED
    BY <2>1, <2>2
<1> QED
  BY <1>1, <1>2, <1>4, <1>5, <1>6 DEF Holds

\* h is what c's header becomes when it stores a unit of payload k, of a units, that begins at
\* s; b units were left of it, and this is not the last one.
MiddleUnit(c, p, k, s, a, b, h) ==
  /\ s = Begins(k) /\ a = Payloads[k].size /\ a <= MaxBody /\ b # 0 /\ b <= a /\ p + b = s + 2 + a
  /\ c.header.hw_sync_header_cnt = 0 /\ c.header.last_apts_from_header = Payloads[k].pts
  /\ SeenTo(h.hw_sync_body_buf, c.outsize, p + 1) /\ Holds(h.hw_sync_body_buf, k, a - b + 1)
  /\ b # 1

\* A unit of a payload that is not its last.
LEMMA TakeBodyMiddle ==
  ASSUME NEW q \in Nat, NEW i \in Nat, NEW c, CallAt(c, q, i), ~c.done,
         NEW p \in Nat, p = q + c.cost, p < Total,
         NEW k \in 1..N, NEW s \in Nat, NEW a \in Nat, NEW b \in Nat,
         NEW u, NEW h \in HeaderState, NEW d \in CallState, BodyTaken(c, u, a, b, h, d),
         MiddleUnit(c, p, k, s, a, b, h)
  PROVE  CallAt(d, q, i + 1)
<1> USE DEF MiddleUnit
<1>1. PICK b1 \in Nat : b1 = b - 1 /\ b1 # 0 /\ b1 \in 1..a /\ p + 1 + b1 = s + 2 + a
                        /\ a - b1 = a - b + 1
  <2>1. b - 1 \in Nat /\ b - 1 # 0 /\ b - 1 \in 1..a /\ p + 1 + (b - 1) = s + 2 + a
        /\ a - (b - 1) = a - b + 1
    OBVIOUS
  <2> QED
    BY <2>1
<1>2. Ends(k) = p + 1 + b1
  BY <1>1, Apart
<1>3. \A l \in 1..N : Ends(l) # p + 1
  <2>1. Begins(k) < p + 1 /\ p + 1 < Ends(k) /\ p + 1 \in Nat
    BY <1>1, <1>2
  <2> QED
    BY <2>1, NoEnd
<1>4. /\ d.header = h /\ d.cost = c.cost + 1 /\ ~d.done /\ h.hw_sync_state = "body"
      /\ d.outsize = c.outsize /\ d.cur_pts = c.cur_pts /\ d.pts_found = c.pts_found
      /\ h.hw_sync_frame_size = a /\ h.hw_sync_body_cnt = b1 /\ h.hw_sync_header_cnt = 0
      /\ h.last_apts_from_header = c.header.last_apts_from_header
      /\ Len(c.header.hw_sync_body_buf) <= Len(h.hw_sync_body_buf)
  BY <1>1 DEF BodyTaken
<1>5. InBody(h, k, p + 1)
  <2>1. Holds(h.hw_sync_body_buf, k, h.hw_sync_frame_size - h.hw_sync_body_cnt)
    BY <1>1, <1>4
  <2> QED
    BY <1>1, <1>2, <1>4, <2>1 DEF InBody
<1>6. Parsed(h, p + 1)
  <2>1. p + 1 \in 0..Total
    BY Apart
  <2> QED
    BY <1>4, <1>5, <2>1 DEF Parsed
<1>7. d.outsize <= Len(h.hw_sync_body_buf)
  <2>1. PICK x \in Nat, y \in Nat, z \in Nat :
          /\ x = c.outsize /\ y = Len(c.header.hw_sync_body_buf) /\ z = Len(h.hw_sync_body_buf)
          /\ x <= y
    BY CallFields, HeaderFields DEF CallAt
  <2>2. d.outsize = x /\ Len(h.hw_sync_body_buf) = z /\ y <= z
    BY <1>4, <2>1
  <2>3. x <= z
    BY <2>1, <2>2, AtMost
  <2> QED
    BY <2>2, <2>3
<1>8. d.pts_found => d.cur_pts = d.header.last_apts_from_header
  BY <1>4 DEF CallAt
<1>9. SeenTo(h.hw_sync_body_buf, d.outsize, p + 1)
  BY <1>4
<1>10. GoesOn(c, d, p)
  BY <1>3, <1>4, <1>6, <1>7, <1>8, <1>9 DEF GoesOn
<1> QED
  BY <1>10, CallGoesOn

\* The last one.
LEMMA TakeBodyLast ==
  ASSUME NEW q \in Nat, NEW i \in Nat, NEW c, CallAt(c, q, i), ~c.done,
         NEW p \in Nat, p = q + c.cost, p < Total,
         NEW k \in 1..N, NEW s \in Nat, s = Begins(k), NEW a \in Nat,
         a = Payloads[k].size, a # 0, p + 1 = s + 2 + a,
         c.header.hw_sync_header_cnt = 0, c.header.last_apts_from_header = Payloads[k].pts,
         NEW u, NEW h \in HeaderState, NEW d \in CallState, BodyTaken(c, u, a, 1, h, d),
         Holds(h.hw_sync_body_buf, k, a)
  PROVE  CallAt(d, q, i + 1)
<1>1. c.cost = i
  BY DEF CallAt
<1>2. Ends(k) = p + 1
  BY Apart
<1>3. c.pts_found => c.cur_pts = c.header.last_apts_from_header
  BY DEF CallAt
<1>4. /\ d.header = h /\ d.cost = i + 1 /\ q + d.cost = p + 1 /\ d.done
      /\ h.hw_sync_state = "header" /\ h.hw_sync_header_cnt = 0
      /\ d.outsize = a /\ d.cur_pts = Payloads[k].pts
      /\ h.last_apts_from_header = Payloads[k].pts
  <2>1. 1 - 1 = 0
    OBVIOUS
  <2>2. /\ d.header = h /\ d.cost = i + 1 /\ d.done
        /\ h.hw_sync_state = "header" /\ h.hw_sync_header_cnt = 0
        /\ d.outsize = a /\ h.last_apts_from_header = Payloads[k].pts
    BY <1>1, <2>1 DEF BodyTaken
  <2>3. d.cur_pts = IF c.pts_found THEN c.cur_pts ELSE c.header.last_apts_from_header
    BY <2>1 DEF BodyTaken
  <2>4. d.cur_pts = Payloads[k].pts
    BY <1>3, <2>3
  <2>5. q + (i + 1) = p + 1
    BY <1>1
  <2> QED
    BY <2>2, <2>4, <2>5
<1>5. Parsed(h, p + 1)
  <2>1. \A l \in 1..N : p + 1 <= Begins(l) \/ Ends(l) <= p + 1
    BY <1>2, Apart
  <2>2. p + 1 \in 0..Total
    BY Apart
  <2> QED
    BY <1>4, <2>1, <2>2 DEF Parsed
<1>6. Complete(d, k) /\ d.outsize <= Len(h.hw_sync_body_buf)
  BY <1>4 DEF Complete, Holds
<1>7. ASSUME NEW l \in 1..N, EndsIn(l, q, p + 1)
      PROVE  l = k
  <2>1. Payloads[l].size # 0 /\ q < Ends(l) /\ Ends(l) <= p + 1 /\ Ends(l) \in Nat
    BY <1>7, Apart DEF EndsIn
  <2>2. ~EndsIn(l, q, p)
    BY DEF CallAt
  <2>3. Ends(l) = p + 1
    BY <2>1, <2>2 DEF EndsIn
  <2> QED
    BY <1>2, <2>1, <2>3, Apart
<1>8. d.pts_found => d.cur_pts = d.header.last_apts_from_header
  BY <1>4
<1>9. /\ d \in CallState /\ d.cost <= i + 1 /\ Parsed(d.header, q + d.cost)
      /\ SeenTo(d.header.hw_sync_body_buf, d.outsize, q + d.cost)
  <2>1. SeenTo(h.hw_sync_body_buf, a, p + 1)
    <3>1. a <= MaxBody /\ s + 2 + a <= p + 1 /\ p + 1 \in Nat
      BY Apart
    <3> QED
      BY <3>1, HoldsSeen
  <2> QED
    BY <1>4, <1>5, <2>1
<1>10. /\ Complete(d, k) /\ Ends(k) = q + d.cost
       /\ \A l \in 1..N : EndsIn(l, q, q + d.cost) => l = k
  BY <1>2, <1>4, <1>6, <1>7
<1>11. d.done /\ d.outsize <= Len(d.header.hw_sync_body_buf)
  BY <1>4, <1>6
<1> QED
  BY <1>8, <1>9, <1>10, <1>11 DEF CallAt

\* Either.
LEMMA TakeBodyUnit ==
  ASSUME NEW q \in Nat, NEW i \in Nat, NEW c, CallAt(c, q, i), ~c.done,
         NEW p \in Nat, p = q + c.cost, p < Total,
         c.header.hw_sync_state = "body",
         NEW k \in 1..N, InBody(c.header, k, p),
         NEW a \in Nat, NEW b \in Nat,
         a = c.header.hw_sync_frame_size, b = c.header.hw_sync_body_cnt,
         NEW u, u = [kind |-> "body", of |-> k, at |-> a - b + 1]
  PROVE  CallAt(TakeUnit(c, u), q, i + 1)
<1>1. /\ c \in CallState /\ Parsed(c.header, p) /\ c.header \in HeaderState
      /\ c.outsize <= Len(c.header.hw_sync_body_buf)
      /\ SeenTo(c.header.hw_sync_body_buf, c.outsize, p)
  BY CallFields DEF CallAt, Parsed
<1>2. PICK s \in Nat :
        /\ a = Payloads[k].size /\ a <= MaxBody /\ b # 0 /\ b <= a /\ b \in 0..MaxBody
        /\ s = Begins(k) /\ p + b = s + 2 + a
  <2>1. /\ b \in 1..a /\ a = Payloads[k].size /\ Ends(k) = p + b
    BY DEF InBody
  <2>2. PICK s \in Nat : s = Begins(k) /\ Ends(k) = s + 2 + a /\ a <= MaxBody
    BY <2>1, Apart
  <2>3. b # 0 /\ b <= a
    BY <2>1
  <2>4. b \in 0..MaxBody
    BY <2>2, <2>3, PayloadFields, AtMost
  <2> QED
    BY <2>1, <2>2, <2>3, <2>4
<1>3. /\ c.header.last_apts_from_header = Payloads[k].pts /\ c.header.hw_sync_header_cnt = 0
      /\ Holds(c.header.hw_sync_body_buf, k, a - b)
  BY DEF InBody
<1>4. u \in Units
  <2>1. a - b + 1 \in 1..MaxBody
    <3>1. MaxBody \in Nat /\ a <= MaxBody /\ b # 0 /\ b <= a
      BY <1>2, PayloadFields
    <3> QED
      BY <3>1
  <2> QED
    BY <2>1 DEF Units, N
<1>5. a - b <= Len(c.header.hw_sync_body_buf)
  BY <1>3 DEF Holds
<1>6. PICK h \in HeaderState, d \in CallState : BodyTaken(c, u, a, b, h, d)
  BY <1>1, <1>2, <1>4, <1>5, TakeUnitOfBody
<1>7. /\ SeenTo(h.hw_sync_body_buf, c.outsize, p + 1)
      /\ Holds(h.hw_sync_body_buf, k, a - b + 1)
  <2>1. a <= MaxBody /\ b # 0 /\ b <= a /\ p + b = s + 2 + a /\ s = Begins(k) /\ c \in CallState
    BY <1>1, <1>2
  <2>2. /\ SeenTo(c.header.hw_sync_body_buf, c.outsize, p)
        /\ c.outsize <= Len(c.header.hw_sync_body_buf)
        /\ Holds(c.header.hw_sync_body_buf, k, a - b)
    BY <1>1, <1>3
  <2> QED
    BY <1>6, <2>1, <2>2, BodyStored
<1>8. CallAt(d, q, i + 1)
  <2>1. CASE b # 1
    <3>1. MiddleUnit(c, p, k, s, a, b, h)
      BY <1>2, <1>3, <1>7, <2>1 DEF MiddleUnit
    <3> QED
      BY <1>6, <3>1, TakeBodyMiddle
  <2>2. CASE b = 1
    <3>1. a # 0 /\ p + 1 = s + 2 + a /\ a - b + 1 = a /\ s = Begins(k) /\ a = Payloads[k].size
      BY <1>2, <2>2
    <3>2. /\ BodyTaken(c, u, a, 1, h, d)
          /\ Holds(h.hw_sync_body_buf, k, a)
      BY <1>6, <1>7, <2>2, <3>1
    <3> QED
      BY <1>3, <3>1, <3>2, TakeBodyLast
  <2> QED
    BY <2>1, <2>2
<1> QED
  BY <1>6, <1>8 DEF BodyTaken

\* One turn of the loop, on the next unit of the stream.
LEMMA TakeUnitKeeps ==
  ASSUME NEW q \in Nat, NEW i \in Nat, NEW c, CallAt(c, q, i), ~c.done,
         NEW p \in Nat, p = q + i, p < Total, NEW u, u = Stream[p + 1]
  PROVE  CallAt(TakeUnit(c, u), q, i + 1)
<1>1. c.cost = i /\ p = q + c.cost /\ Parsed(c.header, p) /\ c.header \in HeaderState
  BY CallFields DEF CallAt
<1>2. CASE c.header.hw_sync_state = "header" /\ c.header.hw_sync_header_cnt = 0
  <2>1. CASE u.kind = "junk" /\ \A k \in 1..N : p < Begins(k) \/ Ends(k) <= p
    BY <1>1, <1>2, <2>1, TakeJunk
  <2>2. CASE u.kind = "version" /\ \E k \in 1..N : p = Begins(k)
    BY <1>1, <1>2, <2>2, TakeVersion
  <2> QED
    BY <1>1, <1>2, <2>1, <2>2, NextUnit
<1>3. CASE c.header.hw_sync_state = "header" /\ c.header.hw_sync_header_cnt = 1
  <2>1. PICK k \in 1..N : InfoUnitAt(u, k, p)
    BY <1>1, <1>3, NextUnit
  <2>2. /\ p = Begins(k) + 1
        /\ u = [kind |-> "info", size |-> Payloads[k].size, pts |-> Payloads[k].pts]
    BY <2>1 DEF InfoUnitAt
  <2> QED
    BY <1>1, <1>3, <2>2, TakeInfo
<1>4. CASE c.header.hw_sync_state = "body"
  <2>1. PICK k \in 1..N : BodyUnitAt(u, c.header, k, p)
    BY <1>1, <1>4, NextUnit
  <2>2. PICK a \in Nat, b \in Nat :
          a = c.header.hw_sync_frame_size /\ b = c.header.hw_sync_body_cnt
    <3>1. c.header.hw_sync_frame_size \in 0..MaxBody /\ c.header.hw_sync_body_cnt \in 0..MaxBody
      BY <1>1, HeaderFields
    <3>2. \A x \in 0..MaxBody : x \in Nat
      BY HeaderAssumption
    <3> QED
      BY <3>1, <3>2
  <2>3. InBody(c.header, k, p) /\ u = [kind |-> "body", of |-> k, at |-> a - b + 1]
    BY <2>1, <2>2 DEF BodyUnitAt
  <2> QED
    BY <1>1, <1>4, <2>2, <2>3, TakeBodyUnit
<1> QED
  BY <1>1, <1>2, <1>3, <1>4, HeaderFields

\* A turn that the end of a payload makes the last.
Turn(c, u) == IF c.done THEN c ELSE TakeUnit(c, u)

\* The calls of CallAt() after i turns.
CallsAt(q, i) == {c \in CallState : CallAt(c, q, i)}

\* A turn of the call goes from one to the next.
LEMMA TurnKeeps ==
  ASSUME NEW q \in Nat, NEW i \in Nat, NEW c \in CallsAt(q, i),
         NEW p \in Nat, p = q + i, p < Total, NEW u, u = Stream[p + 1]
  PROVE  Turn(c, u) \in CallsAt(q, i + 1)
<1>1. CallAt(c, q, i)
  BY DEF CallsAt
<1>2. CASE c.done
  <2>1. c.cost \in Nat /\ c.cost <= i
    BY <1>1, CallFields DEF CallAt
  <2>2. c.cost <= i + 1
    BY <2>1
  <2>3. CallAt(c, q, i + 1)
    BY <1>1, <1>2, <2>2 DEF CallAt
  <2> QED
    BY <1>2, <2>3 DEF Turn, CallsAt
<1>3. CASE ~c.done
  <2>1. CallAt(TakeUnit(c, u), q, i + 1)
    BY <1>1, <1>3, TakeUnitKeeps
  <2>2. TakeUnit(c, u) \in CallState
    BY <2>1 DEF CallAt
  <2> QED
    BY <1>3, <2>1, <2>2 DEF Turn, CallsAt
<1> QED
  BY <1>2, <1>3

\* How a call begins.
LEMMA CallBegins ==
  ASSUME NEW q \in Nat, NEW h, Parsed(h, q), NEW t \in Times, NEW out \in Nat,
         out <= Len(h.hw_sync_body_buf), SeenTo(h.hw_sync_body_buf, out, q)
  PROVE  Begin(h, t, out) \in CallsAt(q, 0)
<1>1. PICK c : c = Begin(h, t, out)
  OBVIOUS
<1>2. h \in HeaderState
  BY DEF Parsed
<1>3. /\ c \in CallState /\ c.header = h /\ c.cost = 0 /\ c.outsize = out
      /\ ~c.done /\ ~c.pts_found
  BY <1>1, <1>2 DEF Begin, CallState
<1>4. q + c.cost = q
  BY <1>3
<1>5. \A l \in 1..N : ~EndsIn(l, q, q)
  BY Apart DEF EndsIn
<1> QED
  BY <1>1, <1>3, <1>4, <1>5 DEF CallAt, CallsAt

\* What every turn keeps holds of the call's end.
LEMMA FrameTurns ==
  ASSUME NEW n \in Nat, NEW in, Len(in) = n, NEW h, NEW pts, NEW out,
         NEW S, Begin(h, pts, out) \in S[0],
         \A i \in 1..n : \A x \in S[i - 1] : Turn(x, in[i]) \in S[i]
  PROVE  FindFrame(h, in, pts, out) \in S[n]
<1> DEFINE g == [i \in 1..n |-> [x \in S[i - 1] |-> Turn(x, in[i])]]
           def(s) == s = [i \in 0..Len(in) |->
                            IF i = 0 THEN Begin(h, pts, out)
                            ELSE IF s[i - 1].done THEN s[i - 1] ELSE TakeUnit(s[i - 1], in[i])]
           s == CHOOSE s : def(s)
<1>0. PICK b : b = Begin(h, pts, out)
  OBVIOUS
<1>1. b \in S[0]
  BY <1>0
<1>3. ASSUME NEW i \in 1..n, NEW x \in S[i - 1]
      PROVE  g[i][x] = Turn(x, in[i]) /\ g[i][x] \in S[i]
  <2>1. g[i][x] = Turn(x, in[i])
    OBVIOUS
  <2> QED
    BY <2>1
<1>4. PICK f : Recurs(n, S, b, g, f)
  <2>1. PICK g1 : g1 = g
    OBVIOUS
  <2> HIDE DEF g, def, s
  <2>2. Steps(n, S, b, g1)
    BY <1>1, <1>3, <2>1 DEF Steps
  <2>3. \E f : Recurs(n, S, b, g1, f)
    BY <2>2, Recursion
  <2> QED
    BY <2>1, <2>3
<1>5. \A i \in 0..n : f[i] \in S[i]
  BY <1>4 DEF Recurs
<1>6. \A i \in 1..n : f[i] = Turn(f[i - 1], in[i])
  <2> SUFFICES ASSUME NEW i \in 1..n PROVE f[i] = Turn(f[i - 1], in[i])
    OBVIOUS
  <2>1. i - 1 \in 0..n /\ f[i - 1] \in S[i - 1]
    BY <1>5
  <2>2. f[i] = g[i][f[i - 1]]
    BY <1>4 DEF Recurs
  <2> QED
    <3> HIDE DEF g
    <3> QED
      BY <1>3, <2>1, <2>2
<1>7. f[0] = b
  BY <1>4 DEF Recurs
<1>8. \E s1 : def(s1)
  <2> DEFINE s1 == [i \in 0..Len(in) |-> f[i]]
  <2>1. ASSUME NEW i \in 0..Len(in)
        PROVE  s1[i] = IF i = 0 THEN Begin(h, pts, out)
                       ELSE IF s1[i - 1].done THEN s1[i - 1] ELSE TakeUnit(s1[i - 1], in[i])
    <3>1. CASE i = 0
      BY <1>0, <1>7, <3>1
    <3>2. CASE i # 0
      <4>1. i \in 1..n /\ i - 1 \in 0..Len(in)
        BY <3>2
      <4>2. s1[i] = f[i] /\ s1[i - 1] = f[i - 1]
        BY <4>1
      <4> QED
        BY <1>6, <3>2, <4>1, <4>2 DEF Turn
    <3> QED
      BY <3>1, <3>2
  <2>2. s1 = [i \in 0..Len(in) |-> s1[i]]
    OBVIOUS
  <2>3. def(s1)
    <3> HIDE DEF s1
    <3> QED
      BY <2>1, <2>2
  <2> QED
    BY <2>3
<1>9. def(s)
  <2> HIDE DEF def
  <2> QED
    BY <1>8, Zenon
<1>10. FindFrame(h, in, pts, out) = s[Len(in)]
  BY DEF FindFrame
<1>11. PICK t : t = s
  OBVIOUS
<1>12. t[0] = b /\ \A i \in 1..n : t[i] = Turn(t[i - 1], in[i])
  <2>1. t = [i \in 0..n |-> IF i = 0 THEN b
                            ELSE IF t[i - 1].done THEN t[i - 1] ELSE TakeUnit(t[i - 1], in[i])]
    BY <1>0, <1>9, <1>11
  <2> HIDE DEF s, def
  <2>2. t[0] = b
    BY <2>1
  <2>3. ASSUME NEW i \in 1..n PROVE t[i] = Turn(t[i - 1], in[i])
    <3>1. i \in 0..n /\ i # 0
      OBVIOUS
    <3>2. t[i] = IF t[i - 1].done THEN t[i - 1] ELSE TakeUnit(t[i - 1], in[i])
      BY <2>1, <3>1
    <3> QED
      BY <3>2 DEF Turn
  <2> QED
    BY <2>2, <2>3
<1>13. \A i \in 0..n : t[i] \in S[i]
  <2> DEFINE T == {i \in 0..n : t[i] \in S[i]}
  <2>1. 0 \in T
    <3>1. t[0] \in S[0] /\ 0 \in 0..n
      BY <1>1, <1>12
    <3> QED
      BY <3>1
  <2>2. ASSUME NEW i \in 1..n, i - 1 \in T PROVE i \in T
    <3>1. t[i - 1] \in S[i - 1] /\ t[i] = Turn(t[i - 1], in[i]) /\ i \in 0..n
      BY <1>12, <2>2
    <3> HIDE DEF g
    <3>2. t[i] \in S[i]
      BY <1>3, <3>1
    <3> QED
      BY <3>1, <3>2
  <2> HIDE DEF T
  <2>3. \A i \in 0..n : i \in T
    BY <2>1, <2>2, UpTo
  <2> USE DEF T
  <2> QED
    BY <2>3
<1> QED
  BY <1>10, <1>11, <1>13

\* A call of audio_header_find_frame() on the next n units of the stream.
LEMMA FrameFound ==
  ASSUME NEW q \in Nat, NEW n \in Nat, NEW in, Len(in) = n, q + n <= Total,
         \A i \in 1..n : in[i] = Stream[q + i],
         NEW h, Parsed(h, q), NEW pts \in Times, NEW out \in Nat,
         out <= Len(h.hw_sync_body_buf), SeenTo(h.hw_sync_body_buf, out, q)
  PROVE  CallAt(FindFrame(h, in, pts, out), q, n)
<1> DEFINE S == [i \in 0..n |-> CallsAt(q, i)]
<1>1. Begin(h, pts, out) \in S[0]
  <2>1. Begin(h, pts, out) \in CallsAt(q, 0)
    BY CallBegins
  <2> QED
    BY <2>1
<1>2. ASSUME NEW i \in 1..n, NEW x \in S[i - 1]
      PROVE  Turn(x, in[i]) \in S[i]
  <2>1. PICK j \in Nat, p \in Nat : j = i - 1 /\ p = q + j /\ p + 1 = q + i /\ j + 1 = i
    <3>1. i - 1 \in Nat /\ q + (i - 1) \in Nat /\ q + (i - 1) + 1 = q + i /\ i - 1 + 1 = i
      OBVIOUS
    <3> QED
      BY <3>1
  <2>2. p < Total
    BY <2>1, Apart
  <2>3. PICK u : u = in[i] /\ u = Stream[p + 1]
    BY <2>1
  <2>4. x \in CallsAt(q, j)
    <3>1. i - 1 \in 0..n
      OBVIOUS
    <3> QED
      BY <1>2, <2>1, <3>1
  <2>5. Turn(x, u) \in CallsAt(q, j + 1)
    BY <2>1, <2>2, <2>3, <2>4, TurnKeeps
  <2> QED
    BY <2>1, <2>3, <2>5
<1>3. FindFrame(h, in, pts, out) \in S[n]
  <2> HIDE DEF S
  <2> QED
    BY <1>1, <1>2, FrameTurns
<1>4. FindFrame(h, in, pts, out) \in CallsAt(q, n)
  BY <1>3
<1> QED
  BY <1>4 DEF CallsAt

\* A call after i turns on any units, that began with the size "out" of a payload.
TypedCall(c, out, i) ==
  /\ c \in CallState /\ Sound(c.header) /\ c.cost <= i
  /\ c.outsize <= Len(c.header.hw_sync_body_buf)
  /\ out # 0 => c.outsize # 0

TypedCalls(out, i) == {c \in CallState : TypedCall(c, out, i)}

\* What completes a header says something.
LEMMA InfoOfUnit ==
  ASSUME NEW u \in Units
  PROVE  SizeOf(InfoOf(u)) \in 0..MaxBody /\ InfoOf(u).pts \in Nat \cup {NA, EOS}
<1>1. InfoOf(u).size \in Nat /\ InfoOf(u).pts \in Nat \cup {NA, EOS} /\ MaxBody \in Nat
  <2>1. CASE u.kind = "info"
    <3>1. u.size \in 0..MaxBody /\ u.pts \in Nat \cup {NA, EOS}
      BY <2>1 DEF Units
    <3> QED
      BY <2>1, <3>1, PayloadFields DEF InfoOf
  <2>2. CASE u.kind # "info"
    BY <2>2, HeaderAssumption DEF InfoOf
  <2> QED
    BY <2>1, <2>2
<1>2. PICK x \in Nat : x = InfoOf(u).size
  BY <1>1
<1>3. (IF x > MaxBody THEN MaxBody ELSE x) \in 0..MaxBody
  BY <1>1
<1> QED
  BY <1>1, <1>2, <1>3 DEF SizeOf

\* A turn on any unit leaves a parser's state behind.
LEMMA TurnTyped ==
  ASSUME NEW out, NEW i \in Nat, NEW c \in TypedCalls(out, i), NEW u \in Units
  PROVE  Turn(c, u) \in TypedCalls(out, i + 1)
<1>0. /\ c \in CallState /\ Sound(c.header) /\ c.header \in HeaderState /\ c.cost \in Nat
      /\ c.cost <= i /\ c.outsize <= Len(c.header.hw_sync_body_buf) /\ (out # 0 => c.outsize # 0)
  BY CallFields DEF TypedCalls, TypedCall
<1>1. c.cost <= i + 1 /\ c.cost + 1 <= i + 1
  BY <1>0
<1>2. CASE c.done
  <2>1. TypedCall(c, out, i + 1)
    BY <1>0, <1>1 DEF TypedCall
  <2> QED
    BY <1>0, <1>2, <2>1 DEF Turn, TypedCalls
<1>3. ASSUME ~c.done, c.header.hw_sync_state = "body"
      PROVE  Turn(c, u) \in TypedCalls(out, i + 1)
  <2>1. PICK a \in Nat, b \in Nat :
          /\ a = c.header.hw_sync_frame_size /\ b = c.header.hw_sync_body_cnt
          /\ b # 0 /\ b <= a /\ a <= MaxBody /\ b \in 0..MaxBody
          /\ a - b <= Len(c.header.hw_sync_body_buf)
    <3>1. /\ c.header.hw_sync_frame_size \in 0..MaxBody /\ c.header.hw_sync_body_cnt \in 0..MaxBody
          /\ MaxBody \in Nat
      BY <1>0, HeaderFields, PayloadFields
    <3>2. /\ c.header.hw_sync_body_cnt \in 1..c.header.hw_sync_frame_size
          /\ c.header.hw_sync_frame_size - c.header.hw_sync_body_cnt
               <= Len(c.header.hw_sync_body_buf)
      BY <1>0, <1>3 DEF Sound
    <3> QED
      BY <3>1, <3>2
  <2>2. PICK h \in HeaderState, d \in CallState : BodyTaken(c, u, a, b, h, d)
    BY <1>0, <1>3, <2>1, TakeUnitOfBody
  <2>3. PICK m \in Nat, n \in Nat, o \in Nat :
          /\ m = Len(c.header.hw_sync_body_buf) /\ n = Len(h.hw_sync_body_buf) /\ o = c.outsize
          /\ o <= m
    BY <1>0, CallFields, HeaderFields
  <2>4. /\ d = TakeUnit(c, u) /\ d.header = h /\ d.cost = c.cost + 1
        /\ h.hw_sync_frame_size = a /\ h.hw_sync_body_cnt = b - 1
        /\ a - b + 1 <= n /\ m <= n
        /\ IF b - 1 = 0 THEN h.hw_sync_state = "header" /\ d.outsize = a
           ELSE h.hw_sync_state = "body" /\ d.outsize = o
    BY <2>2, <2>3 DEF BodyTaken
  <2>5. Sound(h) /\ d.outsize <= n /\ (out # 0 => d.outsize # 0)
    <3>1. CASE b = 1
      <4>1. b - 1 = 0 /\ a <= n /\ a # 0
        BY <2>1, <2>4, <3>1
      <4> QED
        BY <2>4, <4>1 DEF Sound
    <3>2. CASE b # 1
      <4>1. b - 1 # 0 /\ b - 1 \in 1..a /\ a - (b - 1) = a - b + 1
        BY <2>1, <3>2, PlaceOf
      <4>2. d.outsize = o /\ o <= n
        BY <2>3, <2>4, <4>1, AtMost
      <4> QED
        BY <1>0, <2>3, <2>4, <4>1, <4>2 DEF Sound
    <3> QED
      BY <3>1, <3>2
  <2>6. TypedCall(d, out, i + 1)
    BY <1>1, <2>3, <2>4, <2>5 DEF TypedCall
  <2> QED
    BY <1>3, <2>4, <2>6 DEF Turn, TypedCalls
<1>4. ASSUME NEW h \in HeaderState, NEW d \in CallState, d = Turn(c, u), Advanced(c, h, d), Sound(h)
      PROVE  Turn(c, u) \in TypedCalls(out, i + 1)
  <2>1. TypedCall(d, out, i + 1)
    BY <1>0, <1>1, <1>4 DEF Advanced, TypedCall
  <2> QED
    BY <1>4, <2>1 DEF TypedCalls
<1>5. ASSUME ~c.done, c.header.hw_sync_state = "header", c.header.hw_sync_header_cnt = 1
      PROVE  Turn(c, u) \in TypedCalls(out, i + 1)
  <2>1. PICK s \in 0..MaxBody, t \in Nat \cup {NA, EOS} :
          s = SizeOf(InfoOf(u)) /\ t = InfoOf(u).pts
    BY InfoOfUnit
  <2>2. PICK h \in HeaderState, d \in CallState : d = TakeUnit(c, u) /\ InfoRead(c, s, t, h, d)
    BY <1>0, <1>5, <2>1, InfoTaken
  <2>3. /\ Advanced(c, h, d) /\ h.hw_sync_body_cnt = s /\ h.hw_sync_frame_size = s
        /\ h.hw_sync_state = StateFor(s)
    BY <2>2 DEF InfoRead
  <2>4. Sound(h)
    <3>1. s - s = 0 /\ s - s <= Len(h.hw_sync_body_buf) /\ (s # 0 => s \in 1..s)
      BY HeaderFields, PayloadFields
    <3> QED
      BY <2>3, <3>1 DEF Sound, StateFor
  <2> QED
    BY <1>4, <1>5, <2>2, <2>3, <2>4 DEF Turn
<1>6. ASSUME ~c.done, c.header.hw_sync_state = "header", c.header.hw_sync_header_cnt # 1
      PROVE  Turn(c, u) \in TypedCalls(out, i + 1)
  <2>1. CASE u.kind = "version"
    <3>1. PICK h \in HeaderState, d \in CallState : d = TakeUnit(c, u) /\ VersionRead(c, h, d)
      BY <1>0, <1>6, <2>1, VersionTaken
    <3>2. Advanced(c, h, d) /\ Sound(h)
      BY <3>1 DEF VersionRead, Sound
    <3> QED
      BY <1>4, <1>6, <3>1, <3>2 DEF Turn
  <2>2. CASE u.kind # "version"
    <3>1. PICK d : d = [c EXCEPT !.cost = @ + 1]
      OBVIOUS
    <3>2. d = Turn(c, u)
      BY <1>6, <2>2, <3>1 DEF Turn, TakeUnit
    <3>3. d \in CallState /\ Advanced(c, c.header, d)
      BY <1>0, <3>1, CallFields DEF Advanced
    <3> QED
      BY <1>0, <1>4, <3>2, <3>3
  <2> QED
    BY <2>1, <2>2
<1> QED
  BY <1>0, <1>2, <1>3, <1>5, <1>6, HeaderFields

\* So does a call of audio_header_find_frame().
LEMMA FrameTyped ==
  ASSUME NEW n \in Nat, NEW in, Len(in) = n, \A i \in 1..n : in[i] \in Units,
         NEW h, Sound(h), NEW pts \in Times, NEW out \in Nat, out <= Len(h.hw_sync_body_buf)
  PROVE  TypedCall(FindFrame(h, in, pts, out), out, n)
<1> DEFINE S == [i \in 0..n |-> TypedCalls(out, i)]
<1>1. Begin(h, pts, out) \in S[0]
  <2>1. PICK c : c = Begin(h, pts, out)
    OBVIOUS
  <2>2. c \in CallState /\ c.header = h /\ c.cost = 0 /\ c.outsize = out
    BY <2>1 DEF Begin, CallState, Sound
  <2>3. TypedCall(c, out, 0)
    BY <2>2 DEF TypedCall
  <2> QED
    BY <2>1, <2>2, <2>3 DEF TypedCalls
<1>2. ASSUME NEW i \in 1..n, NEW x \in S[i - 1]
      PROVE  Turn(x, in[i]) \in S[i]
  <2>1. PICK j \in Nat : j = i - 1 /\ j + 1 = i /\ j \in 0..n
    <3>1. i - 1 \in Nat /\ i - 1 + 1 = i /\ i - 1 \in 0..n
      OBVIOUS
    <3> QED
      BY <3>1
  <2>2. x \in TypedCalls(out, j)
    BY <1>2, <2>1
  <2>3. PICK u \in Units : u = in[i]
    OBVIOUS
  <2>4. Turn(x, u) \in TypedCalls(out, j + 1)
    BY <2>2, TurnTyped
  <2> QED
    BY <2>1, <2>3, <2>4
<1>3. FindFrame(h, in, pts, out) \in S[n]
  <2> HIDE DEF S
  <2> QED
    BY <1>1, <1>2, FrameTurns
<1>4. FindFrame(h, in, pts, out) \in TypedCalls(out, n)
  BY <1>3
<1> QED
  BY <1>4 DEF TypedCalls

----------------------------------------------------------------------------
(* What MS12 was fed.                                                       *)

\* Each begins where the one before it ends.
LEMMA StartsAre ==
  ASSUME NEW in, Len(in) \in Nat, \A i \in 1..Len(in) : Len(in[i].body) \in Nat
  PROVE  /\ \A i \in 1..Len(in) + 1 : Starts(in, i) \in Nat
         /\ Starts(in, 1) = 0
         /\ \A i \in 1..Len(in) : Starts(in, i + 1) = Starts(in, i) + Len(in[i].body)
<1> DEFINE S == [i \in 0..Len(in) |-> Nat]
           g == [i \in 1..Len(in) |-> [x \in Nat |-> x + Len(in[i].body)]]
           def(s) == s = [n \in 1..Len(in) + 1 |->
                            IF n = 1 THEN 0 ELSE s[n - 1] + Len(in[n - 1].body)]
           s == CHOOSE s : def(s)
<1>1. \E f : /\ f[0] = 0
             /\ \A i \in 1..Len(in) : f[i] = g[i][f[i - 1]]
             /\ \A i \in 0..Len(in) : f[i] \in S[i]
  <2>1. 0 \in S[0] /\ \A i \in 1..Len(in) : \A x \in S[i - 1] : g[i][x] \in S[i]
    OBVIOUS
  <2>2. PICK n, S1, g1 : n = Len(in) /\ S1 = S /\ g1 = g
    OBVIOUS
  <2> HIDE DEF S, g, def, s
  <2>3. n \in Nat /\ 0 \in S1[0] /\ \A i \in 1..n : \A x \in S1[i - 1] : g1[i][x] \in S1[i]
    BY <2>1, <2>2
  <2>4. PICK f : Recurs(n, S1, 0, g1, f)
    BY <2>3, Recursion DEF Steps
  <2> QED
    BY <2>2, <2>4 DEF Recurs
<1>2. PICK f : /\ f[0] = 0
               /\ \A i \in 1..Len(in) : f[i] = f[i - 1] + Len(in[i].body)
               /\ \A i \in 0..Len(in) : f[i] \in Nat
  <2>1. PICK f : /\ f[0] = 0
                 /\ \A i \in 1..Len(in) : f[i] = g[i][f[i - 1]]
                 /\ \A i \in 0..Len(in) : f[i] \in S[i]
    BY <1>1
  <2>2. \A i \in 0..Len(in) : f[i] \in Nat
    BY <2>1
  <2>3. ASSUME NEW i \in 1..Len(in) PROVE f[i] = f[i - 1] + Len(in[i].body)
    <3>1. f[i - 1] \in Nat /\ g[i] = [x \in Nat |-> x + Len(in[i].body)]
      BY <2>2
    <3>2. f[i] = g[i][f[i - 1]]
      BY <2>1
    <3> QED
      BY <3>1, <3>2
  <2> QED
    BY <2>1, <2>2, <2>3
<1>3. \E h : def(h)
  <2> DEFINE h == [i \in 1..Len(in) + 1 |-> f[i - 1]]
  <2>1. ASSUME NEW n \in 1..Len(in) + 1
        PROVE  h[n] = IF n = 1 THEN 0 ELSE h[n - 1] + Len(in[n - 1].body)
    <3>1. CASE n = 1
      BY <1>2, <3>1
    <3>2. CASE n # 1
      <4>1. n - 1 \in 1..Len(in) /\ n - 1 \in 1..Len(in) + 1 /\ n - 1 - 1 = n - 2
        BY <3>2
      <4>2. h[n] = f[n - 1] /\ h[n - 1] = f[n - 2]
        BY <4>1
      <4>3. f[n - 1] = f[n - 2] + Len(in[n - 1].body)
        BY <1>2, <4>1
      <4> QED
        BY <3>2, <4>2, <4>3
    <3> QED
      BY <3>1, <3>2
  <2>2. h = [n \in 1..Len(in) + 1 |-> h[n]]
    OBVIOUS
  <2>3. def(h)
    <3> HIDE DEF h
    <3> QED
      BY <2>1, <2>2
  <2> QED
    BY <2>3
<1>4. def(s)
  <2> HIDE DEF def
  <2> QED
    BY <1>3, Zenon
<1>5. \A i : Starts(in, i) = s[i]
  BY DEF Starts
<1> QED
  <2>1. PICK t : t = s
    OBVIOUS
  <2>2. /\ t[1] = 0
        /\ \A i \in 1..Len(in) : t[i + 1] = t[i] + Len(in[i].body)
    <3>1. t = [n \in 1..Len(in) + 1 |-> IF n = 1 THEN 0 ELSE t[n - 1] + Len(in[n - 1].body)]
      <4>1. def(t)
        <5> HIDE DEF def, s
        <5> QED
          BY <1>4, <2>1
      <4> HIDE DEF s
      <4> QED
        BY <4>1
    <3>2. \A i \in 1..Len(in) : i + 1 \in 1..Len(in) + 1 /\ i + 1 # 1 /\ i + 1 - 1 = i
      OBVIOUS
    <3>3. 1 \in 1..Len(in) + 1
      OBVIOUS
    <3> HIDE DEF s, def
    <3> QED
      BY <3>1, <3>2, <3>3
  <2>3. \A i \in 0..Len(in) : t[i + 1] \in Nat
    <3> DEFINE T == {i \in 0..Len(in) : t[i + 1] \in Nat}
    <3>1. 0 \in T
      BY <2>2
    <3>2. ASSUME NEW i \in 1..Len(in), i - 1 \in T PROVE i \in T
      <4>1. t[i + 1] = t[i] + Len(in[i].body) /\ t[i] \in Nat
        BY <2>2, <3>2
      <4> QED
        BY <4>1
    <3>3. PICK n \in Nat : n = Len(in)
      OBVIOUS
    <3> HIDE DEF T
    <3>4. \A i \in 0..n : i \in T
      BY <3>1, <3>2, <3>3, UpTo
    <3> USE DEF T
    <3> QED
      BY <3>3, <3>4
  <2>4. \A i \in 1..Len(in) + 1 : t[i] \in Nat
    <3>1. \A i \in 1..Len(in) + 1 : i - 1 \in 0..Len(in) /\ i - 1 + 1 = i
      OBVIOUS
    <3> QED
      BY <2>3, <3>1
  <2>5. \A i : Starts(in, i) = t[i]
    BY <1>5, <2>1
  <2> QED
    BY <2>2, <2>4, <2>5

\* The fields of what is fed.
LEMMA PieceFields ==
  ASSUME NEW x \in Pieces
  PROVE  x.body \in Seq(Units) /\ Len(x.body) \in Nat /\ x.pts \in Times
<1>1. x.body \in Seq(Units) /\ x.pts \in Times
  BY DEF Pieces, Times
<1> QED
  BY <1>1, LenProperties

\* Where the payloads in MS12 begin, each where the one before ends.
LEMMA StartsLemma ==
  ASSUME NEW in \in Seq(Pieces)
  PROVE  /\ \A i \in 1..Len(in) + 1 : Starts(in, i) \in Nat
         /\ Starts(in, 1) = 0 /\ Len(in) \in Nat /\ EndOf(in) \in Nat
         /\ \A i \in 1..Len(in) : in[i] \in Pieces
         /\ \A i \in 1..Len(in) : Starts(in, i + 1) = Starts(in, i) + Len(in[i].body)
<1>1. Len(in) \in Nat /\ \A i \in 1..Len(in) : in[i] \in Pieces
  BY LenProperties
<1>2. \A i \in 1..Len(in) : Len(in[i].body) \in Nat
  BY <1>1, PieceFields
<1>3. Len(in) + 1 \in 1..Len(in) + 1
  BY <1>1
<1> QED
  BY <1>1, <1>2, <1>3, StartsAre DEF EndOf

\* One payload more is fed.
Extended(in, x, new) ==
  /\ new \in Seq(Pieces) /\ Len(new) = Len(in) + 1 /\ new[Len(in) + 1] = x
  /\ \A i \in 1..Len(in) : new[i] = in[i]
  /\ \A i \in 1..Len(in) + 1 : Starts(new, i) = Starts(in, i)
  /\ EndOf(new) = EndOf(in) + Len(x.body)

\* One more payload leaves those before where they are.
LEMMA StartsAppend ==
  ASSUME NEW in \in Seq(Pieces), NEW x \in Pieces, NEW new, new = Append(in, x)
  PROVE  Extended(in, x, new)
<1>1. PICK n \in Nat : n = Len(in)
  BY LenProperties
<1>2. /\ new \in Seq(Pieces) /\ Len(new) = n + 1 /\ new[n + 1] = x
      /\ \A i \in 1..n : new[i] = in[i]
  BY <1>1, AppendProperties
<1>3. /\ \A i \in 1..n + 1 : Starts(in, i) \in Nat
      /\ Starts(in, 1) = 0 /\ EndOf(in) = Starts(in, n + 1)
      /\ \A i \in 1..n : Starts(in, i + 1) = Starts(in, i) + Len(in[i].body)
  BY <1>1, StartsLemma DEF EndOf
<1>4. /\ Starts(new, 1) = 0 /\ EndOf(new) = Starts(new, n + 1 + 1)
      /\ \A i \in 1..n + 1 : Starts(new, i + 1) = Starts(new, i) + Len(new[i].body)
  BY <1>2, StartsLemma DEF EndOf
<1>5. \A i \in 0..n : Starts(new, i + 1) = Starts(in, i + 1)
  <2> DEFINE T == {i \in 0..n : Starts(new, i + 1) = Starts(in, i + 1)}
  <2>1. 0 \in T
    BY <1>3, <1>4
  <2>2. ASSUME NEW i \in 1..n, i - 1 \in T PROVE i \in T
    <3>1. i - 1 + 1 = i /\ i \in 1..n + 1
      OBVIOUS
    <3>2. Starts(new, i) = Starts(in, i) /\ new[i] = in[i]
      BY <1>2, <2>2, <3>1
    <3>3. Starts(new, i + 1) = Starts(in, i + 1)
      BY <1>3, <1>4, <3>1, <3>2
    <3> QED
      BY <3>3
  <2> HIDE DEF T
  <2>3. \A i \in 0..n : i \in T
    BY <2>1, <2>2, UpTo
  <2> USE DEF T
  <2> QED
    BY <2>3
<1>6. \A i \in 1..n + 1 : Starts(new, i) = Starts(in, i)
  <2>1. \A i \in 1..n + 1 : i - 1 \in 0..n /\ i - 1 + 1 = i
    OBVIOUS
  <2> QED
    BY <1>5, <2>1
<1>7. EndOf(new) = EndOf(in) + Len(x.body)
  <2>1. n + 1 \in 1..n + 1
    OBVIOUS
  <2> QED
    BY <1>2, <1>3, <1>4, <1>6, <2>1
<1> QED
  BY <1>1, <1>2, <1>6, <1>7 DEF Extended

\* Nothing is fed.
LEMMA StartsEmpty == <<>> \in Seq(Pieces) /\ Len(<<>>) = 0 /\ EndOf(<<>>) = 0
<1>1. <<>> \in Seq(Pieces) /\ Len(<<>>) = 0
  OBVIOUS
<1>2. 0 + 1 = 1
  OBVIOUS
<1> QED
  BY <1>1, <1>2, StartsLemma DEF EndOf

----------------------------------------------------------------------------
(* The table.                                                               *)

\* The fields of the table's records.
LEMMA TableFields ==
  ASSUME NEW tab \in Table
  PROVE  /\ AptsNum \in Nat /\ DOMAIN tab = 1..AptsNum
         /\ \A i \in 1..AptsNum : /\ tab[i] \in Records /\ tab[i].valid \in BOOLEAN
                                  /\ tab[i].offset \in Nat /\ tab[i].pts \in Nat
BY HwSyncAssumption DEF Table, Records

\* The first of some slots is one of them.
LEMMA FirstOfLemma ==
  ASSUME NEW S, S \subseteq Nat, S # {}
  PROVE  FirstOf(S) \in S
<1>1. PICK i \in S : \A j \in S : <<j, i>> \notin OpToRel(<, Nat)
  BY NatLessThanWellFounded, WFMin, Zenon
<1>2. \A j \in S : ~(j < i)
  BY <1>1, Zenon DEF OpToRel
<1>3. \A j \in S : i <= j
  BY <1>2
<1> QED
  BY <1>3 DEF FirstOf

\* Of some records that lie below an offset, one is the nearest.
LEMMA NearestExists ==
  ASSUME NEW tab \in Table, NEW o \in Nat, NEW S, S \subseteq 1..AptsNum, S # {},
         \A i \in S : tab[i].offset <= o
  PROVE  \E i \in S : \A j \in S : tab[j].offset <= tab[i].offset
<1> DEFINE D == {o - tab[i].offset : i \in S}
<1>1. \A i \in S : tab[i].offset \in Nat /\ o - tab[i].offset \in Nat
  BY TableFields
<1>2. D \subseteq Nat /\ D # {}
  BY <1>1
<1>3. FirstOf(D) \in D /\ \A d \in D : FirstOf(D) <= d
  <2> HIDE DEF D
  <2>1. PICK i \in D : \A j \in D : <<j, i>> \notin OpToRel(<, Nat)
    BY <1>2, NatLessThanWellFounded, WFMin, Zenon
  <2>2. \A j \in D : ~(j < i)
    BY <1>2, <2>1, Zenon DEF OpToRel
  <2>3. \A j \in D : i <= j
    BY <1>2, <2>2
  <2> QED
    BY <2>3 DEF FirstOf
<1>4. PICK m : m \in D /\ \A d \in D : m <= d
  BY <1>3
<1>5. PICK i \in S : m = o - tab[i].offset
  BY <1>4
<1>6. ASSUME NEW j \in S PROVE tab[j].offset <= tab[i].offset
  <2>1. m <= o - tab[j].offset
    BY <1>4
  <2>2. PICK x \in Nat, y \in Nat : x = tab[j].offset /\ y = tab[i].offset
    BY <1>1
  <2>3. o - y <= o - x
    BY <1>5, <2>1, <2>2
  <2>4. x <= y
    BY <2>3
  <2> QED
    BY <2>2, <2>4
<1> QED
  BY <1>6

\* The slot that is found has the greatest offset among the valid ones that do
\* not lie above.
FoundIs(tab, o, f) ==
  \/ f = 0 /\ \A i \in 1..AptsNum : tab[i].valid => ~(tab[i].offset <= o)
  \/ /\ f \in 1..AptsNum /\ f # 0 /\ tab[f].valid /\ tab[f].offset <= o
     /\ \A i \in 1..AptsNum : tab[i].valid /\ tab[i].offset <= o => tab[i].offset <= tab[f].offset

\* A look-up finds the record nearest below, if there is one.
LEMMA FoundLemma ==
  ASSUME NEW tab \in Table, NEW o \in Nat, NEW f, f = Found(tab, o)
  PROVE  FoundIs(tab, o, f)
<1> DEFINE exact == {i \in DOMAIN tab : tab[i].valid /\ tab[i].offset = o}
           below == {i \in DOMAIN tab : tab[i].valid /\ tab[i].offset < o}
           nearest == {i \in below : \A j \in below : tab[j].offset <= tab[i].offset}
<1>0. /\ AptsNum \in Nat /\ DOMAIN tab = 1..AptsNum
      /\ \A i \in 1..AptsNum : tab[i].offset \in Nat
  BY TableFields
<1>1. f = IF exact # {} THEN FirstOf(exact) ELSE IF below # {} THEN FirstOf(nearest) ELSE 0
  BY DEF Found
<1>2. CASE exact # {}
  <2>1. FirstOf(exact) \in exact
    <3>1. exact \subseteq Nat
      BY <1>0
    <3> HIDE DEF exact
    <3> QED
      BY <1>2, <3>1, FirstOfLemma
  <2>2. f \in 1..AptsNum /\ tab[f].valid /\ tab[f].offset = o
    BY <1>0, <1>1, <1>2, <2>1
  <2> QED
    BY <1>0, <2>2 DEF FoundIs
<1>3. CASE exact = {} /\ below # {}
  <2>1. below \subseteq 1..AptsNum /\ \A i \in below : tab[i].offset <= o
    BY <1>0
  <2>2. nearest # {}
    <3>1. \E i \in below : \A j \in below : tab[j].offset <= tab[i].offset
      <4> HIDE DEF below
      <4> QED
        BY <1>3, <2>1, NearestExists
    <3> QED
      BY <3>1
  <2>3. FirstOf(nearest) \in nearest
    <3>1. nearest \subseteq Nat
      BY <1>0
    <3> HIDE DEF nearest
    <3> QED
      BY <2>2, <3>1, FirstOfLemma
  <2>4. f \in nearest
    BY <1>1, <1>3, <2>3
  <2>5. /\ f \in 1..AptsNum /\ tab[f].valid /\ tab[f].offset <= o
        /\ \A j \in below : tab[j].offset <= tab[f].offset
    BY <1>0, <2>4
  <2>6. \A i \in 1..AptsNum : tab[i].valid /\ tab[i].offset <= o => i \in below
    BY <1>0, <1>3
  <2>7. \A i \in 1..AptsNum : tab[i].valid /\ tab[i].offset <= o => tab[i].offset <= tab[f].offset
    <3> HIDE DEF below
    <3> QED
      BY <2>5, <2>6
  <2> QED
    BY <1>0, <2>5, <2>7 DEF FoundIs
<1>4. CASE exact = {} /\ below = {}
  <2>1. f = 0
    BY <1>1, <1>4
  <2>2. \A i \in 1..AptsNum : tab[i].valid => ~(tab[i].offset <= o)
    BY <1>0, <1>4
  <2> QED
    BY <2>1, <2>2 DEF FoundIs
<1> QED
  BY <1>2, <1>3, <1>4

\* avsync_checkin_apts() loses no record that was not entered at the same offset.
LEMMA CheckInKeeps ==
  ASSUME NEW tab \in Table, NEW o \in Nat, NEW t \in Nat, NEW c \in Nat,
         NEW acc, acc \subseteq Entries, RecordedIn(tab, acc),
         NEW new, new = CheckIn(tab, o, t)
  PROVE  /\ new \in Table
         /\ new # tab => RecordedIn(new, acc \cup {[offset |-> o, pts |-> t]})
         /\ KeptIn(tab, acc, c) /\ new # tab => KeptIn(new, acc \cup {[offset |-> o, pts |-> t]}, c)
<1> DEFINE slots == {i \in DOMAIN tab : ~tab[i].valid \/ tab[i].offset = o}
<1>0. /\ AptsNum \in Nat /\ DOMAIN tab = 1..AptsNum
      /\ \A i \in 1..AptsNum : tab[i] \in Records /\ tab[i].valid \in BOOLEAN
                               /\ tab[i].offset \in Nat /\ tab[i].pts \in Nat
  BY TableFields
<1>1. CASE slots = {}
  <2>1. new = tab
    BY <1>1 DEF CheckIn
  <2> QED
    BY <2>1
<1>2. CASE slots # {}
  <2>1. PICK f : f = FirstOf(slots)
    OBVIOUS
  <2>2. f \in slots
    <3>1. slots \subseteq Nat
      BY <1>0
    <3> HIDE DEF slots
    <3> QED
      BY <1>2, <2>1, <3>1, FirstOfLemma
  <2>3. PICK rec : rec = [valid |-> TRUE, offset |-> o, pts |-> t]
    OBVIOUS
  <2>4. new = [tab EXCEPT ![f] = rec]
    BY <1>2, <2>1, <2>3 DEF CheckIn
  <2>5. f \in 1..AptsNum /\ (tab[f].valid => tab[f].offset = o)
    BY <1>0, <2>2
  <2>6. rec \in Records /\ rec.valid /\ rec.offset = o /\ rec.pts = t
    BY <2>3 DEF Records
  <2>7. new \in Table
    BY <2>4, <2>6 DEF Table
  <2>8. new[f] = rec /\ \A i \in 1..AptsNum : i # f => new[i] = tab[i]
    BY <1>0, <2>4, <2>5
  <2>9. RecordedIn(new, acc \cup {[offset |-> o, pts |-> t]})
    <3> SUFFICES ASSUME NEW i \in 1..AptsNum, new[i].valid
                 PROVE  [offset |-> new[i].offset, pts |-> new[i].pts]
                          \in acc \cup {[offset |-> o, pts |-> t]}
      BY DEF RecordedIn
    <3>1. CASE i = f
      BY <2>6, <2>8, <3>1
    <3>2. CASE i # f
      BY <2>8, <3>2 DEF RecordedIn
    <3> QED
      BY <3>1, <3>2
  <2>10. ASSUME KeptIn(tab, acc, c) PROVE KeptIn(new, acc \cup {[offset |-> o, pts |-> t]}, c)
    <3> SUFFICES ASSUME NEW r \in acc \cup {[offset |-> o, pts |-> t]}
                 PROVE  \E i \in 1..AptsNum : /\ new[i].valid /\ r.offset <= new[i].offset
                                              /\ new[i].offset = r.offset \/ new[i].offset <= c
      BY DEF KeptIn
    <3>1. CASE r \in acc
      <4>1. PICK i \in 1..AptsNum : /\ tab[i].valid /\ r.offset <= tab[i].offset
                                    /\ tab[i].offset = r.offset \/ tab[i].offset <= c
        BY <2>10, <3>1 DEF KeptIn
      <4>2. new[i].valid /\ new[i].offset = tab[i].offset
        BY <2>5, <2>6, <2>8, <4>1
      <4> QED
        BY <4>1, <4>2
    <3>2. CASE r = [offset |-> o, pts |-> t]
      <4>1. r.offset = o /\ o <= o
        BY <3>2
      <4> QED
        BY <2>5, <2>6, <2>8, <4>1
    <3> QED
      BY <3>1, <3>2
  <2> QED
    BY <2>7, <2>9, <2>10
<1> QED
  BY <1>1, <1>2

\* What a look-up leaves in a slot.
LEMMA LookupSlots ==
  ASSUME NEW tab \in Table, NEW c \in Nat, NEW new, new = AfterLookup(tab, c),
         NEW f, f = Found(tab, c)
  PROVE  /\ new \in Table
         /\ f \in 1..AptsNum => new[f] = tab[f]
         /\ \A i \in 1..AptsNum : \/ new[i] = tab[i]
                                  \/ ~new[i].valid /\ tab[i].offset < c
<1> DEFINE seen == IF f # 0 /\ tab[f].offset = c THEN 1..(f - 1) ELSE DOMAIN tab \ {f}
<1>0. /\ AptsNum \in Nat /\ DOMAIN tab = 1..AptsNum
      /\ \A i \in 1..AptsNum : tab[i] \in Records
  BY TableFields
<1>1. PICK s : s = seen
  OBVIOUS
<1>2. f \in 1..AptsNum => f \notin s
  BY <1>1
<1>3. new = [i \in 1..AptsNum |-> IF i \in s /\ tab[i].offset < c
                                  THEN [tab[i] EXCEPT !.valid = FALSE] ELSE tab[i]]
  BY <1>0, <1>1 DEF AfterLookup
<1>4. \A i \in 1..AptsNum : new[i] = IF i \in s /\ tab[i].offset < c
                                     THEN [tab[i] EXCEPT !.valid = FALSE] ELSE tab[i]
  BY <1>3
<1>5. \A r \in Records : [r EXCEPT !.valid = FALSE] \in Records /\ ~[r EXCEPT !.valid = FALSE].valid
  BY DEF Records
<1>6. \A i \in 1..AptsNum :
        new[i] \in Records /\ (new[i] = tab[i] \/ (~new[i].valid /\ tab[i].offset < c))
  BY <1>0, <1>4, <1>5
<1>7. new \in Table
  BY <1>3, <1>6 DEF Table
<1>8. f \in 1..AptsNum => new[f] = tab[f]
  BY <1>2, <1>4
<1> QED
  BY <1>6, <1>7, <1>8

\* A look-up gives up no record without which the next would be wrong.
LEMMA LookupKeeps ==
  ASSUME NEW tab \in Table, NEW c \in Nat,
         NEW acc, acc \subseteq Entries, RecordedIn(tab, acc),
         NEW new, new = AfterLookup(tab, c)
  PROVE  /\ new \in Table /\ RecordedIn(new, acc)
         /\ KeptIn(tab, acc, c) => KeptIn(new, acc, c)
<1>0. \A i \in 1..AptsNum : tab[i].offset \in Nat
  BY TableFields
<1>1. PICK f : f = Found(tab, c)
  OBVIOUS
<1>2. /\ new \in Table
      /\ f \in 1..AptsNum => new[f] = tab[f]
      /\ \A i \in 1..AptsNum : new[i] = tab[i] \/ (~new[i].valid /\ tab[i].offset < c)
  BY <1>1, LookupSlots
<1>3. FoundIs(tab, c, f)
  BY <1>1, FoundLemma
<1>4. RecordedIn(new, acc)
  BY <1>2 DEF RecordedIn
<1>5. ASSUME KeptIn(tab, acc, c), NEW r \in acc
      PROVE  \E i \in 1..AptsNum : /\ new[i].valid /\ r.offset <= new[i].offset
                                   /\ new[i].offset = r.offset \/ new[i].offset <= c
  <2>1. PICK i \in 1..AptsNum : /\ tab[i].valid /\ r.offset <= tab[i].offset
                                /\ tab[i].offset = r.offset \/ tab[i].offset <= c
    BY <1>5 DEF KeptIn
  <2>2. CASE new[i] = tab[i]
    BY <2>1, <2>2
  <2>3. CASE tab[i].offset < c
    <3>1. tab[i].offset <= c
      BY <1>0, <2>3
    <3>2. f \in 1..AptsNum /\ tab[f].valid /\ tab[f].offset <= c /\ tab[i].offset <= tab[f].offset
      BY <1>3, <2>1, <3>1 DEF FoundIs
    <3>3. r.offset <= tab[f].offset
      <4>1. r.offset \in Nat
        BY DEF Entries
      <4> QED
        BY <1>0, <2>1, <3>2, <4>1, AtMost
    <3>4. new[f] = tab[f]
      BY <1>2, <3>2
    <3> QED
      BY <3>2, <3>3, <3>4
  <2> QED
    BY <1>2, <2>2, <2>3
<1> QED
  BY <1>2, <1>4, <1>5 DEF KeptIn

\* What is kept for an offset is kept for a later one.
LEMMA KeptLater ==
  ASSUME NEW tab \in Table, NEW acc, NEW c \in Nat, NEW d \in Nat, c <= d, KeptIn(tab, acc, c)
  PROVE  KeptIn(tab, acc, d)
<1>1. \A i \in 1..AptsNum : tab[i].offset \in Nat
  BY TableFields
<1>2. \A i \in 1..AptsNum : tab[i].offset <= c => tab[i].offset <= d
  BY <1>1, AtMost
<1> QED
  BY <1>2 DEF KeptIn

\* What a look-up finds is the last of what was entered.
LEMMA FoundIsLatest ==
  ASSUME NEW tab \in Table, NEW c \in Nat,
         NEW acc, acc \subseteq Entries, RecordedIn(tab, acc),
         KeptIn(tab, acc, c), NEW f, f = Found(tab, c),
         NEW before, before = {r \in acc : r.offset <= c}
  PROVE  IF before = {} THEN f = 0
         ELSE /\ f # 0
              /\ \E r \in before : r.pts = tab[f].pts /\ \A q \in before : q.offset <= r.offset
<1>0. \A i \in 1..AptsNum : tab[i].offset \in Nat
  BY TableFields
<1>1. FoundIs(tab, c, f)
  BY FoundLemma
<1>2. ASSUME NEW q \in before
      PROVE  \E i \in 1..AptsNum : tab[i].valid /\ tab[i].offset <= c /\ q.offset <= tab[i].offset
  <2>1. PICK i \in 1..AptsNum : /\ tab[i].valid /\ q.offset <= tab[i].offset
                                /\ tab[i].offset = q.offset \/ tab[i].offset <= c
    BY DEF KeptIn
  <2>2. q.offset <= c
    OBVIOUS
  <2> QED
    BY <2>1, <2>2
<1>3. CASE f = 0
  BY <1>1, <1>2, <1>3 DEF FoundIs
<1>4. CASE f # 0
  <2>1. /\ f \in 1..AptsNum /\ tab[f].valid /\ tab[f].offset <= c
        /\ \A i \in 1..AptsNum :
             tab[i].valid /\ tab[i].offset <= c => tab[i].offset <= tab[f].offset
    BY <1>1, <1>4 DEF FoundIs
  <2>2. PICK r : r = [offset |-> tab[f].offset, pts |-> tab[f].pts]
    OBVIOUS
  <2>3. r \in before /\ r.offset = tab[f].offset /\ r.pts = tab[f].pts
    BY <2>1, <2>2 DEF RecordedIn
  <2>4. ASSUME NEW q \in before PROVE q.offset <= r.offset
    <3>1. PICK i \in 1..AptsNum : tab[i].valid /\ tab[i].offset <= c /\ q.offset <= tab[i].offset
      BY <1>2
    <3>2. tab[i].offset <= tab[f].offset /\ q.offset \in Nat
      BY <2>1, <3>1 DEF Entries
    <3> QED
      BY <1>0, <2>1, <2>3, <3>1, <3>2, AtMost
  <2> QED
    BY <1>4, <2>3, <2>4
<1> QED
  BY <1>3, <1>4

----------------------------------------------------------------------------
(* Parts of sequences.                                                      *)

\* The units of the next write.
LEMMA CutOfStream ==
  ASSUME NEW s \in Nat, NEW n \in Nat, s + n <= Total, NEW u, u = SubSeq(Stream, s + 1, s + n)
  PROVE  u \in Seq(Units) /\ Len(u) = n /\ \A i \in 1..n : u[i] = Stream[s + i]
<1>1. PICK t \in Nat : t = Total /\ s + n <= t
  BY Apart
<1>2. PICK a \in Int, b \in Int : a = s + 1 /\ b = s + n
  <2>1. s + 1 \in Int /\ s + n \in Int
    OBVIOUS
  <2> QED
    BY <2>1
<1>3. \A i \in a..b : Stream[i] \in Units
  <2>1. \A i \in 1..t : Stream[i] \in Units
    BY <1>1, Contents, LenProperties
  <2>2. \A i \in a..b : i \in 1..t
    BY <1>1, <1>2
  <2> QED
    BY <2>1, <2>2
<1>4. /\ SubSeq(Stream, a, b) \in Seq(Units)
      /\ Len(SubSeq(Stream, a, b)) = IF a <= b THEN b - a + 1 ELSE 0
      /\ \A i \in 1..b - a + 1 : SubSeq(Stream, a, b)[i] = Stream[a + i - 1]
  BY <1>3, SubSeqProperties
<1>5. (IF a <= b THEN b - a + 1 ELSE 0) = n /\ b - a + 1 = n /\ \A i \in 1..n : a + i - 1 = s + i
  BY <1>2
<1>6. u = SubSeq(Stream, a, b)
  BY <1>2
<1> QED
  BY <1>4, <1>5, <1>6

\* What is left of a write.
Rest(buf, b) == SubSeq(buf, b + 1, Len(buf))

\* in is what follows the first b units of buf.
IsRest(in, buf, b) ==
  \E n \in Nat : n = Len(in) /\ b + n = Len(buf) /\ \A i \in 1..n : in[i] = buf[b + i]

\* Its units are the next ones.
LEMMA RestOfWrite ==
  ASSUME NEW buf \in Seq(Units), NEW b \in Nat, b <= Len(buf),
         NEW in, in = Rest(buf, b)
  PROVE  IsRest(in, buf, b)
<1>1. PICK m \in Nat : m = Len(buf) /\ b <= m /\ \A i \in 1..m : buf[i] \in Units
  BY LenProperties
<1>2. PICK a \in Int : a = b + 1 /\ m \in Int
  <2>1. b + 1 \in Int /\ m \in Int
    OBVIOUS
  <2> QED
    BY <2>1
<1>3. \A i \in a..m : buf[i] \in Units
  BY <1>1, <1>2
<1>4. /\ Len(SubSeq(buf, a, m)) = IF a <= m THEN m - a + 1 ELSE 0
      /\ \A i \in 1..m - a + 1 : SubSeq(buf, a, m)[i] = buf[a + i - 1]
  BY <1>2, <1>3, SubSeqProperties
<1>5. PICK n \in Nat : n = m - b /\ b + n = m
  <2>1. m - b \in Nat /\ b + (m - b) = m
    BY <1>1
  <2> QED
    BY <2>1
<1>6. (IF a <= m THEN m - a + 1 ELSE 0) = n /\ m - a + 1 = n /\ \A i \in 1..n : a + i - 1 = b + i
  BY <1>1, <1>2, <1>5
<1>7. in = SubSeq(buf, a, m)
  BY <1>1, <1>2 DEF Rest
<1>8. n = Len(in) /\ b + n = Len(buf)
  BY <1>1, <1>4, <1>5, <1>6, <1>7
<1>9. \A i \in 1..n : in[i] = buf[b + i]
  BY <1>4, <1>6, <1>7
<1> QED
  BY <1>8, <1>9 DEF IsRest

\* The first units of what was stored.
LEMMA FirstUnits ==
  ASSUME NEW buf \in Seq(Units), NEW m \in Nat, m <= Len(buf), NEW new, new = SubSeq(buf, 1, m)
  PROVE  new \in Seq(Units) /\ Len(new) = m /\ \A i \in 1..m : new[i] = buf[i]
<1>1. PICK n \in Nat : n = Len(buf) /\ m <= n /\ \A i \in 1..n : buf[i] \in Units
  BY LenProperties
<1>2. 1 \in Int /\ m \in Int /\ \A i \in 1..m : buf[i] \in Units
  BY <1>1
<1>3. /\ SubSeq(buf, 1, m) \in Seq(Units)
      /\ Len(SubSeq(buf, 1, m)) = IF 1 <= m THEN m - 1 + 1 ELSE 0
      /\ \A i \in 1..m - 1 + 1 : SubSeq(buf, 1, m)[i] = buf[1 + i - 1]
  BY <1>2, SubSeqProperties
<1>4. (IF 1 <= m THEN m - 1 + 1 ELSE 0) = m /\ m - 1 + 1 = m /\ \A i \in 1..m : 1 + i - 1 = i
  OBVIOUS
<1> QED
  BY <1>3, <1>4

\* The payload that a call has found is the one that was sent.
LEMMA PayloadFound ==
  ASSUME NEW buf \in Seq(Units), NEW k \in 1..N, NEW m \in Nat, m = Payloads[k].size,
         Holds(buf, k, m), NEW t, t = Payloads[k].pts
  PROVE  [body |-> SubSeq(buf, 1, m), pts |-> t] = PayloadOf(k, Payloads[k])
<1>1. m <= Len(buf) /\ \A i \in 1..m : buf[i] = [kind |-> "body", of |-> k, at |-> i]
  BY DEF Holds
<1>2. PICK new : new = SubSeq(buf, 1, m)
  OBVIOUS
<1>3. new \in Seq(Units) /\ Len(new) = m /\ \A i \in 1..m : new[i] = buf[i]
  BY <1>1, <1>2, FirstUnits
<1>4. new = [i \in 1..m |-> new[i]]
  BY <1>3, LenProperties
<1>5. new = [i \in 1..m |-> [kind |-> "body", of |-> k, at |-> i]]
  BY <1>1, <1>3, <1>4
<1> QED
  BY <1>2, <1>5 DEF PayloadOf

----------------------------------------------------------------------------
(* The parts of the invariant.                                              *)

\* The model's Fed and StartOf() are those of its input.
LEMMA FedIs == Fed = EndOf(input) /\ \A i : StartOf(i) = Starts(input, i)
BY DEF Fed, StartOf, EndOf, Starts

\* After the step, too.
LEMMA FedIsNext == Fed' = EndOf(input') /\ \A i : StartOf(i)' = Starts(input', i)
BY DEF Fed, StartOf, EndOf, Starts

\* The local variables of a write.
LEMMA WriteFields ==
  ASSUME NEW w \in WriteState
  PROVE  /\ w.at \in {"idle", "find", "checkin", "advance", "feed"} /\ w.buffer \in Seq(Units)
         /\ Len(w.buffer) \in Nat /\ w.bytes_cost \in Nat /\ w.pheader_cost \in Nat
         /\ w.cur_pts \in Times /\ w.pheader_outsize \in Nat /\ w.b_pts_valid \in BOOLEAN
         /\ w.abuffer \in Pieces \cup {<<>>}
<1>1. /\ w.at \in {"idle", "find", "checkin", "advance", "feed"} /\ w.buffer \in Seq(Units)
      /\ w.bytes_cost \in Nat /\ w.pheader_cost \in Nat
      /\ w.cur_pts \in Times /\ w.pheader_outsize \in Nat /\ w.b_pts_valid \in BOOLEAN
      /\ w.abuffer \in Pieces \cup {<<>>}
  BY DEF WriteState
<1>2. Len(w.buffer) \in Nat
  BY <1>1, LenProperties
<1> QED
  BY <1>1, <1>2

\* What was parsed is a number of units, those of the returned writes among them.
LEMMA PositionIs ==
  ASSUME NEW w \in WriteState, NEW s \in Nat
  PROVE  PositionOf(s, w) \in Nat /\ s <= PositionOf(s, w)
<1>1. PICK b \in Nat, c \in Nat : b = w.bytes_cost /\ c = w.pheader_cost
  BY WriteFields
<1>2. PositionOf(s, w) \in {s + 0, s + b, s + (b + c)}
  BY <1>1 DEF PositionOf
<1>3. \A p \in {s + 0, s + b, s + (b + c)} : p \in Nat /\ s <= p
  OBVIOUS
<1> QED
  BY <1>2, <1>3

\* Between two writes all that was parsed was written.
LEMMA NoWriteIs ==
  /\ NoWrite \in WriteState /\ NoWrite.at = "idle" /\ NoWrite.buffer = <<>>
  /\ NoWrite.pheader_outsize = 0 /\ ~InHand(NoWrite)
  /\ \A s \in Nat : PositionOf(s, NoWrite) = s
<1>1. <<>> \in Seq(Units)
  OBVIOUS
<1>2. NA \in Times
  BY DEF Times
<1>3. NoWrite \in WriteState
  BY <1>1, <1>2 DEF NoWrite, WriteState
<1> QED
  BY <1>3 DEF NoWrite, InHand, PositionOf

\* What MS12 holds has been parsed, and so it has later.
LEMMA SeenLater ==
  ASSUME NEW in \in Seq(Pieces), NEW p \in Nat, NEW q \in Nat, p <= q, InputSeen(in, p)
  PROVE  InputSeen(in, q)
<1> SUFFICES ASSUME NEW i \in 1..Len(in) PROVE AllSeen(in[i].body, q)
  BY DEF InputSeen
<1>1. AllSeen(in[i].body, p)
  BY DEF InputSeen
<1> QED
  BY <1>1, SeenStays DEF AllSeen

\* After a flush both sides begin anew.
LEMMA BothAnew ==
  ASSUME NEW w, w.at = "idle", NEW s \in Nat, NEW c
  PROVE  /\ KeptIn(pts_tab, {}, c)
         /\ Matches(0, {}, <<>>, w)
         /\ Delivers(<<>>, w, s, s)
<1>1. EndOf(<<>>) = 0
  BY StartsEmpty
<1>2. \A k \in 1..N : ~Due(k, s, s)
  BY Apart DEF Due
<1> QED
  BY <1>1, <1>2 DEF KeptIn, Matches, Delivers

\* What was parsed of a write is at most its length.
LEMMA LessLeft ==
  ASSUME NEW s \in Nat, NEW b \in Nat, NEW m \in Nat, NEW q, q = s + b, q <= s + m
  PROVE  b <= m
OBVIOUS

----------------------------------------------------------------------------
(* The actions.                                                             *)

\* A write begins: nothing of it is parsed yet.
LEMMA StartWriteStep ==
  ASSUME HwInv, StartWrite
  PROVE  HwInv'
<1>0. /\ Typed /\ WritesFrom(sent, write, pheader) /\ Quiet /\ RecordedIn(pts_tab, accepted)
      /\ ~resent => Follows(pheader, write, Position)
      /\ InStep /\ ~outdated => KeptIn(pts_tab, accepted, ReadCount)
      /\ InStep /\ ~uncounted => Matches(payload_offset, accepted, input, write)
      /\ InStep /\ ~resent =>
           InputSeen(input, Position) /\ Delivers(input, write, origin, Position)
  BY DEF HwInv
<1>1. PICK n, u :
        /\ n \in Nat /\ n # 0 /\ sent + n <= Total /\ u = SubSeq(Stream, sent + 1, sent + n)
        /\ write' = [NoWrite EXCEPT !.at = "find", !.buffer = u]
        /\ write.at = "idle" /\ flush = "none"
        /\ late' = (late \/ mesgs > 0)
        /\ UNCHANGED <<sent, origin, pheader, ctx, ms12, lookup, flush, mesgs, sends, resent>>
  BY HwSyncAssumption DEF StartWrite, Total
<1>2. PICK s, h : s \in Nat /\ s = sent /\ s \in 0..Total /\ h = pheader /\ h \in HeaderState
  BY <1>0, Apart DEF Typed, Sound
<1>3. u \in Seq(Units) /\ Len(u) = n /\ \A i \in 1..n : u[i] = Stream[s + i]
  <2>1. s \in Nat /\ n \in Nat /\ s + n <= Total /\ u = SubSeq(Stream, s + 1, s + n)
    BY <1>1, <1>2, Apart
  <2> QED
    BY <2>1, CutOfStream
<1>4. PICK w : w = [NoWrite EXCEPT !.at = "find", !.buffer = u]
  OBVIOUS
<1>5. /\ w \in WriteState /\ w.at = "find" /\ w.buffer = u /\ w.bytes_cost = 0
      /\ w.pheader_outsize = 0 /\ ~InHand(w)
  BY <1>3, <1>4, NoWriteIs DEF WriteState, NoWrite, InHand
<1>6. /\ write' = w
      /\ UNCHANGED <<sent, origin, pheader, payload_offset, pts_tab, accepted, uncounted, input,
                     consumed, consume_payload, outdated, flush, mesgs, sends, resent>>
  BY <1>1, <1>4 DEF ctx, ms12, lookup
<1>7. PositionOf(s, w) = s /\ Position = s /\ Position' = s
  <2>1. s + 0 = s
    BY <1>2, Apart
  <2>2. PositionOf(s, w) = s /\ PositionOf(s, write) = s
    BY <1>1, <1>5, <2>1 DEF PositionOf
  <2> QED
    BY <1>2, <1>6, <2>2 DEF Position
<1>8. WritesFrom(s, w, h)
  <2>1. Len(h.hw_sync_body_buf) \in Nat
    BY <1>2, HeaderFields
  <2>2. s <= s + n /\ 0 <= Len(h.hw_sync_body_buf)
    BY <1>1, <1>2, <2>1
  <2> QED
    BY <1>1, <1>2, <1>3, <1>5, <1>7, <2>2 DEF WritesFrom
<1>9. Typed'
  <2>1. late' \in BOOLEAN
    BY <1>1
  <2>2. Fed' = Fed
    BY <1>6, FedIs, FedIsNext
  <2> QED
    BY <1>0, <1>5, <1>6, <2>1, <2>2 DEF Typed
<1>10. InStep' => InStep
  BY <1>0, <1>1, <1>6 DEF InStep, Typed
<1>11. Quiet'
  <2>1. ~(flush' = "wait" \/ (~late' /\ mesgs' > 0))
    BY <1>1, <1>6
  <2> QED
    BY <1>1, <1>6, <2>1 DEF Quiet
<1>12. Matches(payload_offset, accepted, input, write) =>
         Matches(payload_offset, accepted, input, w)
  BY <1>1, <1>5 DEF Matches
<1>13. Delivers(input, write, origin, s) => Delivers(input, w, origin, s)
  <2>1. ~InHand(write)
    BY <1>1 DEF InHand
  <2> QED
    BY <2>1 DEF Delivers, OnItsWay
<1>14. Follows(h, write, s) => Follows(h, w, s)
  BY <1>5 DEF Follows, SeenTo
<1>15. ReadCount' = ReadCount
  BY <1>6 DEF ReadCount
<1> QED
  BY <1>0, <1>2, <1>6, <1>7, <1>8, <1>9, <1>10, <1>11, <1>12, <1>13, <1>14, <1>15 DEF HwInv

\* A turn is not idle.
LEMMA QuietStays ==
  ASSUME Quiet, write.at # "idle", UNCHANGED <<flush, mesgs, late>>
  PROVE  Quiet'
<1>1. ~(flush = "wait" \/ (~late /\ mesgs > 0))
  BY DEF Quiet
<1>2. ~(flush' = "wait" \/ (~late' /\ mesgs' > 0)) /\ flush' # "wait"
  BY <1>1
<1> QED
  BY <1>2 DEF Quiet

\* The call of a turn is on the next units of the stream; the parser may take them
\* for others.
LEMMA CallOfWrite ==
  ASSUME NEW s \in Nat, NEW h, Sound(h), NEW w \in WriteState, w.at = "find",
         WritesFrom(s, w, h), NEW q \in Nat, q = PositionOf(s, w),
         NEW c, c = FindFrame(h, Rest(w.buffer, w.bytes_cost), w.cur_pts, w.pheader_outsize)
  PROVE  \E n \in Nat : /\ q + n = s + Len(w.buffer)
                        /\ TypedCall(c, w.pheader_outsize, n)
                        /\ Follows(h, w, q) => CallAt(c, q, n)
<1>1. PICK b \in Nat, m \in Nat : b = w.bytes_cost /\ m = Len(w.buffer)
  BY WriteFields
<1>2. PICK out \in Nat, t \in Times, buf \in Seq(Units) :
        out = w.pheader_outsize /\ t = w.cur_pts /\ buf = w.buffer
  BY WriteFields
<1>3. q = s + b
  BY <1>1 DEF PositionOf
<1>4. q <= s + m /\ s + m <= Total
  BY <1>1 DEF WritesFrom
<1>5. b <= m
  BY <1>3, <1>4, LessLeft
<1>6. PICK in : in = Rest(buf, b)
  OBVIOUS
<1>7. PICK n \in Nat : n = Len(in) /\ b + n = m /\ \A i \in 1..n : in[i] = buf[b + i]
  <2>1. b <= Len(buf)
    BY <1>1, <1>2, <1>5
  <2>2. IsRest(in, buf, b)
    BY <1>6, <2>1, RestOfWrite
  <2> QED
    BY <1>1, <1>2, <2>2 DEF IsRest
<1>8. \A i \in 1..n : in[i] = Stream[q + i]
  <2> SUFFICES ASSUME NEW i \in 1..n PROVE in[i] = Stream[q + i]
    OBVIOUS
  <2>1. PICK j \in 1..m : j = b + i /\ s + j = q + i
    <3>1. b + i \in 1..m /\ s + (b + i) = q + i
      BY <1>3, <1>7
    <3> QED
      BY <3>1
  <2>2. buf[j] = Stream[s + j]
    BY <1>1, <1>2 DEF WritesFrom
  <2> QED
    BY <1>7, <2>1, <2>2
<1>9. q + n = s + m
  BY <1>3, <1>7
<1>10. q + n <= Total
  BY <1>4, <1>9
<1>11. out <= Len(h.hw_sync_body_buf)
  BY <1>2 DEF WritesFrom
<1>12. c = FindFrame(h, in, t, out)
  BY <1>1, <1>2, <1>6
<1>13. Len(in) = n
  BY <1>7
<1>14. ASSUME Follows(h, w, q)
       PROVE  CallAt(FindFrame(h, in, t, out), q, n)
  <2>1. Parsed(h, q) /\ SeenTo(h.hw_sync_body_buf, out, q)
    BY <1>2, <1>14 DEF Follows
  <2> QED
    BY <1>8, <1>10, <1>11, <1>13, <2>1, FrameFound
<1>15. TypedCall(FindFrame(h, in, t, out), out, n)
  <2>1. \A i \in 1..n : in[i] \in Units
    <3> SUFFICES ASSUME NEW i \in 1..n PROVE in[i] \in Units
      OBVIOUS
    <3>1. b + i \in 1..m
      BY <1>7
    <3>2. buf[b + i] \in Units
      BY <1>1, <1>2, <3>1, LenProperties
    <3> QED
      BY <1>7, <3>2
  <2> QED
    BY <1>11, <1>13, <2>1, FrameTyped
<1> QED
  BY <1>1, <1>2, <1>9, <1>12, <1>14, <1>15

\* What it found.
PieceOf(c) == [body |-> SubSeq(c.header.hw_sync_body_buf, 1, c.outsize), pts |-> c.cur_pts]

\* It is some units and a pts.
LEMMA PieceIs ==
  ASSUME NEW c \in CallState, c.outsize <= Len(c.header.hw_sync_body_buf), NEW a, a = PieceOf(c)
  PROVE  /\ a \in Pieces /\ Len(a.body) = c.outsize
         /\ \A i \in 1..c.outsize : a.body[i] = c.header.hw_sync_body_buf[i]
<1>1. PICK size \in Nat, t \in Times, buf \in Seq(Units) :
        size = c.outsize /\ t = c.cur_pts /\ buf = c.header.hw_sync_body_buf
  BY CallFields, HeaderFields
<1>2. PICK body : body = SubSeq(buf, 1, size)
  OBVIOUS
<1>3. size <= Len(buf)
  BY <1>1
<1>4. body \in Seq(Units) /\ Len(body) = size /\ \A i \in 1..size : body[i] = buf[i]
  BY <1>2, <1>3, FirstUnits
<1>5. a = [body |-> body, pts |-> t]
  BY <1>1, <1>2 DEF PieceOf
<1>6. a \in Pieces /\ a.body = body
  BY <1>4, <1>5 DEF Pieces, Times
<1> QED
  BY <1>1, <1>4, <1>6

\* The payload a call found is the whole one that ends where the call ended.
LEMMA PieceFound ==
  ASSUME NEW q \in Nat, NEW n \in Nat, NEW c, CallAt(c, q, n),
         NEW cost \in Nat, cost = c.cost, NEW p, p = q + cost,
         NEW a, a = PieceOf(c)
  PROVE  /\ Parsed(c.header, p) /\ SeenTo(c.header.hw_sync_body_buf, c.outsize, p)
         /\ AllSeen(a.body, p)
         /\ \A k \in 1..N : EndsIn(k, q, p) => Ends(k) = p /\ a = PayloadOf(k, Payloads[k])
<1>1. /\ c \in CallState /\ c.outsize <= Len(c.header.hw_sync_body_buf)
      /\ Parsed(c.header, p) /\ SeenTo(c.header.hw_sync_body_buf, c.outsize, p)
  BY DEF CallAt
<1>2. PICK size \in Nat, t \in Times, buf \in Seq(Units) :
        size = c.outsize /\ t = c.cur_pts /\ buf = c.header.hw_sync_body_buf
  BY <1>1, CallFields, HeaderFields
<1>3. Len(a.body) = size /\ \A i \in 1..size : a.body[i] = buf[i]
  BY <1>1, <1>2, PieceIs
<1>4. AllSeen(a.body, p)
  BY <1>1, <1>2, <1>3 DEF AllSeen, SeenTo
<1>5. ASSUME NEW k \in 1..N, EndsIn(k, q, p)
      PROVE  Ends(k) = p /\ a = PayloadOf(k, Payloads[k])
  <2>1. c.done
    BY <1>5 DEF CallAt
  <2>2. Complete(c, k) /\ Ends(k) = p
    BY <1>5, <2>1 DEF CallAt
  <2>3. size = Payloads[k].size /\ Holds(buf, k, size) /\ t = Payloads[k].pts
    BY <1>2, <2>2 DEF Complete
  <2>4. [body |-> SubSeq(buf, 1, size), pts |-> t] = PayloadOf(k, Payloads[k])
    BY <2>3, PayloadFound
  <2> QED
    BY <1>2, <2>2, <2>4 DEF PieceOf
<1> QED
  BY <1>1, <1>4, <1>5

\* The parser finds the next payload of the write.
LEMMA FindPayloadStep ==
  ASSUME HwInv, FindPayload
  PROVE  HwInv'
<1>0. /\ Typed /\ WritesFrom(sent, write, pheader) /\ Quiet /\ RecordedIn(pts_tab, accepted)
      /\ ~resent => Follows(pheader, write, Position)
      /\ InStep /\ ~outdated => KeptIn(pts_tab, accepted, ReadCount)
      /\ InStep /\ ~uncounted => Matches(payload_offset, accepted, input, write)
      /\ InStep /\ ~resent =>
           InputSeen(input, Position) /\ Delivers(input, write, origin, Position)
  BY DEF HwInv
<1>1. PICK h : h = pheader
  OBVIOUS
<1>2. PICK s \in Nat, v \in WriteState, q \in Nat : s = sent /\ v = write /\ q = Position
  <2>1. sent \in Nat /\ write \in WriteState
    BY <1>0, Apart DEF Typed
  <2>2. Position \in Nat
    BY <2>1, PositionIs DEF Position
  <2> QED
    BY <2>1, <2>2
<1>3. v.at = "find" /\ q = PositionOf(s, v) /\ WritesFrom(s, v, h) /\ Sound(h)
  BY <1>0, <1>1, <1>2 DEF FindPayload, Position, Typed
<1>4. PICK c : c = FindFrame(h, Rest(v.buffer, v.bytes_cost), v.cur_pts, v.pheader_outsize)
  OBVIOUS
<1>4a. c = Frame
  BY <1>1, <1>2, <1>4 DEF Frame, Rest
<1>5. PICK n \in Nat : /\ q + n = s + Len(v.buffer) /\ TypedCall(c, v.pheader_outsize, n)
                       /\ Follows(h, v, q) => CallAt(c, q, n)
  BY <1>3, <1>4, CallOfWrite
<1>6. PICK cost, p, a :
        /\ cost \in Nat /\ cost = c.cost /\ p = q + cost
        /\ a = PieceOf(c)
  BY <1>5, CallFields DEF TypedCall
<1>7. /\ p \in Nat /\ q <= p /\ p <= q + n
      /\ c \in CallState /\ Sound(c.header) /\ c.outsize # 0
      /\ c.outsize <= Len(c.header.hw_sync_body_buf)
      /\ a \in Pieces
  <2>1. /\ c \in CallState /\ Sound(c.header) /\ cost <= n
        /\ c.outsize <= Len(c.header.hw_sync_body_buf)
    BY <1>5, <1>6 DEF TypedCall
  <2>2. p \in Nat /\ q <= p /\ p <= q + n
    BY <1>6, <2>1
  <2>3. a \in Pieces
    BY <1>6, <2>1, PieceIs
  <2>4. c.outsize # 0
    BY <1>4a DEF FindPayload
  <2> QED
    BY <2>1, <2>2, <2>3, <2>4
<1>7a. ASSUME Follows(h, v, q)
       PROVE  /\ Parsed(c.header, p) /\ SeenTo(c.header.hw_sync_body_buf, c.outsize, p)
              /\ AllSeen(a.body, p)
              /\ \A k \in 1..N : EndsIn(k, q, p) => Ends(k) = p /\ a = PayloadOf(k, Payloads[k])
  <2>1. CallAt(c, q, n)
    BY <1>5, <1>7a
  <2> QED
    BY <1>6, <2>1, PieceFound
<1>8. PICK w : w = [v EXCEPT
                     !.at = "checkin", !.pheader_cost = c.cost, !.cur_pts = c.cur_pts,
                     !.pheader_outsize = c.outsize, !.b_pts_valid = @ \/ c.cur_pts # NA,
                     !.abuffer = a]
  OBVIOUS
<1>9. /\ w \in WriteState /\ w.at = "checkin" /\ w.pheader_cost = c.cost
      /\ w.bytes_cost = v.bytes_cost /\ w.buffer = v.buffer
      /\ w.pheader_outsize = c.outsize /\ w.abuffer = a
  <2>1. PICK valid \in BOOLEAN : valid = (v.b_pts_valid \/ c.cur_pts # NA)
    OBVIOUS
  <2>2. w = [v EXCEPT !.at = "checkin", !.pheader_cost = c.cost, !.cur_pts = c.cur_pts,
                      !.pheader_outsize = c.outsize, !.b_pts_valid = valid, !.abuffer = a]
    BY <1>8, <2>1 DEF WriteState
  <2>3. c.cost \in Nat /\ c.cur_pts \in Times /\ c.outsize \in Nat
    BY <1>7, CallFields
  <2> QED
    BY <1>7, <2>2, <2>3 DEF WriteState
<1>10. /\ pheader' = c.header /\ write' = w
       /\ UNCHANGED <<sent, origin, pts_tab, payload_offset, accepted, uncounted, input, consumed,
                      consume_payload, outdated, flush, mesgs, sends, late, resent>>
  <2>2. /\ pheader' = c.header
        /\ write' = [write EXCEPT
                     !.at = "checkin", !.pheader_cost = c.cost, !.cur_pts = c.cur_pts,
                     !.pheader_outsize = c.outsize, !.b_pts_valid = @ \/ c.cur_pts # NA,
                     !.abuffer = [body |-> SubSeq(c.header.hw_sync_body_buf, 1, c.outsize),
                                  pts |-> c.cur_pts]]
        /\ UNCHANGED <<sent, origin, ctx, ms12, lookup, flush, mesgs, sends, late, resent>>
    BY <1>4a DEF FindPayload
  <2>3. write' = w
    BY <1>1, <1>2, <1>6, <1>8, <2>2 DEF PieceOf
  <2> QED
    BY <2>2, <2>3 DEF ctx, ms12, lookup
<1>11. PositionOf(s, w) = p /\ Position' = p
  <2>1. PositionOf(s, w) = s + (v.bytes_cost + c.cost) /\ q = s + v.bytes_cost
    BY <1>3, <1>9 DEF PositionOf
  <2>2. PICK x \in Nat, y \in Nat : x = v.bytes_cost /\ y = c.cost
    BY <1>7, WriteFields, CallFields
  <2>3. s + (x + y) = (s + x) + y
    OBVIOUS
  <2>4. PositionOf(s, w) = p
    BY <1>6, <2>1, <2>2, <2>3
  <2> QED
    BY <1>1, <1>2, <1>10, <2>4 DEF Position
<1>12. WritesFrom(s, w, c.header)
  <2>1. /\ \A i \in 1..Len(v.buffer) : v.buffer[i] = Stream[s + i]
        /\ s + Len(v.buffer) <= Total
    BY <1>3 DEF WritesFrom
  <2>2. p <= s + Len(v.buffer)
    BY <1>5, <1>7
  <2>3. s + Len(w.buffer) <= Total /\ PositionOf(s, w) <= s + Len(w.buffer)
    BY <1>9, <1>11, <2>1, <2>2
  <2>4. \A i \in 1..Len(w.buffer) : w.buffer[i] = Stream[s + i]
    BY <1>9, <2>1
  <2>5. w.at # "idle" /\ w.at # "find"
    BY <1>9
  <2>6. /\ w.pheader_outsize <= Len(c.header.hw_sync_body_buf)
        /\ w.abuffer \in Pieces /\ w.pheader_outsize # 0
    BY <1>7, <1>9
  <2> QED
    BY <2>3, <2>4, <2>5, <2>6 DEF WritesFrom
<1>13. Typed'
  <2>1. Fed' = Fed
    BY <1>10, FedIs, FedIsNext
  <2> QED
    BY <1>0, <1>7, <1>9, <1>10, <2>1 DEF Typed
<1>14. InStep' = InStep
  BY <1>10 DEF InStep
<1>15. Quiet'
  <2>1. ~(flush = "wait" \/ (~late /\ mesgs > 0))
    BY <1>0, <1>1, <1>2, <1>3 DEF Quiet
  <2>2. ~(flush' = "wait" \/ (~late' /\ mesgs' > 0)) /\ flush' # "wait"
    BY <1>10, <2>1
  <2> QED
    BY <2>2 DEF Quiet
<1>16. Matches(payload_offset, accepted, input, v) => Matches(payload_offset, accepted, input, w)
  BY <1>3, <1>9 DEF Matches
<1>17. InputSeen(input, q) => InputSeen(input, p)
  BY <1>0, <1>7, SeenLater DEF Typed
<1>18. ASSUME Follows(h, v, q), Delivers(input, v, origin, q), NEW k \in 1..N, Due(k, origin, p)
       PROVE  OnItsWay(k, w, p) \/ Reached(k, input)
  <2>0. Ends(k) \in Nat
    BY Apart
  <2>1. CASE Ends(k) <= q
    <3>1. Due(k, origin, q)
      BY <1>18, <2>1 DEF Due
    <3>2. ~OnItsWay(k, v, q)
      BY <1>3 DEF OnItsWay, InHand
    <3> QED
      BY <1>18, <3>1, <3>2 DEF Delivers
  <2>2. CASE q < Ends(k)
    <3>1. EndsIn(k, q, p)
      BY <1>18, <2>2 DEF Due, EndsIn
    <3> QED
      BY <1>7a, <1>9, <1>18, <3>1 DEF OnItsWay, InHand
  <2> QED
    BY <2>0, <2>1, <2>2
<1>19. Follows(h, v, q) /\ Delivers(input, v, origin, q) => Delivers(input, w, origin, p)
  BY <1>18 DEF Delivers
<1>20. Follows(h, v, q) => Follows(c.header, w, p)
  BY <1>7a, <1>9 DEF Follows
<1>21. ReadCount' = ReadCount
  BY <1>10 DEF ReadCount
<1>22. /\ ~resent => Follows(h, v, q)
       /\ InStep /\ ~uncounted => Matches(payload_offset, accepted, input, v)
       /\ InStep /\ ~resent => InputSeen(input, q) /\ Delivers(input, v, origin, q)
  BY <1>0, <1>1, <1>2
<1>23. /\ ~resent' => Follows(pheader', write', Position')
       /\ InStep' /\ ~uncounted' => Matches(payload_offset', accepted', input', write')
       /\ InStep' /\ ~resent' =>
            InputSeen(input', Position') /\ Delivers(input', write', origin', Position')
  BY <1>10, <1>11, <1>14, <1>16, <1>17, <1>19, <1>20, <1>22
<1> QED
  BY <1>0, <1>2, <1>10, <1>12, <1>13, <1>14, <1>15, <1>21, <1>23 DEF HwInv

\* The write completes no payload: nothing of it counts as parsed, and if the parser is
\* not as it was, this is recorded.
LEMMA FindNothingStep ==
  ASSUME HwInv, FindNothing
  PROVE  HwInv'
<1>0. /\ Typed /\ WritesFrom(sent, write, pheader) /\ Quiet /\ RecordedIn(pts_tab, accepted)
      /\ ~resent => Follows(pheader, write, Position)
      /\ InStep /\ ~outdated => KeptIn(pts_tab, accepted, ReadCount)
      /\ InStep /\ ~uncounted => Matches(payload_offset, accepted, input, write)
      /\ InStep /\ ~resent =>
           InputSeen(input, Position) /\ Delivers(input, write, origin, Position)
  BY DEF HwInv
<1>0a. PICK h : h = pheader
  OBVIOUS
<1>1. PICK s \in Nat, v \in WriteState, q \in Nat : s = sent /\ v = write /\ q = Position
  <2>1. sent \in Nat /\ write \in WriteState
    BY <1>0, Apart DEF Typed
  <2>2. Position \in Nat
    BY <2>1, PositionIs DEF Position
  <2> QED
    BY <2>1, <2>2
<1>2. v.at = "find" /\ q = PositionOf(s, v) /\ WritesFrom(s, v, h) /\ Sound(h)
  BY <1>0, <1>0a, <1>1 DEF FindNothing, Position, Typed
<1>3. PICK c : c = Frame /\ c = FindFrame(h, Rest(v.buffer, v.bytes_cost), v.cur_pts,
                                         v.pheader_outsize)
  BY <1>0a, <1>1 DEF Frame, Rest
<1>4. PICK n \in Nat : q + n = s + Len(v.buffer) /\ TypedCall(c, v.pheader_outsize, n)
  BY <1>2, <1>3, CallOfWrite
<1>5. /\ pheader' = c.header /\ resent' = (resent \/ c.header # h) /\ write' = NoWrite
      /\ UNCHANGED <<sent, origin, pts_tab, payload_offset, accepted, uncounted, input, consumed,
                     consume_payload, outdated, flush, mesgs, sends, late>>
      /\ c.outsize = 0
  BY <1>0a, <1>1, <1>3 DEF FindNothing, ctx, ms12, lookup
<1>6. v.pheader_outsize = 0 /\ v.bytes_cost = 0 /\ Sound(c.header)
  BY <1>2, <1>4, <1>5 DEF TypedCall, WritesFrom
<1>7. q = s /\ Position' = s
  <2>1. s + 0 = s
    OBVIOUS
  <2> QED
    BY <1>0a, <1>1, <1>2, <1>5, <1>6, <2>1, NoWriteIs DEF PositionOf, Position
<1>8. WritesFrom(s, NoWrite, c.header)
  <2>1. Len(<<>>) = 0 /\ s + 0 = s /\ s <= s
    OBVIOUS
  <2>2. s <= Total
    BY <1>0, <1>0a, <1>1, Apart DEF Typed
  <2>3. Len(c.header.hw_sync_body_buf) \in Nat
    BY <1>6, HeaderFields DEF Sound
  <2>4. 0 <= Len(c.header.hw_sync_body_buf) /\ PositionOf(s, NoWrite) = s
    BY <2>3, NoWriteIs
  <2> QED
    BY <2>1, <2>2, <2>4, NoWriteIs DEF WritesFrom
<1>9. Typed'
  <2>1. Fed' = Fed
    BY <1>5, FedIs, FedIsNext
  <2>2. resent' \in BOOLEAN /\ NoWrite \in WriteState
    BY <1>0, <1>5, NoWriteIs DEF Typed
  <2> QED
    BY <1>0, <1>5, <1>6, <2>1, <2>2 DEF Typed
<1>10. InStep' = InStep /\ ReadCount' = ReadCount
  BY <1>5 DEF InStep, ReadCount
<1>11. Quiet'
  <2>1. write.at # "idle"
    BY <1>0a, <1>1, <1>2
  <2> QED
    BY <1>0, <1>5, <2>1, QuietStays
<1>12. ASSUME ~resent' PROVE Follows(c.header, NoWrite, s)
  <2>1. Parsed(c.header, s)
    BY <1>0, <1>0a, <1>1, <1>5, <1>7, <1>12 DEF Follows
  <2>2. NoWrite.pheader_outsize = 0 /\ ~InHand(NoWrite)
    BY NoWriteIs
  <2> QED
    BY <2>1, <2>2 DEF Follows, SeenTo
<1>13. /\ Matches(payload_offset, accepted, input, v) =>
            Matches(payload_offset, accepted, input, NoWrite)
       /\ Delivers(input, v, origin, s) => Delivers(input, NoWrite, origin, s)
  BY <1>2, NoWriteIs DEF Matches, Delivers, OnItsWay, InHand
<1>14. /\ InStep' /\ ~uncounted' => Matches(payload_offset', accepted', input', write')
       /\ InStep' /\ ~resent' =>
            InputSeen(input', Position') /\ Delivers(input', write', origin', Position')
  BY <1>0, <1>0a, <1>1, <1>5, <1>7, <1>10, <1>13
<1> QED
  BY <1>0, <1>0a, <1>1, <1>5, <1>7, <1>8, <1>9, <1>10, <1>11, <1>12, <1>14 DEF HwInv

\* The steps of a turn that has found a payload.
LEMMA NextAt ==
  ASSUME NEW s, NEW v \in WriteState, InHand(v), NEW at \in {"checkin", "advance", "feed"},
         NEW w, w = [v EXCEPT !.at = at]
  PROVE  /\ w \in WriteState /\ w.at = at /\ w.abuffer = v.abuffer /\ InHand(w)
         /\ v.abuffer = w.abuffer /\ PositionOf(s, w) = PositionOf(s, v)
         /\ \A h : WritesFrom(s, v, h) => WritesFrom(s, w, h)
         /\ \A h, p : Follows(h, v, p) => Follows(h, w, p)
         /\ \A in, o, p : Delivers(in, v, o, p) => Delivers(in, w, o, p)
<1>1. /\ w \in WriteState /\ w.at = at /\ w.buffer = v.buffer /\ w.bytes_cost = v.bytes_cost
      /\ w.pheader_cost = v.pheader_cost /\ w.pheader_outsize = v.pheader_outsize
      /\ w.abuffer = v.abuffer
  BY DEF WriteState
<1>2. InHand(w) /\ w.at # "idle" /\ w.at # "find" /\ v.at # "idle" /\ v.at # "find"
  BY <1>1 DEF InHand
<1>3. PositionOf(s, w) = PositionOf(s, v)
  BY <1>1, <1>2 DEF PositionOf
<1>4. \A h : WritesFrom(s, v, h) => WritesFrom(s, w, h)
  BY <1>1, <1>2, <1>3 DEF WritesFrom
<1>5. \A in, o, p : Delivers(in, v, o, p) => Delivers(in, w, o, p)
  BY <1>1, <1>2 DEF Delivers, OnItsWay
<1>6. \A h, p : Follows(h, v, p) => Follows(h, w, p)
  BY <1>1, <1>2 DEF Follows
<1> QED
  BY <1>1, <1>2, <1>3, <1>4, <1>5, <1>6

\* What look-ups to come are told is among what was decoded.
LEMMA ReadCountIs ==
  ASSUME Typed
  PROVE  ReadCount \in Nat /\ ReadCount <= consumed /\ consumed \in Nat
<1>1. Fed \in Nat /\ consumed \in 0..Fed
  BY FedIs, StartsLemma DEF Typed
<1>2. PICK c \in Nat : c = consumed
  BY <1>1
<1>3. ReadCount \in 0..c
  BY <1>2 DEF ReadCount
<1> QED
  BY <1>2, <1>3

\* And so it is after the step.
LEMMA ReadCountNext ==
  ASSUME Typed'
  PROVE  ReadCount' \in Nat
<1>1. Fed' \in Nat /\ consumed' \in 0..Fed'
  BY FedIsNext, StartsLemma DEF Typed
<1>2. PICK c \in Nat : c = consumed'
  BY <1>1
<1>3. ReadCount' \in 0..c
  BY <1>2 DEF ReadCount
<1> QED
  BY <1>3

\* What one check-in does.
LEMMA CheckInStep ==
  ASSUME NEW tab \in Table, NEW acc, acc \subseteq Entries, NEW o \in Nat, NEW t \in Times,
         RecordedIn(tab, acc), NEW new, new = CheckIn(tab, o, t),
         NEW tab1, tab1 = IF t = NA THEN tab ELSE new,
         NEW acc1, acc1 = IF t = NA \/ new = tab THEN acc
                          ELSE acc \cup {[offset |-> o, pts |-> t]}
  PROVE  /\ tab1 \in Table /\ acc1 \subseteq Entries /\ RecordedIn(tab1, acc1)
         /\ acc1 \subseteq acc \cup {[offset |-> o, pts |-> t]}
         /\ \A c \in Nat : KeptIn(tab, acc, c) => KeptIn(tab1, acc1, c)
<1>1. CASE t = NA
  BY <1>1
<1>2. CASE t # NA
  <2>1. t \in Nat
    BY <1>2 DEF Times
  <2>2. new \in Table
    BY <2>1, CheckInKeeps, 0 \in Nat
  <2>3. CASE new = tab
    BY <1>2, <2>3
  <2>4. CASE new # tab
    <3>1. PICK e : e = [offset |-> o, pts |-> t]
      OBVIOUS
    <3>2. RecordedIn(new, acc \cup {e})
      BY <2>1, <2>4, <3>1, CheckInKeeps, 0 \in Nat
    <3>3. \A c \in Nat : KeptIn(tab, acc, c) => KeptIn(new, acc \cup {e}, c)
      BY <2>1, <2>4, <3>1, CheckInKeeps
    <3>4. e \in Entries
      BY <2>1, <3>1 DEF Entries
    <3>5. tab1 = new /\ acc1 = acc \cup {e}
      BY <1>2, <2>4, <3>1
    <3> QED
      BY <2>2, <3>1, <3>2, <3>3, <3>4, <3>5
  <2> QED
    BY <2>3, <2>4
<1> QED
  BY <1>1, <1>2

\* Its pts is stored at payload_offset, the end of MS12's input.
LEMMA CheckInPtsStep ==
  ASSUME HwInv, CheckInPts
  PROVE  HwInv'
<1>0. /\ Typed /\ WritesFrom(sent, write, pheader) /\ Quiet /\ RecordedIn(pts_tab, accepted)
      /\ ~resent => Follows(pheader, write, Position)
      /\ InStep /\ ~outdated => KeptIn(pts_tab, accepted, ReadCount)
      /\ InStep /\ ~uncounted => Matches(payload_offset, accepted, input, write)
      /\ InStep /\ ~resent =>
           InputSeen(input, Position) /\ Delivers(input, write, origin, Position)
  BY DEF HwInv
<1>1. PICK w : w = [write EXCEPT !.at = "advance"]
  OBVIOUS
<1>2. /\ write.at = "checkin" /\ InHand(write) /\ write' = w
      /\ UNCHANGED <<sent, origin, pheader, payload_offset, uncounted, input, consumed,
                     consume_payload, outdated, flush, mesgs, sends, late, resent>>
  BY <1>1 DEF CheckInPts, InHand, ms12, lookup
<1>3. PICK t \in Times : t = write.abuffer.pts
  BY <1>0, <1>2, PieceFields DEF WritesFrom
<1>4. PICK new, e :
        new = CheckIn(pts_tab, payload_offset, t) /\ e = [offset |-> payload_offset, pts |-> t]
  OBVIOUS
<1>5. /\ pts_tab' = IF t = NA THEN pts_tab ELSE new
      /\ accepted' = IF t = NA \/ new = pts_tab THEN accepted ELSE accepted \cup {e}
  BY <1>3, <1>4 DEF CheckInPts
<1>6. /\ pts_tab' \in Table /\ accepted' \subseteq Entries /\ RecordedIn(pts_tab', accepted')
      /\ accepted' \subseteq accepted \cup {e}
      /\ \A c \in Nat : KeptIn(pts_tab, accepted, c) => KeptIn(pts_tab', accepted', c)
  <2>1. pts_tab \in Table /\ accepted \subseteq Entries /\ payload_offset \in Nat
    BY <1>0 DEF Typed
  <2>2. RecordedIn(pts_tab, accepted)
    BY <1>0
  <2>3. PICK tab1, acc1 : tab1 = pts_tab' /\ acc1 = accepted'
    OBVIOUS
  <2>4. /\ tab1 = IF t = NA THEN pts_tab ELSE new
        /\ acc1 = IF t = NA \/ new = pts_tab THEN accepted
                  ELSE accepted \cup {[offset |-> payload_offset, pts |-> t]}
    BY <1>4, <1>5, <2>3
  <2>5. new = CheckIn(pts_tab, payload_offset, t)
    BY <1>4
  <2>6. /\ tab1 \in Table /\ acc1 \subseteq Entries /\ RecordedIn(tab1, acc1)
        /\ acc1 \subseteq accepted \cup {[offset |-> payload_offset, pts |-> t]}
        /\ \A c \in Nat : KeptIn(pts_tab, accepted, c) => KeptIn(tab1, acc1, c)
    BY <2>1, <2>2, <2>4, <2>5, CheckInStep
  <2> QED
    BY <1>4, <2>3, <2>6
<1>7. /\ w \in WriteState /\ w.at = "advance" /\ w.abuffer = write.abuffer
      /\ PositionOf(sent, w) = PositionOf(sent, write)
      /\ WritesFrom(sent, w, pheader)
      /\ Follows(pheader, write, Position) => Follows(pheader, w, Position)
      /\ Delivers(input, write, origin, Position) => Delivers(input, w, origin, Position)
  <2>1. write \in WriteState /\ "advance" \in {"checkin", "advance", "feed"} /\ InHand(write)
    BY <1>0, <1>2 DEF Typed
  <2>2. WritesFrom(sent, write, pheader)
    BY <1>0
  <2> QED
    BY <1>1, <2>1, <2>2, NextAt
<1>8. Position' = Position
  BY <1>2, <1>7 DEF Position
<1>9. Typed'
  <2>1. Fed' = Fed
    BY <1>2, FedIs, FedIsNext
  <2> QED
    BY <1>0, <1>2, <1>6, <1>7, <2>1 DEF Typed
<1>10. InStep' = InStep /\ ReadCount' = ReadCount /\ ReadCount \in Nat
  <2>1. ReadCount \in Nat
    BY <1>0, ReadCountIs
  <2> QED
    BY <1>2, <2>1 DEF InStep, ReadCount
<1>11. Quiet'
  BY <1>0, <1>2, QuietStays
<1>12. ASSUME Matches(payload_offset, accepted, input, write)
       PROVE  Matches(payload_offset, accepted', input, w)
  <2>1. payload_offset = EndOf(input)
    <3>1. EndOf(input) \in Nat /\ EndOf(input) + 0 = EndOf(input)
      BY <1>0, StartsLemma DEF Typed
    <3> QED
      BY <1>2, <1>12, <3>1 DEF Matches
  <2>2. payload_offset = EndOf(input) + IF w.at = "feed" THEN Len(w.abuffer.body) ELSE 0
    BY <1>2, <1>7, <1>12 DEF Matches
  <2>3. ASSUME NEW r \in accepted'
        PROVE  \/ \E i \in 1..Len(input) : Starts(input, i) = r.offset /\ input[i].pts = r.pts
               \/ /\ w.at \in {"advance", "feed"}
                  /\ r = [offset |-> EndOf(input), pts |-> w.abuffer.pts]
    <3>1. CASE r \in accepted
      BY <1>2, <1>12, <3>1 DEF Matches
    <3>2. CASE r = e
      BY <1>3, <1>4, <1>7, <2>1, <3>2
    <3> QED
      BY <1>6, <3>1, <3>2
  <2> QED
    BY <2>2, <2>3 DEF Matches
<1> QED
  BY <1>0, <1>2, <1>6, <1>7, <1>8, <1>9, <1>10, <1>11, <1>12 DEF HwInv

\* payload_offset moves behind the payload, or the payload is not counted.
LEMMA AdvanceOffsetStep ==
  ASSUME HwInv, AdvanceOffset
  PROVE  HwInv'
<1>0. /\ Typed /\ WritesFrom(sent, write, pheader) /\ Quiet /\ RecordedIn(pts_tab, accepted)
      /\ ~resent => Follows(pheader, write, Position)
      /\ InStep /\ ~outdated => KeptIn(pts_tab, accepted, ReadCount)
      /\ InStep /\ ~uncounted => Matches(payload_offset, accepted, input, write)
      /\ InStep /\ ~resent =>
           InputSeen(input, Position) /\ Delivers(input, write, origin, Position)
  BY DEF HwInv
<1>1. PICK w : w = [write EXCEPT !.at = "feed"]
  OBVIOUS
<1>2. /\ write.at = "advance" /\ InHand(write) /\ write' = w
      /\ UNCHANGED <<sent, origin, pheader, pts_tab, accepted, input, consumed, consume_payload,
                     outdated, flush, mesgs, sends, late, resent>>
  BY <1>1 DEF AdvanceOffset, InHand, ms12, lookup
<1>3. PICK m \in Nat : m = Len(write.abuffer.body)
  BY <1>0, <1>2, PieceFields DEF WritesFrom
<1>4. \/ payload_offset' = payload_offset + m /\ uncounted' = uncounted
      \/ payload_offset' = payload_offset /\ uncounted' = TRUE
  BY <1>3 DEF AdvanceOffset
<1>7. /\ w \in WriteState /\ w.at = "feed" /\ w.abuffer = write.abuffer
      /\ PositionOf(sent, w) = PositionOf(sent, write)
      /\ WritesFrom(sent, w, pheader)
      /\ Follows(pheader, write, Position) => Follows(pheader, w, Position)
      /\ Delivers(input, write, origin, Position) => Delivers(input, w, origin, Position)
  <2>1. write \in WriteState
    BY <1>0 DEF Typed
  <2> QED
    BY <1>0, <1>1, <1>2, <2>1, NextAt
<1>8. Position' = Position
  BY <1>2, <1>7 DEF Position
<1>9. Typed'
  <2>1. Fed' = Fed
    BY <1>2, FedIs, FedIsNext
  <2>2. payload_offset' \in Nat /\ uncounted' \in BOOLEAN
    <3>1. payload_offset \in Nat /\ uncounted \in BOOLEAN
      BY <1>0 DEF Typed
    <3>2. payload_offset + m \in Nat
      BY <3>1
    <3>3. CASE payload_offset' = payload_offset + m /\ uncounted' = uncounted
      BY <3>1, <3>2, <3>3
    <3>4. CASE payload_offset' = payload_offset /\ uncounted' = TRUE
      BY <3>1, <3>4
    <3> QED
      BY <1>4, <3>3, <3>4
  <2> QED
    BY <1>0, <1>2, <1>7, <2>1, <2>2 DEF Typed
<1>10. InStep' = InStep /\ ReadCount' = ReadCount
  BY <1>2 DEF InStep, ReadCount
<1>11. Quiet'
  BY <1>0, <1>2, QuietStays
<1>12. ASSUME Matches(payload_offset, accepted, input, write), payload_offset' = payload_offset + m
       PROVE  Matches(payload_offset', accepted, input, w)
  <2>1. payload_offset = EndOf(input)
    <3>1. EndOf(input) \in Nat /\ EndOf(input) + 0 = EndOf(input)
      BY <1>0, StartsLemma DEF Typed
    <3> QED
      BY <1>2, <1>12, <3>1 DEF Matches
  <2>2. payload_offset' = EndOf(input) + IF w.at = "feed" THEN Len(w.abuffer.body) ELSE 0
    BY <1>3, <1>7, <1>12, <2>1
  <2>3. \A r \in accepted :
          \/ \E i \in 1..Len(input) : Starts(input, i) = r.offset /\ input[i].pts = r.pts
          \/ /\ w.at \in {"advance", "feed"}
             /\ r = [offset |-> EndOf(input), pts |-> w.abuffer.pts]
    BY <1>7, <1>12 DEF Matches
  <2> QED
    BY <2>2, <2>3 DEF Matches
<1> QED
  BY <1>0, <1>2, <1>4, <1>7, <1>8, <1>9, <1>10, <1>11, <1>12 DEF HwInv

\* A payload that is fed arrives before any later one.
LEMMA Arrives ==
  ASSUME NEW in \in Seq(Pieces), NEW x \in Pieces, NEW new, new = Append(in, x),
         NEW p \in Nat, InputSeen(new, p), NEW k \in 1..N, Ends(k) = p,
         x = PayloadOf(k, Payloads[k])
  PROVE  Reached(k, new)
<1>1. PICK n \in Nat : n = Len(in)
  BY LenProperties
<1>2. Len(new) = n + 1 /\ new[n + 1] = x
  <2>1. Extended(in, x, new)
    BY StartsAppend
  <2> QED
    BY <1>1, <2>1 DEF Extended
<1>3. ASSUME NEW l \in 1..N, NEW j \in 1..n + 1, k < l, Payloads[l].size # 0,
             new[j] = PayloadOf(l, Payloads[l])
      PROVE  FALSE
  <2>1. PICK size \in Nat : size = Payloads[l].size /\ size # 0 /\ size <= MaxBody
    BY <1>3, Apart
  <2>2. PICK y, u : y = new[j].body /\ u = [kind |-> "body", of |-> l, at |-> 1]
    OBVIOUS
  <2>3. y = [i \in 1..size |-> [kind |-> "body", of |-> l, at |-> i]]
    BY <1>3, <2>1, <2>2 DEF PayloadOf
  <2>4. 1 \in 1..size
    BY <2>1
  <2>5. y[1] = u /\ u.of = l /\ u.at = 1
    BY <2>2, <2>3, <2>4
  <2>6. Len(y) = size
    BY <2>1, <2>3, LenProperties
  <2>7. AllSeen(y, p)
    BY <1>2, <2>2 DEF InputSeen
  <2>8. Seen(u, p)
    BY <2>4, <2>5, <2>6, <2>7 DEF AllSeen, SeenTo
  <2>9. Begins(l) + 2 + 1 <= p
    BY <2>5, <2>8 DEF Seen
  <2>10. Ends(k) <= Begins(l) /\ Begins(l) \in Nat
    <3>1. k \in Nat /\ l \in Nat
      BY PayloadFields
    <3> QED
      BY <1>3, <3>1, Layout, Apart
  <2> QED
    BY <2>9, <2>10
<1>4. n + 1 \in 1..Len(new)
  BY <1>2
<1>5. \A l \in 1..N : \A j \in 1..n + 1 :
        k < l /\ Payloads[l].size # 0 => new[j] # PayloadOf(l, Payloads[l])
  BY <1>3
<1> QED
  BY <1>2, <1>4, <1>5 DEF Reached

\* What has reached MS12 is still there.
LEMMA StillThere ==
  ASSUME NEW in \in Seq(Pieces), NEW x \in Pieces, NEW new, new = Append(in, x),
         NEW k \in 1..N, Reached(k, in)
  PROVE  Reached(k, new)
<1>1. PICK n \in Nat : n = Len(in)
  BY LenProperties
<1>2. Len(new) = n + 1 /\ \A i \in 1..n : new[i] = in[i]
  <2>1. Extended(in, x, new)
    BY StartsAppend
  <2> QED
    BY <1>1, <2>1 DEF Extended
<1>3. PICK i \in 1..n :
        /\ in[i] = PayloadOf(k, Payloads[k])
        /\ \A l \in 1..N : \A j \in 1..i :
             k < l /\ Payloads[l].size # 0 => in[j] # PayloadOf(l, Payloads[l])
  BY <1>1 DEF Reached
<1>4. i \in 1..n + 1 /\ \A j \in 1..i : j \in 1..n
  OBVIOUS
<1>5. new[i] = PayloadOf(k, Payloads[k])
  BY <1>2, <1>3
<1>6. \A l \in 1..N : \A j \in 1..i :
        k < l /\ Payloads[l].size # 0 => new[j] # PayloadOf(l, Payloads[l])
  BY <1>2, <1>3, <1>4
<1> QED
  BY <1>2, <1>4, <1>5, <1>6 DEF Reached

\* The end of a turn: the next begins, or the write returns.
TurnOver(s, v, cost, more, w, s1) ==
  /\ cost = v.bytes_cost + v.pheader_cost
  /\ w = IF more THEN [v EXCEPT !.at = "find", !.bytes_cost = cost] ELSE NoWrite
  /\ s1 = IF more THEN s ELSE s + cost

\* A turn of out_write_new() ends where its parser stopped.
LEMMA TurnEnds ==
  ASSUME NEW s \in Nat, NEW v \in WriteState, InHand(v), NEW h \in HeaderState,
         WritesFrom(s, v, h), NEW more \in BOOLEAN,
         NEW cost \in Nat, NEW w, NEW s1,
         TurnOver(s, v, cost, more, w, s1)
  PROVE  /\ w \in WriteState /\ w.at \in {"idle", "find"} /\ ~InHand(w)
         /\ s1 \in Nat /\ s <= s1 /\ s1 <= Total
         /\ PositionOf(s1, w) = PositionOf(s, v) /\ WritesFrom(s1, w, h)
         /\ \A p : Follows(h, v, p) => Follows(h, w, p)
<1>1. PICK m \in Nat, c \in Nat, t \in Nat : m = Len(v.buffer) /\ c = cost /\ t = Total
  BY WriteFields, Apart
<1>2. v.at # "idle" /\ v.at # "find"
  BY DEF InHand
<1>3. PositionOf(s, v) = s + c
  BY <1>1, <1>2 DEF PositionOf, TurnOver
<1>4. s + m <= t /\ s + c <= s + m /\ \A i \in 1..m : v.buffer[i] = Stream[s + i]
  BY <1>1, <1>3 DEF WritesFrom
<1>5. CASE more
  <2>1. w = [v EXCEPT !.at = "find", !.bytes_cost = c] /\ s1 = s
    BY <1>1, <1>5 DEF TurnOver
  <2>2. /\ w \in WriteState /\ w.at = "find" /\ w.bytes_cost = c /\ w.buffer = v.buffer
        /\ w.pheader_outsize = v.pheader_outsize
    BY <2>1 DEF WriteState
  <2>3. ~InHand(w) /\ PositionOf(s, w) = s + c
    BY <2>2 DEF InHand, PositionOf
  <2>4. WritesFrom(s, w, h)
    BY <1>3, <2>2, <2>3 DEF WritesFrom
  <2>4a. \A p : Follows(h, v, p) => Follows(h, w, p)
    BY <2>2, <2>3 DEF Follows
  <2>5. s <= t
    BY <1>4
  <2> QED
    BY <1>1, <1>3, <2>1, <2>2, <2>3, <2>4, <2>4a, <2>5
<1>6. CASE ~more
  <2>1. w = NoWrite /\ s1 = s + c
    BY <1>1, <1>6 DEF TurnOver
  <2>2. s1 \in Nat /\ s <= s1 /\ s1 <= t
    BY <1>4, <2>1
  <2>3. w \in WriteState /\ w.at = "idle" /\ ~InHand(w) /\ PositionOf(s1, w) = s1
    BY <2>1, <2>2, NoWriteIs
  <2>4. WritesFrom(s1, w, h)
    <3>1. Len(<<>>) = 0 /\ s1 + 0 = s1 /\ s1 <= s1
      BY <2>2
    <3>2. w.buffer = <<>> /\ w.pheader_outsize = 0
      BY <2>1, NoWriteIs
    <3>3. Len(h.hw_sync_body_buf) \in Nat
      BY HeaderFields
    <3>4. 0 <= Len(h.hw_sync_body_buf)
      BY <3>3
    <3> QED
      BY <1>1, <2>1, <2>2, <2>3, <3>1, <3>2, <3>4 DEF WritesFrom
  <2>5. \A p : Follows(h, v, p) => Follows(h, w, p)
    BY <2>1, NoWriteIs DEF Follows, SeenTo
  <2> QED
    BY <1>1, <1>3, <2>1, <2>2, <2>3, <2>4, <2>5
<1> QED
  BY <1>5, <1>6

\* The payload reaches MS12: what was on its way is now in its input.
LEMMA FeedMs12Step ==
  ASSUME HwInv, FeedMs12
  PROVE  HwInv'
<1>0. /\ Typed /\ WritesFrom(sent, write, pheader) /\ Quiet /\ RecordedIn(pts_tab, accepted)
      /\ ~resent => Follows(pheader, write, Position)
      /\ InStep /\ ~outdated => KeptIn(pts_tab, accepted, ReadCount)
      /\ InStep /\ ~uncounted => Matches(payload_offset, accepted, input, write)
      /\ InStep /\ ~resent =>
           InputSeen(input, Position) /\ Delivers(input, write, origin, Position)
  BY DEF HwInv
<1>1. PICK v \in WriteState, s \in Nat, x \in Pieces : v = write /\ s = sent /\ x = write.abuffer
  <2>1. write.at = "feed"
    BY DEF FeedMs12
  <2>2. write \in WriteState /\ sent \in Nat /\ write.abuffer \in Pieces
    BY <1>0, <2>1, Apart DEF Typed, WritesFrom, InHand
  <2> QED
    BY <2>2
<1>2. PICK cost \in Nat : cost = v.bytes_cost + v.pheader_cost
  <2>1. v.bytes_cost + v.pheader_cost \in Nat
    BY WriteFields
  <2> QED
    BY <2>1
<1>3. PICK more \in BOOLEAN : more = (cost < Len(write.buffer) /\ ~Dts)
  OBVIOUS
<1>4. PICK w, s1 : TurnOver(s, v, cost, more, w, s1)
  BY <1>2 DEF TurnOver
<1>5. v = write /\ s = sent /\ x = write.abuffer
  BY <1>1
<1>6. v.at = "feed" /\ InHand(v)
  BY <1>5 DEF FeedMs12, InHand
<1>7. /\ input' = Append(input, x) /\ sent' = s1 /\ write' = w
      /\ UNCHANGED <<origin, pheader, pts_tab, payload_offset, accepted, uncounted, consumed,
                     consume_payload, outdated, flush, mesgs, sends, late, resent>>
  BY <1>5, <1>2, <1>3, <1>4 DEF FeedMs12, ctx, lookup, TurnOver
<1>8. /\ w \in WriteState /\ w.at \in {"idle", "find"} /\ ~InHand(w)
      /\ s1 \in Nat /\ s <= s1 /\ s1 <= Total
      /\ PositionOf(s1, w) = PositionOf(s, v) /\ WritesFrom(s1, w, pheader)
      /\ \A q : Follows(pheader, v, q) => Follows(pheader, w, q)
  <2>1. pheader \in HeaderState /\ WritesFrom(s, v, pheader)
    BY <1>0, <1>5 DEF Typed, Sound
  <2> QED
    BY <1>6, <1>4, <2>1, TurnEnds
<1>9. PICK p \in Nat : p = Position /\ p = PositionOf(s, v) /\ Position' = p
  BY <1>5, <1>7, <1>8, PositionIs DEF Position
<1>10. PICK in, new : in \in Seq(Pieces) /\ in = input /\ new = Append(in, x) /\ new = input'
  BY <1>0, <1>7 DEF Typed
<1>11. PICK n \in Nat, e \in Nat, m \in Nat : n = Len(in) /\ e = EndOf(in) /\ m = Len(x.body)
  BY <1>10, StartsLemma, PieceFields
<1>12. /\ new \in Seq(Pieces) /\ Len(new) = n + 1 /\ new[n + 1] = x
       /\ \A i \in 1..n : new[i] = in[i]
       /\ \A i \in 1..n + 1 : Starts(new, i) = Starts(in, i)
       /\ EndOf(new) = e + m
  <2>1. Extended(in, x, new)
    BY <1>10, StartsAppend
  <2> QED
    BY <1>11, <2>1 DEF Extended
<1>13. Typed'
  <2>1. consumed' \in 0..Fed'
    <3>1. consumed \in 0..e
      BY <1>0, <1>10, <1>11, FedIs DEF Typed
    <3>2. consumed \in 0..e + m
      BY <3>1
    <3>3. Fed' = e + m
      BY <1>10, <1>12, FedIsNext
    <3> QED
      BY <1>7, <3>2, <3>3
  <2>2. s1 \in 0..Total /\ origin \in 0..s1
    <3>1. origin \in 0..s /\ Total \in Nat
      BY <1>0, <1>5, Apart DEF Typed
    <3> QED
      BY <1>8, <3>1
  <2> QED
    BY <1>0, <1>7, <1>8, <1>10, <1>12, <2>1, <2>2 DEF Typed
<1>14. InStep' = InStep /\ ReadCount' = ReadCount
  BY <1>7 DEF InStep, ReadCount
<1>15. Quiet'
  BY <1>0, <1>5, <1>6, <1>7, QuietStays
<1>16. ASSUME Follows(pheader, v, p), InputSeen(in, p)
       PROVE  InputSeen(new, p)
  <2> SUFFICES ASSUME NEW i \in 1..Len(new) PROVE AllSeen(new[i].body, p)
    BY DEF InputSeen
  <2>1. CASE i = n + 1
    BY <1>5, <1>6, <1>12, <1>16, <2>1 DEF Follows
  <2>2. CASE i # n + 1
    <3>1. i \in 1..n
      BY <1>12, <2>2
    <3> QED
      BY <1>11, <1>12, <1>16, <3>1 DEF InputSeen
  <2> QED
    BY <2>1, <2>2
<1>17. ASSUME InputSeen(new, p), Delivers(in, v, origin, p), NEW k \in 1..N, Due(k, origin, p)
       PROVE  Reached(k, new)
  <2>1. CASE OnItsWay(k, v, p)
    <3>1. Ends(k) = p /\ x = PayloadOf(k, Payloads[k])
      BY <1>5, <2>1 DEF OnItsWay
    <3> QED
      BY <1>10, <1>17, <3>1, Arrives
  <2>2. CASE Reached(k, in)
    BY <1>10, <2>2, StillThere
  <2> QED
    BY <1>17, <2>1, <2>2 DEF Delivers
<1>18. InputSeen(new, p) /\ Delivers(in, v, origin, p) => Delivers(new, w, origin, p)
  BY <1>17 DEF Delivers
<1>19. ASSUME Matches(payload_offset, accepted, in, v)
       PROVE  Matches(payload_offset, accepted, new, w)
  <2>1. payload_offset = e + m
    BY <1>5, <1>6, <1>11, <1>19 DEF Matches
  <2>2. payload_offset = EndOf(new) + IF w.at = "feed" THEN Len(w.abuffer.body) ELSE 0
    <3>1. w.at # "feed" /\ e + m + 0 = e + m
      BY <1>8
    <3> QED
      BY <1>12, <2>1, <3>1
  <2>3. ASSUME NEW r \in accepted
        PROVE  \E i \in 1..Len(new) : Starts(new, i) = r.offset /\ new[i].pts = r.pts
    <3>1. CASE \E i \in 1..n : Starts(in, i) = r.offset /\ in[i].pts = r.pts
      <4>1. PICK i \in 1..n : Starts(in, i) = r.offset /\ in[i].pts = r.pts
        BY <3>1
      <4>2. i \in 1..n + 1
        OBVIOUS
      <4> QED
        BY <1>12, <4>1, <4>2
    <3>2. CASE r = [offset |-> e, pts |-> x.pts]
      <4>1. n + 1 \in 1..n + 1 /\ Starts(in, n + 1) = e
        BY <1>11 DEF EndOf
      <4>2. Starts(new, n + 1) = r.offset /\ new[n + 1].pts = r.pts
        BY <1>12, <3>2, <4>1
      <4> QED
        BY <1>12, <4>1, <4>2
    <3>3. \/ \E i \in 1..Len(in) : Starts(in, i) = r.offset /\ in[i].pts = r.pts
          \/ r = [offset |-> EndOf(in), pts |-> v.abuffer.pts]
      BY <1>19 DEF Matches
    <3> QED
      BY <1>5, <1>11, <3>1, <3>2, <3>3
  <2> QED
    BY <2>2, <2>3 DEF Matches
<1>20. /\ ~resent => Follows(pheader, v, p)
       /\ InStep /\ ~uncounted => Matches(payload_offset, accepted, in, v)
       /\ InStep /\ ~resent => InputSeen(in, p) /\ Delivers(in, v, origin, p)
  BY <1>0, <1>5, <1>9, <1>10
<1>21. /\ ~resent => Follows(pheader, w, p)
       /\ InStep /\ ~uncounted => Matches(payload_offset, accepted, new, w)
       /\ InStep /\ ~resent => InputSeen(new, p) /\ Delivers(new, w, origin, p)
  BY <1>8, <1>16, <1>18, <1>19, <1>20
<1>22. WritesFrom(s1, w, pheader)
  BY <1>8
<1> QED
  BY <1>0, <1>7, <1>9, <1>10, <1>13, <1>14, <1>15, <1>21, <1>22 DEF HwInv

\* MS12 decodes: the offset of the next look-up only grows.
LEMMA DecodeStep ==
  ASSUME HwInv, Decode
  PROVE  HwInv'
<1>0. /\ Typed /\ WritesFrom(sent, write, pheader) /\ Quiet /\ RecordedIn(pts_tab, accepted)
      /\ ~resent => Follows(pheader, write, Position)
      /\ InStep /\ ~outdated => KeptIn(pts_tab, accepted, ReadCount)
      /\ InStep /\ ~uncounted => Matches(payload_offset, accepted, input, write)
      /\ InStep /\ ~resent =>
           InputSeen(input, Position) /\ Delivers(input, write, origin, Position)
  BY DEF HwInv
<1>1. /\ consumed < Fed /\ consumed' = consumed + 1
      /\ UNCHANGED <<sent, origin, pheader, write, pts_tab, payload_offset, accepted, uncounted,
                     input, consume_payload, outdated, flush, mesgs, sends, late, resent>>
  BY DEF Decode, ctx, lookup
<1>2. PICK c \in Nat, e \in Nat : c = consumed /\ e = Fed /\ c < e
  <2>1. Fed \in Nat /\ consumed \in 0..Fed
    BY <1>0, FedIs, StartsLemma DEF Typed
  <2> QED
    BY <1>1, <2>1
<1>3. consumed' = c + 1 /\ c + 1 \in 0..e /\ Fed' = e /\ consumed' \in 0..Fed'
  <2>1. Fed' = Fed
    BY <1>1, FedIs, FedIsNext
  <2>2. c + 1 \in 0..e
    BY <1>2
  <2> QED
    BY <1>1, <1>2, <2>1, <2>2
<1>4. Typed'
  BY <1>0, <1>1, <1>3 DEF Typed
<1>5. InStep' = InStep /\ Position' = Position
  BY <1>1 DEF InStep, Position
<1>6. Quiet'
  <2>1. ~(flush = "wait" /\ mesgs = 0)
    <3>1. SUFFICES ASSUME flush = "wait", mesgs = 0 PROVE FALSE
      OBVIOUS
    <3>2. input = <<>>
      BY <1>0, <3>1 DEF Quiet
    <3>3. Fed = 0
      BY <3>2, FedIs, StartsEmpty
    <3> QED
      BY <1>2, <3>3
  <2> QED
    BY <1>0, <1>1, <2>1 DEF Quiet
<1>7. ASSUME KeptIn(pts_tab, accepted, ReadCount) PROVE KeptIn(pts_tab, accepted, ReadCount')
  <2>1. ReadCount \in Nat /\ ReadCount' \in Nat
    BY <1>0, <1>4, ReadCountIs, ReadCountNext
  <2>2. ReadCount <= ReadCount'
    <3>1. PICK x \in Int : x = consume_payload
      BY <1>0 DEF Typed
    <3>2. ReadCount = IF x \in 0..c THEN x ELSE c
      BY <1>2, <3>1 DEF ReadCount
    <3>3. ReadCount' = IF x \in 0..c + 1 THEN x ELSE c + 1
      BY <1>1, <1>3, <3>1 DEF ReadCount
    <3>4. (IF x \in 0..c THEN x ELSE c) <= IF x \in 0..c + 1 THEN x ELSE c + 1
      OBVIOUS
    <3> QED
      BY <3>2, <3>3, <3>4
  <2>3. pts_tab \in Table
    BY <1>0 DEF Typed
  <2> QED
    BY <1>7, <2>1, <2>2, <2>3, KeptLater
<1> QED
  BY <1>0, <1>1, <1>2, <1>3, <1>4, <1>5, <1>6, <1>7 DEF HwInv

\* The callback reads how much was decoded: a look-up there is to come.
LEMMA ReadConsumedStep ==
  ASSUME HwInv, ReadConsumed
  PROVE  HwInv'
<1>0. /\ Typed /\ WritesFrom(sent, write, pheader) /\ Quiet /\ RecordedIn(pts_tab, accepted)
      /\ ~resent => Follows(pheader, write, Position)
      /\ InStep /\ ~outdated => KeptIn(pts_tab, accepted, ReadCount)
      /\ InStep /\ ~uncounted => Matches(payload_offset, accepted, input, write)
      /\ InStep /\ ~resent =>
           InputSeen(input, Position) /\ Delivers(input, write, origin, Position)
  BY DEF HwInv
<1>1. /\ consume_payload = -1 /\ consume_payload' = consumed
      /\ UNCHANGED <<sent, origin, pheader, write, pts_tab, payload_offset, accepted, uncounted,
                     input, consumed, outdated, flush, mesgs, sends, late, resent>>
  BY DEF ReadConsumed, ctx, ms12
<1>2. PICK c \in Nat : c = consumed
  BY <1>0, ReadCountIs
<1>3. ReadCount' = ReadCount
  <2>1. ~(-1 \in 0..c) /\ c \in 0..c
    BY <1>2
  <2> QED
    BY <1>1, <1>2, <2>1 DEF ReadCount
<1>4. Typed'
  <2>1. Fed' = Fed
    BY <1>1, FedIs, FedIsNext
  <2> QED
    BY <1>0, <1>1, <1>2, <2>1 DEF Typed
<1>5. InStep' = InStep /\ Position' = Position
  BY <1>1 DEF InStep, Position
<1>6. Quiet'
  BY <1>0, <1>1 DEF Quiet
<1> QED
  BY <1>0, <1>1, <1>3, <1>4, <1>5, <1>6 DEF HwInv

\* A look-up gives up only records below the one it found; if it was told more than
\* MS12 has decoded, this is recorded.
LEMMA LookUpStep ==
  ASSUME HwInv, LookUp
  PROVE  HwInv'
<1>0. /\ Typed /\ WritesFrom(sent, write, pheader) /\ Quiet /\ RecordedIn(pts_tab, accepted)
      /\ ~resent => Follows(pheader, write, Position)
      /\ InStep /\ ~outdated => KeptIn(pts_tab, accepted, ReadCount)
      /\ InStep /\ ~uncounted => Matches(payload_offset, accepted, input, write)
      /\ InStep /\ ~resent =>
           InputSeen(input, Position) /\ Delivers(input, write, origin, Position)
  BY DEF HwInv
<1>1. /\ consume_payload # -1 /\ consume_payload' = -1
      /\ pts_tab' = AfterLookup(pts_tab, consume_payload)
      /\ outdated' = (outdated \/ consume_payload > consumed)
      /\ UNCHANGED <<sent, origin, pheader, write, payload_offset, accepted, uncounted,
                     input, consumed, flush, mesgs, sends, late, resent>>
  BY DEF LookUp, ms12
<1>2. PICK c \in Nat, o \in Nat : c = consumed /\ o = consume_payload
  <2>1. consumed \in Nat
    BY <1>0, ReadCountIs
  <2>2. consume_payload \in Nat
    BY <1>0, <1>1 DEF Typed
  <2> QED
    BY <2>1, <2>2
<1>3. PICK new : new = AfterLookup(pts_tab, o) /\ pts_tab' = new
  BY <1>1, <1>2
<1>4. /\ new \in Table /\ RecordedIn(new, accepted)
      /\ KeptIn(pts_tab, accepted, o) => KeptIn(new, accepted, o)
  <2>1. pts_tab \in Table /\ accepted \subseteq Entries
    BY <1>0 DEF Typed
  <2>2. RecordedIn(pts_tab, accepted)
    BY <1>0
  <2> QED
    BY <1>3, <2>1, <2>2, LookupKeeps
<1>5. Typed'
  <2>1. Fed' = Fed
    BY <1>1, FedIs, FedIsNext
  <2>2. outdated' \in BOOLEAN
    BY <1>0, <1>1 DEF Typed
  <2> QED
    BY <1>0, <1>1, <1>3, <1>4, <2>1, <2>2 DEF Typed
<1>6. InStep' = InStep /\ Position' = Position
  BY <1>1 DEF InStep, Position
<1>7. Quiet'
  BY <1>0, <1>1 DEF Quiet
<1>8. ASSUME InStep', ~outdated'
      PROVE  KeptIn(new, accepted, ReadCount')
  <2>1. ~outdated /\ o <= c
    <3>1. ~outdated /\ ~(consume_payload > consumed)
      BY <1>1, <1>8, Zenon
    <3> QED
      BY <1>2, <3>1
  <2>2. ReadCount = o
    <3>1. o \in 0..c
      BY <2>1
    <3> QED
      BY <1>2, <3>1 DEF ReadCount
  <2>3. KeptIn(new, accepted, o)
    BY <1>0, <1>4, <1>6, <1>8, <2>1, <2>2
  <2>4. ReadCount' = c
    <3>1. ~(-1 \in 0..c)
      OBVIOUS
    <3> QED
      BY <1>1, <1>2, <3>1 DEF ReadCount
  <2> QED
    BY <1>4, <2>1, <2>3, <2>4, KeptLater
<1> QED
  BY <1>0, <1>1, <1>3, <1>4, <1>5, <1>6, <1>7, <1>8 DEF HwInv

\* Where a payload's header begins, the parser is not in a payload.
LEMMA AtHeader ==
  ASSUME NEW i \in 0..(Total - 1), Stream[i + 1].kind = "version"
  PROVE  \A k \in 1..N : i <= Begins(k) \/ Ends(k) <= i
<1>1. Stream[i + 1] # [kind |-> "junk"]
  OBVIOUS
<1>2. PICK k \in 1..N : Begins(k) <= i /\ i < Ends(k)
  BY <1>1, Contents
<1>3. PICK b \in Nat, e \in Nat, size \in Nat, j \in Nat :
        /\ b = Begins(k) /\ e = Ends(k) /\ size = Payloads[k].size /\ e = b + 2 + size
        /\ b <= j /\ j < e /\ j = i
  <2>1. i \in Nat
    BY Apart
  <2> QED
    BY <1>2, <2>1, Apart
<1>4. CASE j = b + 1
  <2>1. j + 1 = b + 2
    BY <1>4
  <2>2. Stream[Begins(k) + 2] = [kind |-> "info", size |-> Payloads[k].size,
                                 pts |-> Payloads[k].pts]
    BY Contents
  <2>3. Stream[i + 1] = [kind |-> "info", size |-> Payloads[k].size, pts |-> Payloads[k].pts]
    BY <1>3, <2>1, <2>2
  <2>4. Stream[i + 1].kind = "info"
    BY <2>3
  <2> QED
    BY <2>4
<1>5. CASE b + 1 < j
  <2>1. PICK m \in 1..size : j + 1 = b + 2 + m
    <3>1. j + 1 - b - 2 \in 1..size /\ j + 1 = b + 2 + (j + 1 - b - 2)
      BY <1>3, <1>5
    <3> QED
      BY <3>1
  <2>2. Stream[Begins(k) + 2 + m] = [kind |-> "body", of |-> k, at |-> m]
    BY <1>3, Contents
  <2>3. Stream[i + 1] = [kind |-> "body", of |-> k, at |-> m]
    BY <1>3, <2>1, <2>2
  <2>4. Stream[i + 1].kind = "body"
    BY <2>3
  <2> QED
    BY <2>4
<1>6. CASE j = b
  BY <1>3, <1>6, Apart
<1> QED
  BY <1>3, <1>4, <1>5, <1>6

\* A flush empties the table; the message that empties MS12 is pending.
LEMMA StartFlushStep ==
  ASSUME HwInv, StartFlush
  PROVE  HwInv'
<1>0. /\ Typed /\ WritesFrom(sent, write, pheader) /\ Quiet /\ RecordedIn(pts_tab, accepted)
      /\ ~resent => Follows(pheader, write, Position)
      /\ InStep /\ ~outdated => KeptIn(pts_tab, accepted, ReadCount)
      /\ InStep /\ ~uncounted => Matches(payload_offset, accepted, input, write)
      /\ InStep /\ ~resent =>
           InputSeen(input, Position) /\ Delivers(input, write, origin, Position)
  BY DEF HwInv
<1>1. PICK i, h, tab :
        /\ i \in Headers
        /\ i >= sent /\ sent' = i /\ origin' = i
        /\ h = ResetHeader(pheader) /\ pheader' = h
        /\ tab = [j \in 1..AptsNum |-> Free] /\ pts_tab' = tab /\ payload_offset' = 0
        /\ accepted' = {} /\ uncounted' = FALSE /\ resent' = FALSE /\ outdated' = FALSE
        /\ write.at = "idle" /\ flush = "none" /\ sends < MaxFlushes
        /\ flush' = "wait" /\ mesgs' = mesgs + 1 /\ sends' = sends + 1
        /\ UNCHANGED <<write, input, consumed, consume_payload, late>>
  BY DEF StartFlush, ms12
<1>2. i \in 0..(Total - 1) /\ Stream[i + 1].kind = "version" /\ i \in Nat /\ i \in 0..Total
      /\ sent \in Nat /\ sent <= i
  BY <1>0, <1>1, Apart DEF Headers, Total, Typed
<1>3. write = NoWrite
  BY <1>0, <1>1 DEF WritesFrom
<1>4. Position' = i /\ PositionOf(i, write) = i
  BY <1>1, <1>2, <1>3, NoWriteIs DEF Position
<1>5. PICK g \in HeaderState : g = pheader
  BY <1>0 DEF Typed, Sound
<1>6. h \in HeaderState /\ h.hw_sync_state = "header" /\ h.hw_sync_header_cnt = 0
  <2>1. 0 \in 0..1 /\ 0 \in 0..MaxBody
    BY PayloadFields
  <2> QED
    BY <1>1, <1>5, <2>1 DEF ResetHeader, HeaderState
<1>7. Sound(h) /\ Follows(h, write, i)
  <2>1. Parsed(h, i)
    BY <1>2, <1>6, AtHeader DEF Parsed
  <2>2. write.pheader_outsize = 0 /\ ~InHand(write)
    BY <1>3, NoWriteIs
  <2> QED
    BY <1>6, <2>1, <2>2 DEF Sound, Follows, SeenTo
<1>8. WritesFrom(i, write, h)
  <2>1. Len(<<>>) = 0 /\ i + 0 = i /\ i <= i /\ i <= Total
    BY <1>2, Apart
  <2>2. Len(h.hw_sync_body_buf) \in Nat
    BY <1>6, HeaderFields
  <2>3. 0 <= Len(h.hw_sync_body_buf)
    BY <2>2
  <2> QED
    BY <1>3, <1>4, <2>1, <2>3, NoWriteIs DEF WritesFrom
<1>9. tab \in Table /\ \A j \in 1..AptsNum : ~tab[j].valid
  BY <1>1 DEF Free, Table, Records
<1>10. Typed'
  <2>1. Fed' = Fed
    BY <1>1, FedIs, FedIsNext
  <2>2. /\ mesgs + 1 \in 0..MaxFlushes /\ sends + 1 \in 0..MaxFlushes /\ mesgs + 1 <= sends + 1
    <3>1. MaxFlushes \in Nat /\ mesgs \in 0..MaxFlushes /\ sends \in 0..MaxFlushes /\ mesgs <= sends
      BY <1>0, HwSyncAssumption DEF Typed
    <3> QED
      BY <1>1, <3>1
  <2>3. i \in 0..i
    BY <1>2
  <2> QED
    BY <1>0, <1>1, <1>2, <1>7, <1>9, <2>1, <2>2, <2>3 DEF Typed
<1>11. ~InStep'
  <2>1. mesgs \in Nat
    BY <1>0, HwSyncAssumption DEF Typed
  <2>2. mesgs' # 0
    BY <1>1, <2>1
  <2> QED
    BY <2>2 DEF InStep
<1>12. Quiet'
  <2>1. mesgs' # 0
    <3>1. mesgs \in Nat
      BY <1>0, HwSyncAssumption DEF Typed
    <3> QED
      BY <1>1, <3>1
  <2> QED
    BY <1>1, <2>1 DEF Quiet
<1>13. RecordedIn(tab, {})
  BY <1>9 DEF RecordedIn
<1> QED
  BY <1>1, <1>4, <1>7, <1>8, <1>10, <1>11, <1>12, <1>13 DEF HwInv

\* MS12 is emptied; if no write came before, the table is empty, too.
LEMMA HandleFlushStep ==
  ASSUME HwInv, HandleFlush
  PROVE  HwInv'
<1>0. /\ Typed /\ WritesFrom(sent, write, pheader) /\ Quiet /\ RecordedIn(pts_tab, accepted)
      /\ ~resent => Follows(pheader, write, Position)
      /\ InStep /\ ~outdated => KeptIn(pts_tab, accepted, ReadCount)
      /\ InStep /\ ~uncounted => Matches(payload_offset, accepted, input, write)
      /\ InStep /\ ~resent =>
           InputSeen(input, Position) /\ Delivers(input, write, origin, Position)
  BY DEF HwInv
<1>1. /\ mesgs > 0 /\ mesgs' = mesgs - 1 /\ input' = <<>> /\ consumed' = 0
      /\ UNCHANGED <<sent, origin, pheader, write, pts_tab, payload_offset, accepted, uncounted,
                     consume_payload, outdated, flush, sends, late, resent>>
  BY DEF HandleFlush, ctx, lookup
<1>2. mesgs \in Nat /\ mesgs \in 0..MaxFlushes /\ sends \in Nat /\ MaxFlushes \in Nat
      /\ mesgs <= sends
  BY <1>0, HwSyncAssumption DEF Typed
<1>3. Position' = Position
  BY <1>1 DEF Position
<1>4. Typed'
  <2>1. Fed' = 0 /\ <<>> \in Seq(Pieces) /\ 0 \in 0..0
    BY <1>1, FedIsNext, StartsEmpty
  <2>2. mesgs' \in 0..MaxFlushes /\ mesgs' <= sends
    BY <1>1, <1>2
  <2> QED
    BY <1>0, <1>1, <2>1, <2>2 DEF Typed
<1>5. Quiet'
  <2>1. mesgs' > 0 => mesgs > 0
    BY <1>1
  <2>2. flush' = "wait" \/ (~late' /\ mesgs' > 0) => flush = "wait" \/ (~late /\ mesgs > 0)
    BY <1>1, <2>1
  <2> QED
    BY <1>0, <1>1, <2>2 DEF Quiet
<1>6. ASSUME InStep'
      PROVE  /\ KeptIn(pts_tab, accepted, ReadCount')
             /\ Matches(payload_offset, accepted, <<>>, write)
             /\ Delivers(<<>>, write, origin, Position)
  <2>1. ~late /\ mesgs > 0
    BY <1>1, <1>6 DEF InStep
  <2>2. write.at = "idle" /\ sent = origin /\ payload_offset = 0 /\ accepted = {}
    BY <1>0, <2>1 DEF Quiet
  <2>3. sent \in Nat /\ write = NoWrite
    BY <1>0, <2>2, Apart DEF Typed, WritesFrom
  <2>4. Position = origin
    BY <2>2, <2>3, NoWriteIs DEF Position
  <2>5. /\ KeptIn(pts_tab, {}, ReadCount') /\ Matches(0, {}, <<>>, write)
        /\ Delivers(<<>>, write, origin, origin)
    BY <2>2, <2>3, BothAnew
  <2> QED
    BY <2>2, <2>4, <2>5
<1>7. InputSeen(<<>>, Position)
  BY StartsEmpty DEF InputSeen
<1> QED
  BY <1>0, <1>1, <1>3, <1>4, <1>5, <1>6, <1>7 DEF HwInv

\* The wait of a flush ends.
LEMMA EndFlushStep ==
  ASSUME HwInv, EndFlush
  PROVE  HwInv'
<1>0. /\ Typed /\ WritesFrom(sent, write, pheader) /\ Quiet /\ RecordedIn(pts_tab, accepted)
      /\ ~resent => Follows(pheader, write, Position)
      /\ InStep /\ ~outdated => KeptIn(pts_tab, accepted, ReadCount)
      /\ InStep /\ ~uncounted => Matches(payload_offset, accepted, input, write)
      /\ InStep /\ ~resent =>
           InputSeen(input, Position) /\ Delivers(input, write, origin, Position)
  BY DEF HwInv
<1>1. /\ flush = "wait" /\ flush' = "none" /\ late' = (late /\ mesgs > 0)
      /\ UNCHANGED <<sent, origin, pheader, write, pts_tab, payload_offset, accepted, uncounted,
                     input, consumed, consume_payload, outdated, mesgs, sends, resent>>
  BY DEF EndFlush, ctx, ms12, lookup
<1>2. write.at = "idle" /\ sent = origin /\ payload_offset = 0 /\ accepted = {} /\ uncounted = FALSE
  BY <1>0, <1>1 DEF Quiet
<1>3. sent \in Nat /\ write = NoWrite
  BY <1>0, <1>2, Apart DEF Typed, WritesFrom
<1>4. Position = origin /\ Position' = Position
  BY <1>1, <1>2, <1>3, NoWriteIs DEF Position
<1>5. Typed'
  <2>1. late' \in BOOLEAN
    BY <1>1
  <2>2. Fed' = Fed
    BY <1>1, FedIs, FedIsNext
  <2> QED
    BY <1>0, <1>1, <2>1, <2>2 DEF Typed
<1>6. Quiet'
  BY <1>1, <1>2 DEF Quiet
<1>7. ASSUME InStep'
      PROVE  /\ KeptIn(pts_tab, accepted, ReadCount') /\ InputSeen(input, Position)
             /\ Matches(payload_offset, accepted, input, write)
             /\ Delivers(input, write, origin, Position)
  <2>1. mesgs = 0
    BY <1>1, <1>7 DEF InStep
  <2>2. input = <<>>
    BY <1>0, <1>1, <2>1 DEF Quiet
  <2>3. /\ KeptIn(pts_tab, {}, ReadCount') /\ Matches(0, {}, <<>>, write)
        /\ Delivers(<<>>, write, origin, origin)
    BY <1>2, <1>3, BothAnew
  <2>4. InputSeen(<<>>, Position)
    BY StartsEmpty DEF InputSeen
  <2> QED
    BY <1>2, <1>4, <2>2, <2>3, <2>4
<1> QED
  BY <1>0, <1>1, <1>4, <1>5, <1>6, <1>7 DEF HwInv

\* Nothing changes.
LEMMA StutterStep ==
  ASSUME HwInv, UNCHANGED vars
  PROVE  HwInv'
<1>0. /\ Typed /\ WritesFrom(sent, write, pheader) /\ Quiet /\ RecordedIn(pts_tab, accepted)
      /\ ~resent => Follows(pheader, write, Position)
      /\ InStep /\ ~outdated => KeptIn(pts_tab, accepted, ReadCount)
      /\ InStep /\ ~uncounted => Matches(payload_offset, accepted, input, write)
      /\ InStep /\ ~resent =>
           InputSeen(input, Position) /\ Delivers(input, write, origin, Position)
  BY DEF HwInv
<1>1. UNCHANGED <<sent, origin, pheader, write, pts_tab, payload_offset, accepted, uncounted, input,
                  consumed, consume_payload, outdated, flush, mesgs, sends, late, resent>>
  BY DEF vars, ctx, ms12, lookup
<1>2. Position' = Position /\ InStep' = InStep /\ ReadCount' = ReadCount
  BY <1>1 DEF Position, InStep, ReadCount
<1>3. Typed'
  <2>1. Fed' = Fed
    BY <1>1, FedIs, FedIsNext
  <2> QED
    BY <1>0, <1>1, <2>1 DEF Typed
<1>4. Quiet'
  BY <1>0, <1>1 DEF Quiet
<1> QED
  BY <1>0, <1>1, <1>2, <1>3, <1>4 DEF HwInv

----------------------------------------------------------------------------
(* The theorems.                                                            *)

\* The invariant holds at first.
LEMMA InitInv == Init => HwInv
<1> SUFFICES ASSUME Init PROVE HwInv
  OBVIOUS
<1>1. /\ sent = 0 /\ origin = 0 /\ pheader = FreshHeader /\ write = NoWrite
      /\ pts_tab = [i \in 1..AptsNum |-> Free] /\ payload_offset = 0
      /\ input = <<>> /\ consumed = 0 /\ consume_payload = -1
      /\ flush = "none" /\ mesgs = 0 /\ sends = 0
      /\ accepted = {} /\ late = FALSE /\ uncounted = FALSE /\ resent = FALSE /\ outdated = FALSE
  BY DEF Init
<1>2. /\ FreshHeader \in HeaderState /\ FreshHeader.hw_sync_state = "header"
      /\ FreshHeader.hw_sync_header_cnt = 0 /\ FreshHeader.hw_sync_body_buf = <<>>
  <2>1. 0 \in 0..1 /\ 0 \in 0..MaxBody /\ 0 \in Times /\ <<>> \in Seq(Units)
    BY PayloadFields DEF Times
  <2> QED
    BY <2>1 DEF FreshHeader, HeaderState
<1>3. Position = 0
  BY <1>1, NoWriteIs, 0 \in Nat DEF Position
<1>4. 0 \in 0..Total /\ Total \in Nat /\ 0 \in 0..0 /\ 0 <= Total
  BY Apart
<1>5. Sound(FreshHeader) /\ Follows(FreshHeader, NoWrite, 0)
  <2>1. \A k \in 1..N : 0 <= Begins(k)
    BY Apart
  <2>2. Parsed(FreshHeader, 0)
    BY <1>2, <1>4, <2>1 DEF Parsed
  <2> QED
    BY <1>2, <2>2, NoWriteIs DEF Sound, Follows, SeenTo
<1>6. WritesFrom(0, NoWrite, FreshHeader)
  <2>1. Len(<<>>) = 0 /\ 0 + 0 = 0 /\ 0 <= 0
    OBVIOUS
  <2>2. PositionOf(0, NoWrite) = 0
    BY NoWriteIs, 0 \in Nat
  <2> QED
    BY <1>2, <1>4, <2>1, <2>2, NoWriteIs DEF WritesFrom
<1>7. pts_tab \in Table /\ \A j \in 1..AptsNum : ~pts_tab[j].valid
  BY <1>1 DEF Free, Table, Records
<1>8. Typed
  <2>1. Fed = 0
    BY <1>1, FedIs, StartsEmpty
  <2>2. 0 \in 0..MaxFlushes
    BY HwSyncAssumption
  <2>3. sent \in 0..Total /\ origin \in 0..sent
    BY <1>1, <1>4
  <2>4. write \in WriteState
    BY <1>1, NoWriteIs
  <2>5. input \in Seq(Pieces) /\ consumed \in 0..Fed
    BY <1>1, <1>4, <2>1
  <2>6. /\ payload_offset \in Nat
        /\ mesgs \in 0..MaxFlushes /\ sends \in 0..MaxFlushes /\ mesgs <= sends
    BY <1>1, <2>2
  <2>7. /\ accepted \subseteq Entries /\ late \in BOOLEAN /\ uncounted \in BOOLEAN
        /\ resent \in BOOLEAN /\ outdated \in BOOLEAN /\ consume_payload \in Nat \cup {-1}
    BY <1>1
  <2> QED
    BY <1>1, <1>5, <1>7, <2>3, <2>4, <2>5, <2>6, <2>7 DEF Typed
<1>9. Quiet
  BY <1>1 DEF Quiet
<1>10. RecordedIn(pts_tab, accepted)
  BY <1>7 DEF RecordedIn
<1>11. /\ KeptIn(pts_tab, {}, ReadCount) /\ Matches(0, {}, <<>>, NoWrite)
       /\ Delivers(<<>>, NoWrite, 0, 0)
  BY NoWriteIs, BothAnew, 0 \in Nat
<1>12. InputSeen(<<>>, 0)
  BY StartsEmpty DEF InputSeen
<1> QED
  BY <1>1, <1>3, <1>5, <1>6, <1>8, <1>9, <1>10, <1>11, <1>12 DEF HwInv

\* Every step keeps it.
LEMMA StepInv == HwInv /\ [Next]_vars => HwInv'
<1> SUFFICES ASSUME HwInv, [Next]_vars PROVE HwInv'
  OBVIOUS
<1>1. CASE StartWrite
  BY <1>1, StartWriteStep
<1>2. CASE FindPayload
  BY <1>2, FindPayloadStep
<1>3. CASE FindNothing
  BY <1>3, FindNothingStep
<1>4. CASE CheckInPts
  BY <1>4, CheckInPtsStep
<1>5. CASE AdvanceOffset
  BY <1>5, AdvanceOffsetStep
<1>6. CASE FeedMs12
  BY <1>6, FeedMs12Step
<1>7. CASE Decode
  BY <1>7, DecodeStep
<1>8. CASE ReadConsumed
  BY <1>8, ReadConsumedStep
<1>9. CASE LookUp
  BY <1>9, LookUpStep
<1>10. CASE StartFlush
  BY <1>10, StartFlushStep
<1>11. CASE HandleFlush
  BY <1>11, HandleFlushStep
<1>12. CASE EndFlush
  BY <1>12, EndFlushStep
<1>13. CASE UNCHANGED vars
  BY <1>13, StutterStep
<1> QED
  BY <1>1, <1>2, <1>3, <1>4, <1>5, <1>6, <1>7, <1>8, <1>9, <1>10, <1>11, <1>12, <1>13
  DEF Next, Writer

\* The invariant holds of every behaviour: of every stream, every cut of it into writes
\* (those that complete no payload and are written again included), and every order of
\* the writes, the flushes, the look-ups and the threads of MS12.  Its parts on what is
\* parsed and delivered are those of writes that complete a payload, and its part on
\* look-ups is that of counts MS12 has reached since it was flushed.
THEOREM HwInvariant == Spec => []HwInv
BY InitInv, StepInv, PTL DEF Spec

\* The parser's counts never leave the size of its buffer (audio_header_find_frame()),
\* the table keeps its HWSYNC_APTS_NUM slots, and MS12 has decoded no more than it was fed.
THEOREM HwTypeOK == Spec => []TypeOK
<1>1. HwInv => TypeOK
  <2> SUFFICES ASSUME HwInv PROVE TypeOK
    OBVIOUS
  <2>1. Typed /\ Sound(pheader)
    BY DEF HwInv, Typed
  <2>2. PICK h \in HeaderState : h = pheader
    BY <2>1 DEF Sound
  <2>3. /\ pheader.hw_sync_state \in {"header", "body"}
        /\ pheader.hw_sync_header_cnt \in 0..1
        /\ pheader.hw_sync_body_cnt \in 0..MaxBody /\ pheader.hw_sync_frame_size \in 0..MaxBody
    BY <2>2, HeaderFields
  <2>4. pheader.hw_sync_state = "body" =>
          pheader.hw_sync_body_cnt \in 1..pheader.hw_sync_frame_size
    BY <2>1 DEF Sound
  <2>5. /\ write.at \in {"idle", "find", "checkin", "advance", "feed"}
        /\ write.b_pts_valid \in BOOLEAN /\ write.abuffer \in Pieces \cup {<<>>}
    BY <2>1, WriteFields DEF Typed
  <2>6. {late, uncounted, resent, outdated} \subseteq BOOLEAN
    BY <2>1 DEF Typed
  <2> QED
    BY <2>1, <2>3, <2>4, <2>5, <2>6 DEF TypeOK, Typed, Table, Records, Entries
<1> QED
  BY <1>1, HwInvariant, PTL

\* After a flush whose message was handled in time, payload_offset is the end of what
\* MS12 was fed, and every pts that avsync_checkin_apts() stored is that of the payload
\* at its offset, as long as out_write_new() counted every payload.
THEOREM HwOffsetsMatchInput == Spec => []OffsetsMatchInput
<1>1. HwInv => OffsetsMatchInput
  <2> SUFFICES ASSUME HwInv, InStep, ~uncounted
               PROVE  /\ payload_offset =
                           Fed + IF write.at = "feed" THEN Len(write.abuffer.body) ELSE 0
                      /\ \A r \in accepted :
                           \/ \E i \in DOMAIN input : StartOf(i) = r.offset /\ input[i].pts = r.pts
                           \/ /\ write.at \in {"advance", "feed"}
                              /\ r = [offset |-> Fed, pts |-> write.abuffer.pts]
    BY DEF OffsetsMatchInput
  <2>1. Matches(payload_offset, accepted, input, write) /\ input \in Seq(Pieces)
    BY DEF HwInv, Typed
  <2>2. DOMAIN input = 1..Len(input)
    BY <2>1, LenProperties
  <2> QED
    BY <2>1, <2>2, FedIs DEF Matches
<1> QED
  BY <1>1, HwInvariant, PTL

\* avsync_lookup_apts() gives the pts entered last at or before the offset it is told,
\* whatever the look-ups before it gave up and however far MS12 went since the callback
\* read that offset, for a table of any size: one that is full refuses check-ins, and
\* loses none it took.  Excepted is what follows a look-up that was told an offset MS12
\* had not reached since a flush.
THEOREM HwLookupIsLatest == Spec => []LookupIsLatest
<1>1. HwInv => LookupIsLatest
  <2> SUFFICES ASSUME HwInv, InStep, ~outdated,
                      NEW o \in {consumed, consume_payload} \cap 0..consumed
               PROVE  GivesLatest(o)
    BY DEF LookupIsLatest
  <2>1. /\ Typed /\ pts_tab \in Table /\ accepted \subseteq Entries
        /\ RecordedIn(pts_tab, accepted) /\ KeptIn(pts_tab, accepted, ReadCount)
    BY DEF HwInv, Typed
  <2>2. PICK c \in Nat, r \in Nat : c = consumed /\ r = ReadCount /\ r <= c
    BY <2>1, ReadCountIs
  <2>3. o \in Nat /\ r <= o
    <3>1. o \in 0..c
      BY <2>2
    <3>2. CASE o = c
      BY <2>2, <3>2
    <3>3. CASE o = consume_payload
      BY <2>2, <3>1, <3>3 DEF ReadCount
    <3> QED
      BY <2>2, <3>1, <3>2, <3>3
  <2>4. KeptIn(pts_tab, accepted, o)
    BY <2>1, <2>2, <2>3, KeptLater
  <2>5. PICK before, f : before = {q \in accepted : q.offset <= o} /\ f = Found(pts_tab, o)
    OBVIOUS
  <2>6. IF before = {} THEN f = 0
        ELSE /\ f # 0
             /\ \E q \in before : q.pts = pts_tab[f].pts /\ \A p \in before : p.offset <= q.offset
    BY <2>1, <2>3, <2>4, <2>5, FoundIsLatest
  <2> QED
    BY <2>5, <2>6 DEF GivesLatest
<1> QED
  BY <1>1, HwInvariant, PTL

\* Every payload written since the flush reached MS12 whole, with its own pts, and
\* before any later one, wherever the writes cut its header and its body, as long as
\* none of them left something in the parser and returned 0.
THEOREM HwNothingIsLost == Spec => []NothingIsLost
<1>1. HwInv => NothingIsLost
  <2> SUFFICES ASSUME HwInv, InStep, ~resent, flush = "none", write.at = "idle"
               PROVE  /\ \A k \in SentSinceFlush : \E i \in DOMAIN input : Fits(k, i)
                      /\ \A k, l \in SentSinceFlush : k < l =>
                           \E i \in DOMAIN input : Fits(k, i) /\ \A j \in 1..i : ~Fits(l, j)
    BY DEF NothingIsLost
  <2>1. /\ Delivers(input, write, origin, Position) /\ sent \in Nat /\ origin \in Nat
        /\ write = NoWrite /\ input \in Seq(Pieces)
    BY Apart DEF HwInv, Typed, WritesFrom
  <2>2. Position = sent /\ ~InHand(write)
    BY <2>1, NoWriteIs DEF Position
  <2>3. DOMAIN input = 1..Len(input) /\ DOMAIN Payloads = 1..N
    BY <2>1, LenProperties, PayloadFields
  <2>4. ASSUME NEW k \in SentSinceFlush
        PROVE  k \in 1..N /\ Payloads[k].size # 0 /\ Reached(k, input)
    <3>1. k \in 1..N /\ Payloads[k].size # 0 /\ Begins(k) >= origin /\ Ends(k) <= sent
      BY <2>3 DEF SentSinceFlush
    <3>2. origin <= Begins(k)
      BY <2>1, <3>1, Apart
    <3> QED
      BY <2>1, <2>2, <3>1, <3>2 DEF Delivers, Due, OnItsWay
  <2> QED
    BY <2>3, <2>4 DEF Reached, Fits
<1> QED
  BY <1>1, HwInvariant, PTL
============================================================================
