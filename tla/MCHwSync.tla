------------------------------ MODULE MCHwSync ------------------------------
(* Payloads of different sizes, one without a pts, junk between two of them; *)
(* the shortest write is shorter than the first payload and its header.     *)
EXTENDS HwSync

Payload(junk, size, pts) == [junk |-> junk, size |-> size, pts |-> pts]

MCPayloads == <<Payload(0, 2, 1), Payload(0, 1, NA), Payload(1, 1, 2), Payload(0, 1, 3)>>
MCBursts == {3, 4, 7}
MCMisread == [size |-> 2, pts |-> 4]

\* audio_header_find_frame() gives the payloads of the stream, whatever the
\* cuts, and finds the end of the stream.
ASSUME CutsDoNotMatter(MCPayloads \o <<Payload(0, 0, EOS)>>)
\* The same for payloads without a pts, for two headers in a row, and for a
\* payload of one unit after a longer one.
ASSUME CutsDoNotMatter(<<Payload(2, 3, NA), Payload(0, 0, 4), Payload(0, 1, 5), Payload(1, 2, NA)>>)
=============================================================================
