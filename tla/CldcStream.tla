----------------------------- MODULE CldcStream -----------------------------
(***************************************************************************)
(* The CLD client's reassembly of a GET's data, src/lib/cldc.c: the stream *)
(* get_end_cb opens with sess_stream_open on an OK GET reply, and          *)
(* cldc_rx_data_c, which appends each DATA-C segment to it and completes   *)
(* the GET on the zero-length terminator.  These are pure operators over  *)
(* the list sess->streams; StreamReassembly checks them against the        *)
(* protocol description's reassembly rules over every delivery of every   *)
(* segmentation of a small object, in any order, with duplicates, a        *)
(* truncated packet and a packet of another stream.                        *)
(*                                                                         *)
(* A stream is [strid, size, left, next, buf, cb]: str->strid_le, size,    *)
(* size_left, next_seg, the bytes written through bufp, and whether        *)
(* copts.cb is set.  A DATA-C packet is [strid, seg, seg_len, bytes],       *)
(* bytes being what the packet carries after struct cld_msg_data.          *)
(***************************************************************************)
EXTENDS Integers, Sequences, SequencesExt

CONSTANT MaxLen   \* the largest object a checked GET returns

\* sess_stream_open, called by get_end_cb with the reply's strid and
\* o->size: a zeroed stream appended to sess->streams.
sess_stream_open(streams, strid, size, cb) ==
    Append(streams, [strid |-> strid, size |-> size, left |-> size,
                     next |-> 0, buf |-> <<>>, cb |-> cb])

Result(rc, streams, done) == [rc |-> rc, streams |-> streams, done |-> done]

\* Mutant: the segment number is not checked against next_seg.
cldc_rx_data_c_noseq(streams, d) ==
    LET i   == SelectInSeq(streams, LAMBDA s : s.strid = d.strid)
        str == streams[i]
        new == [str EXCEPT !.buf = @ \o SubSeq(d.bytes, 1, d.seg_len),
                           !.left = @ - d.seg_len, !.next = @ + 1]
    IN CASE Len(d.bytes) < d.seg_len -> Result(-1008, streams, <<>>)
         [] i = 0                    -> Result(-1009, streams, <<>>)
         [] d.seg_len > str.left     -> Result(-1011, streams, <<>>)
         [] d.seg_len = 0 /\ str.cb  ->
              Result(0, RemoveAt(streams, i),
                     <<[buf |-> new.buf, size |-> str.size - new.left]>>)
         [] OTHER -> Result(0, ReplaceAt(streams, i, new), <<>>)

\* cldc_rx_data_c: reject a packet too short for its seg_len, one of no
\* stream in the list, one out of sequence and one longer than what is
\* left; else copy the bytes, advance bufp, size_left and next_seg.  On
\* the terminator, when the GET has a callback, hand it buf and size -
\* size_left (short data is only logged) and unlink the stream.
cldc_rx_data_c(streams, d) ==
    LET i   == SelectInSeq(streams, LAMBDA s : s.strid = d.strid)
        str == streams[i]
        new == [str EXCEPT !.buf = @ \o SubSeq(d.bytes, 1, d.seg_len),
                           !.left = @ - d.seg_len, !.next = @ + 1]
    IN CASE Len(d.bytes) < d.seg_len -> Result(-1008, streams, <<>>)
         [] i = 0                    -> Result(-1009, streams, <<>>)
         [] d.seg # str.next         -> Result(-1010, streams, <<>>)
         [] d.seg_len > str.left     -> Result(-1011, streams, <<>>)
         [] d.seg_len = 0 /\ str.cb  ->
              Result(0, RemoveAt(streams, i),
                     <<[buf |-> new.buf, size |-> str.size - new.left]>>)
         [] OTHER -> Result(0, ReplaceAt(streams, i, new), <<>>)

\* cldc_receive_msg dispatching a sequence of DATA-C packets; the
\* completions handed to the application, in order.
RECURSIVE RxAll(_, _, _)
RxAll(streams, ds, done) ==
    IF ds = <<>> THEN [streams |-> streams, done |-> done]
    ELSE LET r == cldc_rx_data_c(streams, Head(ds))
         IN RxAll(r.streams, Tail(ds),
                  done \o r.done)

-----------------------------------------------------------------------------
(* The reference: an object, cut into non-empty segments numbered from 0, *)
(* then the zero-length terminator.                                        *)

RECURSIVE Cuts(_)
Cuts(n) == IF n = 0 THEN {<<>>}
           ELSE UNION {{<<k>> \o c : c \in Cuts(n - k)} : k \in 1..n}

Pkt(strid, seg, bytes) == [strid |-> strid, seg |-> seg, seg_len |-> Len(bytes), bytes |-> bytes]

\* The packets of object D cut by c, the terminator last.
Segments(D, c) ==
    LET ends == [j \in 0..Len(c) |-> FoldLeft(+, 0, SubSeq(c, 1, j))]
    IN [j \in 1..Len(c) + 1 |->
          IF j <= Len(c) THEN Pkt(1, j - 1, SubSeq(D, ends[j - 1] + 1, ends[j]))
          ELSE Pkt(1, Len(c), <<>>)]

Objects == {[i \in 1..n |-> i] : n \in 0..MaxLen}

\* Packets a delivery may also contain: one of another stream, a first
\* segment one byte longer than the object, and one that claims one byte
\* more than its packet carries.
Strays(D) == {Pkt(2, 0, D), Pkt(1, 0, D \o <<0>>),
              [strid |-> 1, seg |-> 0, seg_len |-> Len(D) + 1, bytes |-> D]}

\* spec.md section 8, segment reassembly, for a GET with a callback:
\* delivered in order, the segments and the terminator reconstruct the
\* object exactly, once, and leave no stream behind; delivered in any
\* order, any number of times, mixed with stray packets, the GET
\* completes at most once and with a prefix of the object whose size is
\* its length -- a segment ahead of its turn, or longer than what is
\* left, is rejected.
StreamReassembly ==
    \A D \in Objects : \A c \in Cuts(Len(D)) :
        LET P    == Segments(D, c)
            open == sess_stream_open(<<>>, 1, Len(D), TRUE)
            run  == RxAll(open, P, <<>>)
        IN /\ run.done = <<[buf |-> D, size |-> Len(D)]>>
           /\ run.streams = <<>>
           /\ \A ds \in BoundedSeq(ToSet(P) \cup Strays(D), Len(P) + 1) :
                LET r == RxAll(open, ds, <<>>)
                IN /\ Len(r.done) <= 1
                   /\ \A j \in DOMAIN r.done :
                        IsPrefix(r.done[j].buf, D) /\ r.done[j].size = Len(r.done[j].buf)

====
