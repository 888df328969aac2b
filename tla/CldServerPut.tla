---------------------------- MODULE CldServerPut ----------------------------
(***************************************************************************)
(* The CLD server's PUT path, src/msg.c: msg_put queues the PUT request on *)
(* the session's put_q, msg_data copies each DATA segment onto data_q and  *)
(* calls try_commit_data, which sums the segment lengths received for the  *)
(* PUT's msgid and, once they reach the declared data_size, gathers the    *)
(* segments into darr by segment number, concatenates them and stores the *)
(* result as the inode's data.                                             *)
(*                                                                         *)
(* The client sent one PUT and its DATA segments back to back (cldc_put);  *)
(* the network loses and reorders them, and -- where AllowDup holds --     *)
(* delivers copies, as the client's retransmission of a request whose ack *)
(* was lost does.  A byte of data is the pair <<msgid, segment>> it came   *)
(* from, so a commit can be compared with the data the client sent.        *)
(***************************************************************************)
EXTENDS Integers, Sequences, SequencesExt, Functions

CONSTANTS
    MsgIds,      \* the PUT requests' msgids
    SegLens,     \* SegLens[i+1]: length of segment i (the same for every PUT)
    AllowDup,    \* the network may deliver a packet more than once
    AllowClose,  \* the client may close the handle while a PUT is pending
    MaxQ,        \* bound on put_q and data_q: a packet waits while one is full
    Garbage      \* a byte of malloc'd memory nothing was copied into

ASSUME SegLens \in Seq(Nat \ {0}) /\ Len(SegLens) > 0 /\ MaxQ > 0

VARIABLES
    net,      \* packets in flight from the client
    put_q,    \* sess->put_q: the msgids of queued PUT copies, in list order
    data_q,   \* sess->data_q: queued DATA copies [mid, seg], in list order
    fhOpen,   \* the handle the PUTs name is still open (cldb_handle_get)
    inode,    \* the inode's data blob, a sequence of bytes
    fault     \* how the server crashed, or "none"

vars == <<net, put_q, data_q, fhOpen, inode, fault>>

NSeg     == Len(SegLens)
Segs     == 0..(NSeg - 1)
SegLen(s) == SegLens[s + 1]
DataSize == SumFunction(SegLens)
Byte     == MsgIds \X Segs
Packet   == [op : {"put", "data"}, mid : MsgIds, seg : Segs]

\* The bytes of segment s of PUT m, and the data the client meant to store.
SegBytes(m, s) == [k \in 1..SegLen(s) |-> <<m, s>>]
Expected(m)    == FlattenSeq([i \in 1..NSeg |-> SegBytes(m, i - 1)])
Junk(n)        == [k \in 1..n |-> Garbage]

-----------------------------------------------------------------------------
(* try_commit_data(m, pi, dq): dq is data_q with the new segment appended, *)
(* pi the position in put_q of the PUT msg_data matched.                   *)

\* The first loop: total length, highest segment and count of the queued
\* segments carrying m's msgid (copies included).
Mine(m, dq)     == {j \in DOMAIN dq : dq[j].mid = m}
TmpSize(m, dq)  == SumFunctionOnSet([j \in DOMAIN dq |-> SegLen(dq[j].seg)], Mine(m, dq))
LastSeg(m, dq)  == LET S == {dq[j].seg : j \in Mine(m, dq)}
                   IN CHOOSE s \in S : \A t \in S : s >= t
NSegOf(m, dq)   == Cardinality(Mine(m, dq))

\* The gather loop writes darr[seg] for every copy; darr holds nseg slots.
\* The copy loop then reads darr[0..last_seg] and dereferences each slot.
Gathered(m, dq) == {dq[j].seg : j \in Mine(m, dq)}
Copied(m, dq)   == FlattenSeq([i \in 1..(LastSeg(m, dq) + 1) |-> SegBytes(m, i - 1)])

\* Mutant: cldb_data_put is passed tmp_size, which the copy loop reuses
\* for each segment's length, instead of data_size.
Commit_tmplen(m, dq) ==
    CASE \E s \in Gathered(m, dq) : s >= NSegOf(m, dq) ->
              fault' = "oob_write" /\ UNCHANGED inode
      [] ~fhOpen -> UNCHANGED <<inode, fault>>
      [] \E i \in 0..LastSeg(m, dq) : i \notin Gathered(m, dq) ->
              fault' = "null_deref" /\ UNCHANGED inode
      [] OTHER ->
              /\ inode' = SubSeq(Copied(m, dq), 1, SegLen(LastSeg(m, dq)))
              /\ UNCHANGED fault

\* The commit, in the code's order: the gather loop's writes into darr,
\* the handle lookup, the copy loop, the store.
Commit(m, dq) ==
    CASE \E s \in Gathered(m, dq) : s >= NSegOf(m, dq) ->
              \* darr[tmp_seg] = dmsg past the alloca'd array
              fault' = "oob_write" /\ UNCHANGED inode
      [] ~fhOpen ->
              \* cldb_handle_get fails: resp_err, darr dropped unfreed
              UNCHANGED <<inode, fault>>
      [] \E i \in 0..LastSeg(m, dq) : i \notin Gathered(m, dq) ->
              \* dmsg = darr[i] is NULL and is dereferenced
              fault' = "null_deref" /\ UNCHANGED inode
      [] OTHER ->
              \* memcpy into malloc(data_size), free each darr[i] (a copy
              \* overwritten in darr leaks), cldb_data_put of data_size
              \* bytes, resp_ok
              /\ inode' = Copied(m, dq) \o Junk(DataSize - Len(Copied(m, dq)))
              /\ UNCHANGED fault

\* Mutant: the PUT commits one byte before all of its data has arrived.
try_commit_data_early(m, pi, dq) ==
    IF TmpSize(m, dq) + 1 < DataSize
      THEN data_q' = dq /\ UNCHANGED <<put_q, inode, fault>>
      ELSE /\ put_q' = RemoveAt(put_q, pi)
           /\ data_q' = SelectSeq(dq, LAMBDA d : d.mid # m)
           /\ Commit(m, dq)

\* Not enough data yet: keep queueing.  Otherwise unlink the PUT and all of
\* m's segments, then commit (or fail) as above.
try_commit_data(m, pi, dq) ==
    IF TmpSize(m, dq) < DataSize
      THEN data_q' = dq /\ UNCHANGED <<put_q, inode, fault>>
      ELSE /\ put_q' = RemoveAt(put_q, pi)
           /\ data_q' = SelectSeq(dq, LAMBDA d : d.mid # m)
           /\ Commit(m, dq)

-----------------------------------------------------------------------------
(* The handlers.  A server that has crashed (fault) handles nothing more.  *)

\* msg_put: look the handle up (CLE_FH_INVAL if it is gone), copy the PUT
\* onto put_q and answer OK.  A copy of a PUT is queued again.
msg_put(m) ==
    /\ IF fhOpen
         THEN put_q' = Append(put_q, m)
         ELSE UNCHANGED put_q
    /\ UNCHANGED <<data_q, fhOpen, inode, fault>>

\* msg_data: find the first queued PUT with the segment's msgid
\* (CLE_DATA_INVAL if there is none), copy the segment onto data_q, ack
\* it, and try to commit.
msg_data(m, s) ==
    LET pi == SelectInSeq(put_q, LAMBDA x : x = m)
    IN IF pi = 0
         THEN UNCHANGED <<put_q, data_q, fhOpen, inode, fault>>
         ELSE /\ try_commit_data(m, pi, Append(data_q, [mid |-> m, seg |-> s]))
              /\ UNCHANGED fhOpen

\* A packet arrives; the network may keep a copy for later.
Deliver ==
    /\ fault = "none"
    /\ Len(put_q) < MaxQ /\ Len(data_q) < MaxQ
    /\ \E p \in net :
        /\ net' = IF AllowDup THEN net ELSE net \ {p}
        /\ IF p.op = "put" THEN msg_put(p.mid) ELSE msg_data(p.mid, p.seg)

\* A packet is lost.
Lose ==
    /\ \E p \in net : net' = net \ {p}
    /\ UNCHANGED <<put_q, data_q, fhOpen, inode, fault>>

\* msg_close on the handle the PUTs name: cldb_handle_del.
msg_close ==
    /\ AllowClose /\ fault = "none" /\ fhOpen
    /\ fhOpen' = FALSE
    /\ UNCHANGED <<net, put_q, data_q, inode, fault>>

Init ==
    /\ net = {[op |-> "put", mid |-> m, seg |-> 0] : m \in MsgIds}
             \cup {[op |-> "data", mid |-> m, seg |-> s] : m \in MsgIds, s \in Segs}
    /\ put_q = <<>>
    /\ data_q = <<>>
    /\ fhOpen = TRUE
    /\ inode = <<>>
    /\ fault = "none"

Next == Deliver \/ Lose \/ msg_close

Spec == Init /\ [][Next]_vars

-----------------------------------------------------------------------------
(* Properties.                                                             *)

TypeOK ==
    /\ net \subseteq Packet
    /\ put_q \in Seq(MsgIds) /\ data_q \in Seq([mid : MsgIds, seg : Segs])
    /\ fhOpen \in BOOLEAN
    /\ fault \in {"none", "oob_write", "null_deref"}
    /\ inode \in Seq(Byte \cup {Garbage}) /\ Len(inode) \in {0, DataSize}

\* Whatever order the segments arrive in, the inode's data is only ever
\* exactly what one PUT sent: try_commit_data commits once the segment
\* lengths add up to data_size, and then every slot of darr up to the
\* highest segment must be filled.
CommitIsExact == inode \in {<<>>} \cup {Expected(m) : m \in MsgIds}

\* The server never crashes on the PUT path (no NULL segment, no write
\* past darr).
NoCrash == fault = "none"

====
