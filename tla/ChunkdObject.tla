---------------------------- MODULE ChunkdObject ----------------------------
(***************************************************************************)
(* chunkd's per-connection object engine, src/chunkd/object.c: PUT        *)
(* (object_put, cli_evt_data_in, object_put_end), GET and GET-META        *)
(* (object_get, object_get_more), GET-PART (object_get_part), DEL          *)
(* (object_del) and COPY (object_cp, run by a worker thread in            *)
(* worker_cp_thr and finished on the event loop by worker_cp_pipe).       *)
(*                                                                         *)
(* The event loop runs one handler at a time; a COPY's worker thread runs *)
(* beside it and its steps interleave with other connections' handlers.   *)
(* Connections share the backend store and the objcache table of per-key *)
(* dedup entries.  Outside src/ and modelled from the protocol            *)
(* description: objcache_get_dirty fails while the key's entry is held     *)
(* (by any connection); cli_err sends an error reply, then the connection *)
(* reads its next request when the last argument is true and is disposed  *)
(* of otherwise; a disposed connection is freed with cli_out_end and      *)
(* cli_in_end.  Byte i of a PUT body sent by connection c is <<c, i>>.    *)
(***************************************************************************)
EXTENDS Integers, Sequences, FiniteSets

CONSTANTS
    Clients,      \* connections
    Keys,         \* object keys
    PutSizes,     \* content lengths a PUT may declare
    Offsets,      \* GET-PART offsets
    Lengths,      \* GET-PART lengths (0 = to the end)
    BUF,          \* CLI_DATA_BUF_SZ
    BLK,          \* CHUNK_BLK_SZ
    MAX_GETPART,  \* CHUNK_MAX_GETPART, in blocks
    BackendFail,  \* fs_obj_new, fs_obj_write and fs_obj_write_commit may fail
    MaxReq,       \* requests per connection
    NONE,         \* no object, entry or request
    Garbage       \* a byte read from past the end of a buffer

VARIABLES
    cstate,   \* cli->state: "idle", "data_in", "sending", "copy", "dispose", "freed"
    req,      \* the request being handled: [op, key, key2, size]
    out_ce,   \* cli->out_ce: the key of the objcache entry held, or NONE
    out_bo,   \* cli->out_bo: NONE or [key, data written so far]
    out_len,  \* cli->out_len
    in_obj,   \* cli->in_obj: NONE or [key, obj] (obj: the object opened)
    in_len,   \* cli->in_len
    wpc,      \* the COPY worker's progress: "none", "open", "new", "copy", "commit", "signal"
    werr,     \* wi->err
    holder,   \* objcache: key -> the connection holding its entry, or NONE
    store,    \* backend: key -> NONE or [data, size, by]
    gp,       \* the last GET-PART reply per connection: NONE or a record
    nreq,     \* requests taken per connection
    crashed   \* the server faulted

vars == <<cstate, req, out_ce, out_bo, out_len, in_obj, in_len, wpc, werr,
          holder, store, gp, nreq, crashed>>

MinOf(a, b) == IF a < b THEN a ELSE b
Body(c, n)  == [i \in 1..n |-> <<c, i>>]
Fails       == IF BackendFail THEN BOOLEAN ELSE {FALSE}

-----------------------------------------------------------------------------
(* Releasing a connection's objects.                                       *)

\* Mutant: cli->out_bo is left set after the object is freed.
cli_out_end_keepbo(c) ==
    /\ out_bo' = out_bo
    /\ out_ce' = [out_ce EXCEPT ![c] = NONE]
    /\ holder' = IF out_ce[c] = NONE THEN holder
                 ELSE [holder EXCEPT ![out_ce[c]] = NONE]

\* cli_out_end: fs_obj_free(out_bo), objcache_put(out_ce).
cli_out_end(c) ==
    /\ out_bo' = [out_bo EXCEPT ![c] = NONE]
    /\ out_ce' = [out_ce EXCEPT ![c] = NONE]
    /\ holder' = IF out_ce[c] = NONE THEN holder
                 ELSE [holder EXCEPT ![out_ce[c]] = NONE]

\* cli_in_end: fs_obj_free(in_obj).
cli_in_end(c) == in_obj' = [in_obj EXCEPT ![c] = NONE]

\* cli_err(cli, err, recycle_ok).
cli_err(c, recycle) ==
    cstate' = [cstate EXCEPT ![c] = IF recycle THEN "idle" ELSE "dispose"]

-----------------------------------------------------------------------------
(* PUT.                                                                    *)

\* Mutant: the commit is issued before the last read's bytes are written,
\* so it stores what out_bo held before this handler ran.
object_put_end_unflushed(c, data) ==
    /\ \E fail \in Fails :
         store' = IF fail THEN store
                  ELSE [store EXCEPT ![req[c].key] =
                          [data |-> out_bo[c].data, size |-> req[c].size, by |-> c]]
    /\ cli_out_end(c)
    /\ cstate' = [cstate EXCEPT ![c] = "idle"]

\* object_put_end: SHA1_Final, fs_obj_write_commit of what out_bo holds,
\* cli_out_end, then the reply (or cli_err on a failed commit).  data is
\* out_bo's contents after this handler's writes.
object_put_end(c, data) ==
    /\ \E fail \in Fails :
         store' = IF fail THEN store
                  ELSE [store EXCEPT ![req[c].key] =
                          [data |-> data, size |-> req[c].size, by |-> c]]
    /\ cli_out_end(c)
    /\ cstate' = [cstate EXCEPT ![c] = "idle"]

\* object_put: objcache_get_dirty (InternalError if the key's entry is
\* held; cli->out_ce becomes NULL, so an entry it still held is lost for
\* good), fs_obj_new (its error if it fails), SHA1_Init, out_len; a zero
\* length PUT ends at once, otherwise the connection reads the body.
object_put(c, k, n) ==
    /\ req' = [req EXCEPT ![c] = [op |-> "put", key |-> k, key2 |-> k, size |-> n]]
    /\ UNCHANGED <<in_obj, in_len, wpc, werr, gp>>
    /\ \/ /\ holder[k] # NONE
          /\ out_ce' = [out_ce EXCEPT ![c] = NONE]
          /\ cli_err(c, TRUE)
          /\ UNCHANGED <<out_bo, out_len, holder, store>>
       \/ /\ holder[k] = NONE
          /\ \E fail \in Fails :
               IF fail
                 THEN /\ out_ce' = [out_ce EXCEPT ![c] = k]
                      /\ holder' = [holder EXCEPT ![k] = c]
                      /\ cli_err(c, TRUE)
                      /\ UNCHANGED <<out_bo, out_len, store>>
               ELSE IF n = 0
                 THEN \* object_put_end at once: the entry just taken is
                      \* put back by cli_out_end
                      /\ \E cfail \in Fails :
                           store' = IF cfail THEN store
                                    ELSE [store EXCEPT ![k] = [data |-> <<>>, size |-> 0, by |-> c]]
                      /\ out_ce' = [out_ce EXCEPT ![c] = NONE]
                      /\ out_bo' = [out_bo EXCEPT ![c] = NONE]
                      /\ out_len' = [out_len EXCEPT ![c] = 0]
                      /\ UNCHANGED holder
                      /\ cstate' = [cstate EXCEPT ![c] = "idle"]
               ELSE /\ out_ce' = [out_ce EXCEPT ![c] = k]
                    /\ out_bo' = [out_bo EXCEPT ![c] = [key |-> k, data |-> <<>>]]
                    /\ out_len' = [out_len EXCEPT ![c] = n]
                    /\ holder' = [holder EXCEPT ![k] = c]
                    /\ cstate' = [cstate EXCEPT ![c] = "data_in"]
                    /\ UNCHANGED store

\* The bytes the connection's socket holds: the PUT body, then the bytes
\* of whatever the client sends next.
StreamByte(c, i) == IF i <= req[c].size THEN <<c, i>> ELSE Garbage

\* Mutant: read_sz is not limited to what is left of the body.
ReadSize_noclamp(c) == BUF

\* read_sz = MIN(out_len, CLI_DATA_BUF_SZ).
ReadSize(c) == MinOf(out_len[c], BUF)

\* cli_evt_data_in: read up to read_sz bytes.  EAGAIN and SSL's
\* want-read/want-write change nothing the model keeps.  EOF disposes of
\* the connection; a read error (after cli_out_end on the plain path, not
\* on the SSL path) answers cli_err(.., false).  The bytes read are
\* written with fs_obj_write until all are taken (a write error:
\* cli_out_end, cli_err(.., false)) and hashed; out_len drops by each
\* write, and at zero object_put_end runs.
cli_evt_data_in(c) ==
    /\ cstate[c] = "data_in"
    /\ UNCHANGED <<req, in_obj, in_len, wpc, werr, gp>>
    /\ \/ /\ cstate' = [cstate EXCEPT ![c] = "dispose"]
          /\ UNCHANGED <<out_ce, out_bo, out_len, holder, store>>
       \/ /\ \E avail \in 1..ReadSize(c), wfail \in Fails :
               LET done == req[c].size - out_len[c]
                   data == out_bo[c].data \o [i \in 1..avail |-> StreamByte(c, done + i)]
               IN IF wfail
                    THEN /\ cli_out_end(c) /\ cli_err(c, FALSE)
                         /\ UNCHANGED <<out_len, store>>
                  ELSE /\ out_len' = [out_len EXCEPT ![c] = out_len[c] - avail]
                       /\ IF out_len[c] - avail = 0
                            THEN object_put_end(c, data)
                            ELSE /\ out_bo' = [out_bo EXCEPT ![c].data = data]
                                 /\ UNCHANGED <<out_ce, holder, store, cstate>>

-----------------------------------------------------------------------------
(* GET, GET-META and DEL.                                                  *)

Unwritten == <<out_ce, out_bo, out_len, holder, wpc, werr>>

\* fs_obj_read of MIN(in_len, CLI_DATA_BUF_SZ) bytes of the object o
\* opened, len bytes before its end: what the backend holds from there
\* on, fewer at the end of a half-written object.
GetReadLen(o, len) ==
    LET held == Len(o.data) - (o.size - len)
    IN MinOf(MinOf(len, BUF), IF held < 0 THEN 0 ELSE held)

\* object_read_bytes (the read-and-queue path) from object_get or
\* object_get_more: read MIN(in_len, CLI_DATA_BUF_SZ) bytes, queue them
\* with object_get_more as the continuation while in_len is not zero; at
\* zero, cli_in_end.  A failed read, or none at all before in_len is
\* zero: cli_in_end, and the connection is given up.
object_read_bytes(c) ==
    LET bytes == GetReadLen(in_obj[c].obj, in_len[c])
    IN \E fail \in IF bytes = 0 THEN {TRUE} ELSE Fails :
        IF fail
          THEN cli_in_end(c) /\ cli_err(c, FALSE) /\ UNCHANGED in_len
          ELSE LET left == in_len[c] - bytes
               IN /\ in_len' = [in_len EXCEPT ![c] = left]
                  /\ IF left = 0
                       THEN cli_in_end(c) /\ cstate' = [cstate EXCEPT ![c] = "idle"]
                       ELSE UNCHANGED in_obj /\ cstate' = [cstate EXCEPT ![c] = "sending"]

\* object_get: fs_obj_open (its error if the key has no object), the
\* header reply; no body wanted or a zero-sized object ends at once.
object_get(c, k, want_body) ==
    /\ req' = [req EXCEPT ![c] = [op |-> "get", key |-> k, key2 |-> k, size |-> 0]]
    /\ UNCHANGED <<Unwritten, store, gp>>
    /\ IF store[k] = NONE
         THEN cli_err(c, TRUE) /\ UNCHANGED <<in_obj, in_len>>
       ELSE IF ~want_body \/ store[k].size = 0
         THEN /\ in_len' = [in_len EXCEPT ![c] = store[k].size]
              /\ in_obj' = [in_obj EXCEPT ![c] = NONE]
              /\ cstate' = [cstate EXCEPT ![c] = "idle"]
       ELSE \* object_read_bytes on the object just opened
            LET bytes == GetReadLen(store[k], store[k].size)
                left  == store[k].size - bytes
            IN \E fail \in IF bytes = 0 THEN {TRUE} ELSE Fails :
                 IF fail
                   THEN /\ in_obj' = [in_obj EXCEPT ![c] = NONE]
                        /\ in_len' = [in_len EXCEPT ![c] = store[k].size]
                        /\ cli_err(c, FALSE)
                   ELSE /\ in_len' = [in_len EXCEPT ![c] = left]
                        /\ in_obj' = [in_obj EXCEPT ![c] =
                                        IF left = 0 THEN NONE
                                        ELSE [key |-> k, obj |-> store[k]]]
                        /\ cstate' = [cstate EXCEPT ![c] =
                                        IF left = 0 THEN "idle" ELSE "sending"]

\* object_get_more: a queued chunk's write completed (done) or the
\* connection was closed under it (not done: nothing more is queued).
object_get_more(c) ==
    /\ cstate[c] = "sending"
    /\ UNCHANGED <<req, Unwritten, store, gp>>
    /\ \/ cstate' = [cstate EXCEPT ![c] = "dispose"] /\ UNCHANGED <<in_obj, in_len>>
       \/ object_read_bytes(c)

\* object_del: fs_obj_delete, then the reply.  It does not consult objcache.
object_del(c, k) ==
    /\ req' = [req EXCEPT ![c] = [op |-> "del", key |-> k, key2 |-> k, size |-> 0]]
    /\ UNCHANGED <<Unwritten, in_obj, in_len, gp>>
    /\ store' = [store EXCEPT ![k] = NONE]
    /\ cli_err(c, TRUE)

-----------------------------------------------------------------------------
(* GET-PART.                                                               *)

\* The block-aligned window object_get_part reads: aligned_ofs rounds
\* the offset down; aligned_len covers the requested bytes from there,
\* rounded up to a block and cut at the object's end.
AlignedOfs(off) == off - (off % BLK)

\* Mutant: the window is the requested length, not counting the bytes
\* between aligned_ofs and the offset.
AlignedLen_short(off, length, size) ==
    LET l == length
        r == IF l % BLK # 0 THEN l + (BLK - (l % BLK)) ELSE l
    IN MinOf(r, size - AlignedOfs(off))

AlignedLen(off, length, size) ==
    LET l == length + (off - AlignedOfs(off))
        r == IF l % BLK # 0 THEN l + (BLK - (l % BLK)) ELSE l
    IN MinOf(r, size - AlignedOfs(off))

\* length: 0 or more than remains means "to the end", then at most
\* CHUNK_MAX_GETPART blocks.
GetPartLen(off, L, size) ==
    LET remain == size - off
        l      == IF L = 0 \/ L > remain THEN remain ELSE L
    IN MinOf(l, MAX_GETPART * BLK)

\* object_get_part: fs_obj_open; InvalidSeek past the end; when length is
\* not zero, seek to aligned_ofs and read aligned_len bytes into mem (a
\* failed read, or a short one from a half-written object, answers the
\* error); SHA1 over mem; the header and
\* then length bytes from mem + (offset - aligned_ofs); cli_in_end.  The
\* error paths after fs_obj_open return without cli_in_end.  When length
\* is zero mem stays NULL, and SHA1(NULL, aligned_len) faults unless
\* aligned_len is zero too.
object_get_part(c, k, off, L) ==
    /\ req' = [req EXCEPT ![c] = [op |-> "get_part", key |-> k, key2 |-> k, size |-> 0]]
    /\ UNCHANGED <<Unwritten, store>>
    /\ IF store[k] = NONE
         THEN cli_err(c, TRUE) /\ UNCHANGED <<in_obj, in_len, gp, crashed>>
         ELSE
         LET obj    == store[k].data
             size   == store[k].size
             length == GetPartLen(off, L, size)
             alen   == AlignedLen(off, length, size)
             mem    == SubSeq(obj, AlignedOfs(off) + 1, AlignedOfs(off) + alen)
             short  == AlignedOfs(off) + alen > Len(obj)
             skip   == off - AlignedOfs(off)
         IN /\ in_len' = [in_len EXCEPT ![c] = size]
            /\ IF off > size
                 THEN /\ in_obj' = [in_obj EXCEPT ![c] = [key |-> k, obj |-> store[k]]]
                      /\ cli_err(c, TRUE) /\ UNCHANGED <<gp, crashed>>
               ELSE IF length = 0 /\ alen > 0
                 THEN /\ crashed' = TRUE
                      /\ UNCHANGED <<cstate, in_obj, gp>>
               ELSE \E fail \in (IF length = 0 THEN {FALSE}
                                  ELSE IF short THEN {TRUE} ELSE Fails) :
                 IF fail
                   THEN /\ in_obj' = [in_obj EXCEPT ![c] = [key |-> k, obj |-> store[k]]]
                        /\ cli_err(c, TRUE) /\ UNCHANGED <<gp, crashed>>
                   ELSE /\ gp' = [gp EXCEPT ![c] =
                                   [obj |-> obj, size |-> size, off |-> off, L |-> L, len |-> length,
                                    last |-> length = size - off,
                                    data |-> [i \in 1..length |->
                                                IF skip + i <= Len(mem) THEN mem[skip + i]
                                                ELSE Garbage]]]
                        /\ in_obj' = [in_obj EXCEPT ![c] = NONE]
                        /\ cstate' = [cstate EXCEPT ![c] = "idle"]
                        /\ UNCHANGED crashed

-----------------------------------------------------------------------------
(* COPY.  object_cp stops reading from the connection and hands it to a   *)
(* worker; worker_cp_thr's steps below run on that thread.                 *)

object_cp(c, dst, src) ==
    /\ req' = [req EXCEPT ![c] = [op |-> "cp", key |-> dst, key2 |-> src, size |-> 0]]
    /\ cstate' = [cstate EXCEPT ![c] = "copy"]
    /\ wpc' = [wpc EXCEPT ![c] = "open"]
    /\ UNCHANGED <<out_ce, out_bo, out_len, holder, werr, in_obj, in_len, store, gp>>

\* The worker's out: label: cli_in_end, cli_out_end, wi->err, and
\* worker_pipe_signal.
worker_out(c, err) ==
    /\ cli_in_end(c) /\ cli_out_end(c)
    /\ werr' = [werr EXCEPT ![c] = err]
    /\ wpc' = [wpc EXCEPT ![c] = "signal"]

\* fs_obj_open of the source, and in_len.
worker_open(c) ==
    /\ wpc[c] = "open"
    /\ UNCHANGED <<cstate, req, out_len, store, gp>>
    /\ IF store[req[c].key2] = NONE
         THEN worker_out(c, "Error") /\ UNCHANGED in_len
         ELSE /\ in_obj' = [in_obj EXCEPT ![c] =
                             [key |-> req[c].key2, obj |-> store[req[c].key2]]]
              /\ in_len' = [in_len EXCEPT ![c] = store[req[c].key2].size]
              /\ wpc' = [wpc EXCEPT ![c] = "new"]
              /\ UNCHANGED <<out_ce, out_bo, holder, werr>>

\* Mutant: objcache_get_dirty waits for a held entry instead of failing.
worker_new_wait(c) ==
    LET dst == req[c].key
    IN /\ wpc[c] = "new" /\ holder[dst] = NONE
       /\ UNCHANGED <<cstate, req, out_len, in_len, store, gp>>
       /\ \E fail \in Fails :
            IF fail
              THEN /\ cli_in_end(c)
                   /\ out_ce' = [out_ce EXCEPT ![c] = NONE]
                   /\ UNCHANGED <<out_bo, holder>>
                   /\ werr' = [werr EXCEPT ![c] = "Error"]
                   /\ wpc' = [wpc EXCEPT ![c] = "signal"]
              ELSE /\ out_ce' = [out_ce EXCEPT ![c] = dst]
                   /\ holder' = [holder EXCEPT ![dst] = c]
                   /\ out_bo' = [out_bo EXCEPT ![c] = [key |-> dst, data |-> <<>>]]
                   /\ wpc' = [wpc EXCEPT ![c] = "copy"]
                   /\ UNCHANGED <<in_obj, werr>>

\* objcache_get_dirty and fs_obj_new of the destination.
worker_new(c) ==
    LET dst == req[c].key
    IN /\ wpc[c] = "new"
       /\ UNCHANGED <<cstate, req, out_len, in_len, store, gp>>
       /\ IF holder[dst] # NONE
            THEN \* cli->out_ce = NULL: an entry it held before is not put
                 /\ cli_in_end(c)
                 /\ out_ce' = [out_ce EXCEPT ![c] = NONE]
                 /\ UNCHANGED <<out_bo, holder>>
                 /\ werr' = [werr EXCEPT ![c] = "Error"]
                 /\ wpc' = [wpc EXCEPT ![c] = "signal"]
            ELSE \E fail \in Fails :
                 IF fail
                   THEN \* the new entry is put by cli_out_end
                        /\ cli_in_end(c)
                        /\ out_ce' = [out_ce EXCEPT ![c] = NONE]
                        /\ UNCHANGED <<out_bo, holder>>
                        /\ werr' = [werr EXCEPT ![c] = "Error"]
                        /\ wpc' = [wpc EXCEPT ![c] = "signal"]
                   ELSE /\ out_ce' = [out_ce EXCEPT ![c] = dst]
                        /\ holder' = [holder EXCEPT ![dst] = c]
                        /\ out_bo' = [out_bo EXCEPT ![c] = [key |-> dst, data |-> <<>>]]
                        /\ wpc' = [wpc EXCEPT ![c] = "copy"]
                        /\ UNCHANGED <<in_obj, werr>>

\* fs_obj_write's results for rrc bytes: all of them, or, when the backend
\* may fail, fewer (a short write) or an error.
WriteCounts(rrc) == IF BackendFail THEN 1..rrc ELSE {rrc}

\* The inner loop "while (rrc > 0)": every fs_obj_write is passed buf, not
\* buf plus what was already written, so a short write is followed by the
\* chunk's first bytes again.  The outcomes: ok (no write error) and the
\* bytes that reached out_obj.
RECURSIVE WriteOuts(_, _)
WriteOuts(buf, rrc) ==
    IF rrc = 0 THEN {[ok |-> TRUE, data |-> <<>>]}
    ELSE {[ok |-> FALSE, data |-> <<>>] : f \in Fails \ {FALSE}}
         \cup UNION {{[ok |-> o.ok, data |-> SubSeq(buf, 1, w) \o o.data] :
                        o \in WriteOuts(buf, rrc - w)} : w \in WriteCounts(rrc)}

\* The outer loop "while (cli->in_len > 0)" over the source's bytes src
\* from position pos: fs_obj_read of MIN(in_len, CLI_DATA_BUF_SZ) bytes
\* (an error goes to err_out; 0 bytes, at the source's end, breaks out),
\* in_len less what was read, then the writes.  The outcomes add left, the
\* final in_len.
RECURSIVE CopyLoop(_, _, _)
CopyLoop(src, pos, left) ==
    LET buf  == SubSeq(src, pos + 1, MinOf(pos + MinOf(left, BUF), Len(src)))
        stop == [ok |-> TRUE, data |-> <<>>, left |-> left]
    IN IF left = 0 THEN {stop}
       ELSE {[ok |-> FALSE, data |-> <<>>, left |-> left] : f \in Fails \ {FALSE}}
            \cup IF buf = <<>> THEN {stop}
                 ELSE UNION {IF ~w.ok
                               THEN {[ok |-> FALSE, data |-> w.data, left |-> left - Len(buf)]}
                               ELSE {[r EXCEPT !.data = w.data \o @] :
                                       r \in CopyLoop(src, pos + Len(buf), left - Len(buf))}
                             : w \in WriteOuts(buf, Len(buf))}

\* The copy loop, SHA1_Final and fs_obj_write_commit, then out:.  A read
\* or write error or a failed commit goes through err_out, which leaves
\* the half-written destination object in place (the FIXME at err_out):
\* either way the destination holds what the loop wrote, with the size
\* fs_obj_new was given.  A copy has no PUT behind it (by = NONE).
worker_copy(c) ==
    LET src == in_obj[c].obj
    IN /\ wpc[c] = "copy"
       /\ UNCHANGED <<cstate, req, out_len, gp>>
       /\ \E o \in CopyLoop(src.data, 0, in_len[c]), cfail \in Fails :
            /\ in_len' = [in_len EXCEPT ![c] = o.left]
            /\ store' = [store EXCEPT ![req[c].key] =
                           [data |-> o.data, size |-> src.size, by |-> NONE]]
            /\ worker_out(c, IF o.ok /\ ~cfail THEN "Success" ELSE "Error")

\* worker_cp_pipe, on the event loop: resume reading and answer wi->err,
\* keeping the connection only on success.
worker_cp_pipe(c) ==
    /\ wpc[c] = "signal"
    /\ wpc' = [wpc EXCEPT ![c] = "none"]
    /\ cli_err(c, werr[c] = "Success")
    /\ UNCHANGED <<req, out_ce, out_bo, out_len, in_obj, in_len, holder, werr, store, gp>>

-----------------------------------------------------------------------------
(* The connection's life.                                                  *)

\* A disposed connection is freed (cli_out_end, cli_in_end).
cli_free(c) ==
    /\ cstate[c] = "dispose" /\ wpc[c] = "none"
    /\ cli_out_end(c) /\ cli_in_end(c)
    /\ cstate' = [cstate EXCEPT ![c] = "freed"]
    /\ UNCHANGED <<req, out_len, in_len, wpc, werr, store, gp>>

\* The next request on an idle connection, handed to its handler.  A
\* faulted server takes no more requests and runs no more steps.
Accept(c) ==
    /\ ~crashed
    /\ cstate[c] = "idle" /\ nreq[c] < MaxReq
    /\ nreq' = [nreq EXCEPT ![c] = @ + 1]

ReqPut(c)     == Accept(c) /\ \E k \in Keys, n \in PutSizes : object_put(c, k, n) /\ UNCHANGED crashed
ReqGet(c)     == Accept(c) /\ \E k \in Keys, b \in BOOLEAN : object_get(c, k, b) /\ UNCHANGED crashed
ReqGetPart(c) == Accept(c) /\ \E k \in Keys, off \in Offsets, L \in Lengths : object_get_part(c, k, off, L)
ReqDel(c)     == Accept(c) /\ \E k \in Keys : object_del(c, k) /\ UNCHANGED crashed
ReqCopy(c)    == Accept(c) /\ \E k, src \in Keys : object_cp(c, k, src) /\ UNCHANGED crashed

\* Steps of the event loop and of COPY workers.
Running == ~crashed /\ UNCHANGED <<nreq, crashed>>

EvDataIn(c)    == Running /\ cli_evt_data_in(c)
EvGetMore(c)   == Running /\ object_get_more(c)
WorkerOpen(c)  == Running /\ worker_open(c)
WorkerNew(c)   == Running /\ worker_new(c)
WorkerCopy(c)  == Running /\ worker_copy(c)
WorkerPipe(c)  == Running /\ worker_cp_pipe(c)
Free(c)        == Running /\ cli_free(c)

Init ==
    /\ cstate = [c \in Clients |-> "idle"]
    /\ req = [c \in Clients |-> [op |-> "none", key |-> NONE, key2 |-> NONE, size |-> 0]]
    /\ out_ce = [c \in Clients |-> NONE]
    /\ out_bo = [c \in Clients |-> NONE]
    /\ out_len = [c \in Clients |-> 0]
    /\ in_obj = [c \in Clients |-> NONE]
    /\ in_len = [c \in Clients |-> 0]
    /\ wpc = [c \in Clients |-> "none"]
    /\ werr = [c \in Clients |-> "Success"]
    /\ holder = [k \in Keys |-> NONE]
    /\ store = [k \in Keys |-> NONE]
    /\ gp = [c \in Clients |-> NONE]
    /\ nreq = [c \in Clients |-> 0]
    /\ crashed = FALSE

\* Connections that used up their requests stay idle.
Next ==
    \E c \in Clients :
        \/ ReqPut(c) \/ ReqGet(c) \/ ReqGetPart(c) \/ ReqDel(c) \/ ReqCopy(c)
        \/ EvDataIn(c) \/ EvGetMore(c) \/ Free(c)
        \/ WorkerOpen(c) \/ WorkerNew(c) \/ WorkerCopy(c) \/ WorkerPipe(c)

Spec == Init /\ [][Next]_vars

\* A COPY job pushed to the g_thread_pool is run by some worker thread, and
\* worker_pipe_signal wakes the event loop, which runs worker_cp_pipe: the
\* worker's steps and the pipe handler are weakly fair.  The event loop's
\* own handlers depend on the peer and get no fairness.
FairSpec ==
    /\ Spec
    /\ \A c \in Clients :
          /\ WF_vars(WorkerOpen(c)) /\ WF_vars(WorkerNew(c))
          /\ WF_vars(WorkerCopy(c)) /\ WF_vars(WorkerPipe(c))

-----------------------------------------------------------------------------
(* Properties.                                                             *)

MaxSize == CHOOSE m \in PutSizes : \A n \in PutSizes : m >= n
Written == Seq((Clients \X (1..MaxSize)) \cup {Garbage})

TypeOK ==
    /\ cstate \in [Clients -> {"idle", "data_in", "sending", "copy", "dispose", "freed"}]
    /\ out_ce \in [Clients -> Keys \cup {NONE}]
    /\ \A c \in Clients : out_bo[c] = NONE \/ out_bo[c].key \in Keys
    /\ out_len \in [Clients -> 0..MaxSize]
    /\ in_len \in [Clients -> 0..MaxSize]
    /\ wpc \in [Clients -> {"none", "open", "new", "copy", "signal"}]
    /\ holder \in [Keys -> Clients \cup {NONE}]
    /\ \A k \in Keys : store[k] = NONE \/ store[k].data \in Written
    /\ crashed \in BOOLEAN

\* objcache keeps writers of one key apart: at no time do two
\* connections (the event loop's PUTs or COPY workers) have a backend
\* object open for writing under the same key.
DedupLock ==
    \A k \in Keys :
        Cardinality({c \in Clients : out_bo[c] # NONE /\ out_bo[c].key = k}) <= 1

\* Whatever the mix of short reads, write and commit failures, EOF,
\* COPYs and DELs of the key in between, an object a PUT left in the store
\* is exactly the body that PUT sent, of the length it declared:
\* cli_evt_data_in writes each read in full before out_len reaches zero
\* and object_put_end commits.  (A COPY's destination is not held to this:
\* worker_cp_thr's short-write loop and its err_out leave other bytes.)
PutObjectsWhole ==
    \A k \in Keys :
        store[k] # NONE /\ store[k].by # NONE =>
            store[k].data = Body(store[k].by, store[k].size)

\* spec.md section 8: GET-PART of offset O and length L from an object
\* of size S returns L bytes (S - O when L is 0, and never past the end
\* or beyond CHUNK_MAX_GETPART blocks), equal to that slice of the
\* object, and flags the reply "last" exactly when O + length = S --
\* object_get_part's block-aligned read and the copy out of it.
GetPartSlice ==
    \A c \in Clients :
        gp[c] # NONE =>
            LET r == gp[c]
                S == r.size
                want == IF r.L = 0 \/ r.L > S - r.off THEN S - r.off ELSE r.L
            IN /\ r.len = MinOf(want, MAX_GETPART * BLK)
               /\ r.data = SubSeq(r.obj, r.off + 1, r.off + r.len)
               /\ r.last = (r.off + r.len = S)

\* spec.md sections 3 and 5: the dedup entry and a backend object handle
\* are released on every exit path, early error returns included -- a
\* connection that is back to reading requests holds neither.
IdleHoldsNothing ==
    \A c \in Clients :
        cstate[c] = "idle" => out_ce[c] = NONE /\ in_obj[c] = NONE


\* A COPY is always answered: once object_cp hands a connection to a
\* worker (cli_rd_set_poll false), worker_cp_thr runs to its out: label
\* without waiting on anything -- objcache_get_dirty fails rather than
\* waits when the destination's entry is held, even one leaked for good
\* -- and worker_cp_pipe answers and resumes reading, unless the server
\* has faulted.
CopyAnswered ==
    \A c \in Clients : (wpc[c] # "none") ~> (wpc[c] = "none" \/ crashed)

====
