# TLA+ models of hail (CLD lock service and chunkd object store)

This directory holds TLC-checkable TLA+ models of the C sources under `src/`.
Every definition that models code is listed with its source lines in the
`map` of `PROJECT.json`. Every run and what it shows is listed in `runs`.

## The system

| Part | Source | State | Operations |
|---|---|---|---|
| CLD client messenger | `src/lib/cldc.c` | session (`confirmed`, `expired`, `expire_time`, `msg_scan_time`), `out_msg` list (xid, `done`, `expire_time`, callback), incoming window `next_seqid_in`/`_tr`, handle array `sess->fh`, retry timer | `cldc_new_sess`, `cldc_nop`, `cldc_del`, `cldc_open`, `cldc_close`, `cldc_lock`, `cldc_unlock`, `cldc_end_sess`, `cldc_kill_sess`, `cldc_receive_pkt`, `sess_timer` |
| CLD client streams | `src/lib/cldc.c` | `sess->streams`, per-stream buffer | `cldc_put`, `cldc_get`, `cldc_rx_data_c`, `get_end_cb` |
| CLD client directory cursor | `src/lib/cldc.c` | `cld_dirent_cur` | `cldc_dirent_count/first/next/name` |
| CLD server handlers | `src/msg.c` | sessions, inodes, directory blobs, per-session pending data segments | `msg_new_cli`, `msg_open`, `msg_get`, `msg_put`, `msg_data`, `msg_close`, `msg_del` |
| chunkd object engine | `src/chunkd/object.c` | per-connection `in_obj`, `out_bo`, `out_ce`, `in_len`; the objcache of keys being written | `object_put`, `cli_evt_data_in`, `object_put_end`, `object_get`, `object_get_more`, `object_get_part` |
| chunkd copy worker | `src/chunkd/object.c` | the worker item and the wake-up pipe | `object_cp`, `worker_cp_thr`, `worker_cp_pipe` |

How the parts interact:
- The client talks to the CLD server over UDP. Every packet carries a sequence
  id. The client keeps each request in `out_msg` until it is answered or expires.
- `sess_timer` retransmits every request that is not done every
  `CLDC_MSG_RETRY` seconds. It expires the session after `CLDC_SESS_EXPIRE`
  seconds without an accepted server packet.
- The receive path drops requests older than `CLDC_MSG_EXPIRE`. It does this
  once every `CLDC_MSG_SCAN` seconds.
- The server answers each copy of a request it receives. It also sends pings
  and events with its own sequence ids.
- `msg.c` implements an older revision of the wire protocol than `cldc.c`
  (msgid rather than xid, one DATA op rather than DATA-S/DATA-C). The client and
  server are therefore modelled each against an abstract peer, not composed.
- chunkd is independent of CLD. Its object PUT holds a dedup entry in the
  objcache from `object_put` to `object_put_end`. Its copy runs on a worker
  thread that writes fields of the connection which the event loop also uses.

What makes the code hard:
- Loss, duplication and reordering of UDP packets in both directions.
- Retransmission racing late replies.
- Timers racing replies.
- Callbacks that free the session they were called from.
- Sequence-id wrap-around.
- Segment bookkeeping under duplication.
- A worker thread sharing a connection with the event loop.

The hazards, each at its source line, are in `PROJECT.json` under `hazards`.

## Modules

### `CldcSession` (client messenger, `src/lib/cldc.c`)

**State.** The variables correspond to the code as follows:
- `sstate`: the session's allocation: none, live, or freed by `sess_free`.
- `expired`, `confirmed`: the session flags of the same name.
- `sessLeft`, `scanLeft`, `timerLeft`: the `expire_time`, `msg_scan_time` and
  timer deadlines, each kept as "deadline − now", clamped at −1.
- `timerOn`: whether the timer is armed.
- `nextIn`, `nextInTr`: the incoming sequence window.
- `out_msg`: xid → {op, callback, application-callback present, done,
  time left, handle index}.
- `fhs`: the handle array.
- `nextXid`: the next xid to hand out.

The environment is a server that answers every request copy it receives. It
numbers its packets consecutively. It may ping, report not-master, or send an
event on a handle it granted. It may also answer with an error code, for the
two callbacks that branch on the code. The network is two sets of packets:
- a packet in flight may be lost;
- receiving a packet may leave a copy behind (duplication);
- sets give reordering.

Ghost variables count application callbacks (`cbCalls`) and events
(`evCalls`) up to 2. They also record which messages had an application
callback and which were freed, and whether the library touched a freed
session (`uaf`).

**Actions.** There is one action per API call, and the same name is used where
possible:
- `cldc_new_sess`, `cldc_nop_del`, `cldc_open`, `cldc_close`,
  `cldc_lock_unlock`, `cldc_end_sess`, `cldc_kill_sess`;
- `cldc_receive_pkt`, which takes in the scan (`sess_expire_outmsg`), the
  sequence check and the dispatch (`cldc_receive_msg`, `cldc_rx_generic`,
  `cldc_rx_event`), and each callback (`new_sess_cb`, `generic_end_cb`,
  `open_end_cb`, `end_sess_cb`);
- `sess_timer` (retransmit and re-arm, or `sess_expire` with
  `sess_msg_drop`);
- `Tick`, time passing;
- the environment actions.

Sequence ids are taken modulo `SeqMod`. `seqid_in_range` is not in `src/` (it
is a header of the original tree), so it is modelled from the protocol
description, including the wrap-around case.

**Fairness.** The event loop runs a due timer (WF on `sess_timer`), and time
passes (WF on `Tick`). `Tick` is disabled while a timer is due, because the
loop runs due timers first. Nothing is assumed of the server or the network.

### Runs

| Run | Cfg | Bounds | Checks | Result |
|---|---|---|---|---|
| session_callbacks | `MCCldcSession.cfg` | 3 messages, 3 server packets, OK replies only, no pings | `TypeOK`, `RefinesRequests` | pass (3.5M states) |
| session_liveness | `MCCldcLiveness.cfg` | 2 messages, 3 packets, error replies, ping, not-master and events | `RefinesRequests`, `MsgEventuallyFreed`, `StreamReassembles` | pass (463K states) |
| session_use_after_free | `MCCldcUaf.cfg` | 2 messages, 2 packets | `NoUseAfterFree` | violation |
| session_silent_drop | `MCCldcSilentDrop.cfg` | 2 messages, 2 packets | `NoSilentDrop` | violation |
| session_event_twice | `MCCldcEventTwice.cfg` | 2 messages, 3 packets, events | `EventAtMostOnce` | violation |

**Why the bounds are enough.**
- Three messages and three server packets let the following happen in one
  behaviour: NEW-SESS, OPEN and CLOSE; an OPEN reply delivered twice by the
  network (the server itself answers an OPEN once, as `MaxFh = 1`); and
  the second answer arriving after CLOSE, which the refinement forbids to
  reopen the handle.
- Two packets already give a duplicated reply racing a timeout.
- `SESS_EXPIRE = 1` and `MSG_EXPIRE = 2` let both the session expiry and the
  receive-path scan fire in a few ticks.
- The server starts at sequence id 0 and `REMEMBER = 2`, so the first window
  is `[3, 1)` modulo 4 and wraps.

### `CldcRequests` (what the messenger promises, abstract)

The abstract specification of the client library as the application sees
it, from the protocol description's "Outgoing message" and "Session expiry":
- `status[x]`: a request is unsent, pending, answered or freed. It goes
  unsent → pending → answered → freed, or pending → freed (expiry, kill).
- `calls[x]`: how often its completion callback ran. The callback may run
  only as the request leaves pending, and only while `calls[x] = 0`.
- `hstate[i]`: a handle is none → opening → open → closed, and never goes
  back.

One step of `Next` lets any number of requests and handles move (a single
`sess_expire` fails them all) and every other one stay.

`CldcSession` instantiates it with a refinement mapping:
- `ReqStatus(x)`: unsent above `nextXid`, freed once in `freedMsgs`,
  answered when `out_msg[x].done`, pending otherwise;
- `calls <- cbCalls`;
- `HandleState(i)`: none outside the handle array, opening while `fh = 0`,
  open while `valid`, closed afterwards.

`RefinesRequests == Requests!Spec` is a `PROPERTY` of session_callbacks and
of session_liveness (error replies and server notifications): TLC
checks that every step of the detailed model is a step (or stutter) of the
abstract one. This subsumes "a callback runs at most once" and "a late OPEN
reply never revives a closed handle".

**Findings** (the violation runs; details in `PROJECT.json`):
1. `end_sess_cb` frees the session when the application passed no callback.
   `cldc_rx_generic` then acks on the freed session, `sess_msg_drop` keeps
   walking the freed list, and the armed timer later fires on it.
2. `cldc_kill_sess`, the expiry scan and `open_end_cb`'s error and timeout path
   drop requests without running the application's callback. The protocol
   description says no request is silently dropped.
3. A duplicated NEW-SESS reply resets `next_seqid_in`, so server packets
   already handled are dispatched again, and an event is delivered twice.

### `CldcStream` (client DATA-C reassembly, `src/lib/cldc.c`)

Pure operators over the list `sess->streams`, instanced in `MCCldcSession`
as `Stream` with `MaxLen = 3`:
- `sess_stream_open`: the stream `get_end_cb` opens on an OK, non-meta GET
  reply, a record of `strid`, `size`, `left` (`size_left`), `next`
  (`next_seg`), `buf` (the bytes written through `bufp`) and `cb`.
- `cldc_rx_data_c(streams, d)`: the handler, with its rejections in code
  order: -1008 (packet shorter than its `seg_len`), -1009 (no stream with
  that strid), -1010 (`seg # next_seg`), -1011 (`seg_len > size_left`).
  Otherwise it appends the bytes and advances the counters. On a
  zero-length segment of a GET with a callback it hands over `buf` and
  `size - size_left` and unlinks the stream. The result is the return code,
  the new list and the completion, if any.
- `RxAll`: `cldc_receive_msg` dispatching a sequence of DATA-C packets.

`StreamReassembles` (an invariant of session_liveness, a constant check)
compares these operators with spec section 8. It covers every object of up
to 3 bytes and every cut of it into non-empty segments (`Cuts`, recursive)
followed by the terminator:
- in order, the packets rebuild the object exactly, once, and leave no
  stream behind;
- any sequence of up to one packet more than the cut, drawn from the cut's
  packets, a packet of another stream, an overlong first segment and a
  truncated one, completes the GET at most once, with a prefix of the object
  whose size is its length.

Reordering and duplication make the sequence check the one that matters. The
mutant that drops it lets a duplicated segment be appended twice.

### `CldServerPut` (server PUT path, `src/msg.c`)

**State.** The variables correspond to the code as follows:
- `net`: packets in flight from the client.
- `put_q`, `data_q`: the session's `put_q` and `data_q` lists.
- `fhOpen`: whether the handle the PUTs name still exists.
- `inode`: the inode's data.
- `fault`: how the server crashed, or "none".

A byte of data is the pair `<<msgid, segment>>` it came from, so a committed
blob can be compared with what the client sent.

**Actions.**
- `Deliver` runs `msg_put` or `msg_data` for a packet. `msg_data` includes
  `try_commit_data` and its commit: the sum of the queued lengths, the gather
  into `darr`, the handle lookup, the copy loop and `cldb_data_put`.
- `Lose` drops a packet.
- `msg_close` deletes the handle.

An out-of-bounds write into `darr` and a NULL segment are recorded in `fault`.
After a fault the server takes no more steps.

### `CldServerFS` (server namespace and directory blobs, `src/msg.c`, `src/lib/cldc.c`)

**State.** The variables correspond to the code as follows:
- `inodes`: the stored names.
- `data`: each inode's data, a byte sequence. A directory's data is the blob
  of 8-byte-aligned records `[u16 name_len][name][pad]`.
- `listing`: the names a directory should list.
- `sessRec`: the session record in the database, as `session_new_raw`
  encoded `sess->handles` when `msg_open` last wrote it.
- `handles`, `next_fh`, `sessHandles`: the handle table and the session's
  handle list.
- `crashed`: the server faulted.
- `last`: the last reply.

**Actions.** `msg_open`, `msg_del`, `msg_close` and `msg_get` are each one
action. Their guards and error replies come in the code's order.

`msg_get` checks the handle and the inode, sends the header reply (which,
as written, sends the bytes of the pointer `&resp` rather than the reply:
`last.header` records this), then for a GET runs the segment loop
`SegLoop` (RECURSIVE). The loop takes `MIN(1024, left) - 48` as the segment
length, 48 being `sizeof(struct cld_msg_data_resp)`:
- an empty blob sends only the terminator;
- fewer than 48 bytes left gives a negative length and `memcpy` faults;
- 48 or more leaves exactly 48 bytes, the length becomes 0 and the loop
  sends empty segments forever.
The last two set `crashed`: every GET of a non-empty inode fails.

The blob operators translate the byte arithmetic of the code:
- on the server, `dirdata_append`, `dirent_find` (RECURSIVE) and
  `dirdata_delete`;
- on the client, `cldc_dirent_count`, `cldc_dirent_name` and the RECURSIVE
  walk `ClientListing`.

`pathname_parse` models the code as written. Its `memrchr(path, path_len, '/')`
searches for the byte `path_len`. Where that leaves `dir`/`base` undefined, the
outcome is a nondeterministic fault or failure.

**Fault model.** Where `DbFail` holds, each `cldb_*` write of `msg_open`
may fail with `CLE_DB_ERR` (`OpenWriteFails`). The transaction is aborted,
so the database is unchanged, but the session is in memory:
- a failed parent write (create only) changes nothing;
- a failed `cldb_handle_put` leaves `next_fh` advanced;
- a failed inode or session write also leaves the fh in `sess->handles`.
`SessionRecordCurrent` checks that the stored record remains a prefix of the
in-memory list and lists every stored handle. The reverse does not hold:
after a failed open, the next successful one stores the failed open's fh
too, and `msg_close` never removes an fh from the record (hazard
`msg.c:493`).

**Assumptions.** The root inode is stored under the name "/". The database
layer (`cldb_*`) is a set of names with their data. Its reads succeed
unless the code's own checks fail.

### `ChunkdObject` (chunkd object engine and copy worker, `src/chunkd/object.c`)

**State.** The state is kept per connection:
- `cstate`: idle, reading a body, sending a GET, copying, disposed or freed.
- `req`: the request being served.
- `out_ce`, `out_bo`, `out_len`: the writer side.
- `in_obj`, `in_len`: the reader side.
- `wpc`, `werr`: the COPY worker's step and error.
- `gp`: the last GET-PART reply.

The state is also kept per key:
- `holder`: the objcache dirty entry.
- `store`: the object the backend holds, `[data, size, by]`. `by` is the
  connection whose PUT wrote it, or `NONE` for a COPY's destination.

A body byte is `<<connection, index>>`. Bytes past the declared size are
`Garbage`.

**Actions.**
- `ReqPut` runs `object_put`.
- `ReqGet` runs `object_get` with `object_read_bytes`.
- `ReqGetPart` runs `object_get_part`.
- `ReqDel` runs `object_del`.
- `ReqCopy` runs `object_cp`.
- `EvDataIn` runs `cli_evt_data_in`, with `object_put_end` when the body is
  complete.
- `EvGetMore` runs `object_get_more`.
- `WorkerOpen`, `WorkerNew` and `WorkerCopy` are the steps of `worker_cp_thr`.
  Each ends at its `out:` label on error.
- `WorkerPipe` runs `worker_cp_pipe`.
- `Free` runs `cli_free`.

Each backend call (`fs_obj_new`, `fs_obj_write`, `fs_obj_read`, the commit)
may fail where `BackendFail` holds.

**The COPY loop.** `WorkerCopy` runs the whole loop of `worker_cp_thr` as one
step of the worker thread, through `CopyLoop` and `WriteOuts` (both
recursive):
- each `fs_obj_read` returns what the source holds, at most
  `MIN(in_len, CLI_DATA_BUF_SZ)`;
- a read of 0 breaks out of the loop;
- each `fs_obj_write` writes all of `buf`, fewer bytes (a short write, where
  `BackendFail` holds) or fails. The next write starts at `buf` again, as
  the code does.

On success or on `err_out`, the destination holds what the loop wrote, with
the source's size. That follows the FIXME at `err_out` and spec.md's COPY
paragraph. Reads of such a half-written object come up short: GET gives up
the connection, and GET-PART answers an error.

The PUT path's failures leave the store unchanged. Neither the code nor the
protocol description says otherwise. `PutObjectsWhole` holds every object a
PUT wrote to its whole body. It does not cover copies, which the code does
not keep whole (see the findings below).

`cli_err`, `cli_free` and request dispatch live in `chunkd/server.c`, which is
not under `src/`. They are modelled from their effect:
- `cli_err(.., true)` returns to reading requests;
- `cli_err(.., false)` disposes of the connection;
- `cli_free` ends both sides.

**Fairness.** `FairSpec` adds weak fairness to the COPY worker's steps and
to `worker_cp_pipe`: `object_cp` pushes the job to a `g_thread_pool`, whose
threads run every job pushed, and `worker_pipe_signal` wakes the event
loop, which runs the pipe handler. The handlers driven by the peer (new
requests, body reads, GET continuations) get no fairness. `CopyAnswered`
checks under it that a connection handed to a worker is always answered
and read again: the worker never waits, not even on an entry that
`object_put` leaked. The CLD server runs check safety only.

## Runs of the server models

| Run | Cfg | Bounds | Checks | Result |
|---|---|---|---|---|
| put_reordered | `MCCldServerPut.cfg` | 2 PUTs × 3 one-byte segments, no duplication, close allowed | `TypeOK`, `CommitIsExact`, `NoCrash` | pass (12.6K states) |
| put_duplicated | `MCCldServerPutDup.cfg` | the same, duplication on | `CommitIsExact` | violation |
| fs_directory | `MCCldServerFS.cfg` | 6 names (below); 3 handles; GET and GET-META on each; failing `msg_open` writes | `TypeOK`, `ListingMatches`, `SessionRecordCurrent` | pass (21.9K states) |
| fs_delete_roundtrip | `MCCldServerFSDelete.cfg` | the same | `DeleteRestores` | violation |
| fs_create_scenario | `MCCldServerFSCreate.cfg` | the same | `CreateOnEmptyRoot` | violation |
| chunkd_object | `MCChunkdObject.cfg` | 2 connections, 2 keys, 2 requests each, sizes 1 and 3, buffer and block 2, GET-PART max 1 block | `TypeOK`, `DedupLock`, `PutObjectsWhole`, `GetPartSlice`, `CopyAnswered` | pass (1.65M states) |
| chunkd_lock_leak | `MCChunkdLeak.cfg` | the same | `IdleHoldsNothing` | violation |

**Why the bounds are enough.**
- *PUT path.* One-byte segments make a missing or doubled segment visible in
  the data. With three segments, a doubled later segment can reach
  `data_size` while an earlier segment is missing. Two PUTs share the queues.
- *Directory names.* The names are chosen so that every outcome of
  `pathname_parse` occurs:
  - "/a" finds no split;
  - "/" followed by 46 bytes is the one length, 47, at which `memrchr`
    searches for '/' itself;
  - "/", byte 3, "a" contains its own length, so it splits into "/" and "a";
  - "/", byte 5, "/", byte 3, "a" splits with the previous name as its
    base, so deleting that name reaches `dirdata_delete`;
  - "/" itself, the root, so GET reads the root's blob;
  - "/", "." and 44 bytes "b" is 46 bytes long and splits at the '.',
    whose byte value is 46, into "/" and a 44-byte base; creating it
    appends a 48-byte record to the root: GET of the root
    then reaches the endless loop, and a shorter blob the fault.
- *chunkd.* The buffer of 2 makes a 3-byte body take two reads, and a COPY
  loop write a 2-byte chunk that a short write can cut. Block size 2 puts
  offset 1 inside a block. With offset 0, a 3-byte object's GET-PART of
  length 0 or 2 is cut at the one-block maximum and is not "last". With
  offset 1 it runs to the end and is "last". A 1-byte object at offset 1
  reaches `SHA1(NULL, n)`. Two connections give two writers of a key and COPY
  racing PUT and DEL.

**Findings** (details in `PROJECT.json`):
1. `try_commit_data` counts a duplicated DATA segment twice. It then commits
   before every segment has arrived and stores uninitialised memory.
2. `dirent_find` is off by two. It never matches the last record of a blob,
   so a name just appended cannot be deleted.
3. `pathname_parse` swaps `memrchr`'s arguments. `open("/a", CREATE)` on a
   fresh server faults or fails instead of returning fh 1.
4. `object_put` keeps the objcache entry when `fs_obj_new` fails. The
   connection is recycled still holding it, so the key stays locked.
   `object_get_part`'s error paths likewise keep `in_obj`.

The following were observed while modelling but are listed only as hazards,
without a run:
- `cldb_inode_new` is given the base name, not the full path.
- An open-create of an existing name appends a duplicate record.
- The handle is listed before the failure points.
- GET-PART at an unaligned end calls `SHA1(NULL, n)`.
- `worker_cp_thr` retries a short `fs_obj_write` from `buf`, not from `buf`
  plus what was written (object.c:515). The model reaches a committed copy
  `[b1, b1]` of a source `[b1, b2]`. `cli_evt_data_in`'s loop does not have
  this defect.
- A failed COPY leaves the half-written destination in the store (the FIXME
  at object.c:539). A later COPY from it reads 0 bytes before `in_len` is
  zero, breaks out of the loop and commits a short copy.

## Plan for the remaining parts

1. **CldcStream**: the GET exchange (reply, then DATA-C packets) as
   actions of a smaller session, and `cldc_put` segmentation. The
   reassembly itself is modelled.
2. Composing the CLD client and server once a common protocol revision is
   fixed. They currently disagree on the DATA opcodes.

## Not modelled

- HMAC signing and checking: the model assumes authentic packets.
- The SHA-1 object hashes.
- The database calls (`cldb_*`, `fs_obj_*`) beyond whether they succeed or
  fail, and what they store.
- chunkd's network layer and `server.c`: only the effects of `cli_err` and
  `cli_free` are modelled.
- `chcli`, the load tests, and the headers (types and constants only).
  `chcli`'s loops run over the chunkd client library (`stc_*`), which is
  not under `src/`. Two hazards in them are listed: `cmd_get` subtracts the
  bytes written rather than those received, and `recv_buf` may spin at end
  of stream.
- The client's data streams beyond reassembly (`cldc_put`, and the GET
  exchange as session actions; `cldc_rx_data_c` and `sess_stream_open` are
  modelled in `CldcStream`). A GET adds a reply, several DATA-C packets and a
  terminator to a session model that is already at 3.5 million states, and
  the stream code speaks a different wire revision than the server in
  `src/`. Two defects found by reading it are listed as hazards: `cldc_put`
  copies a full 1024-byte segment past a 1024-byte allocation, and
  `get_end_cb` compares the name length with `sizeof(CLD_INODE_NAME_MAX)`.
  Three more are listed without a property:
  - a GET without a callback never unlinks its stream;
  - `get_end_cb` ignores `sess_stream_open`'s -ENOMEM, so that GET never
    completes;
  - after a -1011 overflow every later segment fails the sequence check,
    so the GET stalls.
- `msg_new_cli` and `session_timeout` on the server. Which sessions exist and
  how packets reach them is decided by `server.c`, not under `src/`.
  `session_timeout` is an empty FIXME, and `msg_new_cli` frees a session it
  has already put in the hash table when `evtimer_add` fails; both are
  listed as hazards.
