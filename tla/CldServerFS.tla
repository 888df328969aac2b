---------------------------- MODULE CldServerFS -----------------------------
(***************************************************************************)
(* The CLD server's namespace handlers, src/msg.c: msg_open (with and      *)
(* without COM_CREATE, its cldb writes possibly failing), msg_del,         *)
(* msg_close and msg_get, on one session, together with the directory      *)
(* blob they maintain (dirdata_append, dirent_find,                        *)
(* dirdata_delete) and the client library's decoder of that blob           *)
(* (cldc_dirent_count, cldc_dirent_first/next/name in src/lib/cldc.c).     *)
(*                                                                         *)
(* A name is a sequence of byte values.  Every handler runs in one        *)
(* database transaction that is aborted when the handler fails, so a      *)
(* failing handler leaves the database unchanged.  The database itself    *)
(* (the cldb calls) is outside src/: an inode is stored, and found, under *)
(* the name cldb_inode_new is given; an inode created by cldb_inode_new    *)
(* has no data record until cldb_data_put writes one.                      *)
(***************************************************************************)
EXTENDS Integers, Sequences, SequencesExt, FiniteSets

CONSTANTS
    Paths,     \* the names clients send in OPEN and DEL requests
    RootName,  \* the name the root inode is stored under
    MaxFh,     \* bound on the handles the session allocates
    DbFail     \* the cldb writes of msg_open may fail

SLASH == 47

VARIABLES
    inodes,       \* names of the inodes in the database
    data,         \* inode name -> its data record (a directory blob)
    listing,      \* ghost: inode name -> the names added to it and not removed
    handles,      \* handle records in the database: [fh, ino]
    next_fh,      \* sess->next_fh
    sessHandles,  \* sess->handles, the session's in-memory list of fhs
    sessRec,      \* the session record in the database: its list of fhs
    crashed,      \* the server faulted, or its event loop hangs in msg_get
    last          \* ghost: the last request and its reply

vars == <<inodes, data, listing, handles, next_fh, sessHandles, sessRec, crashed, last>>

-----------------------------------------------------------------------------
(* The directory blob: records uint16 LE name length | name | zero pad to  *)
(* a multiple of 8 bytes.  Positions are 0-based byte offsets.             *)

ALIGN8(n)       == (8 - (n % 8)) % 8
Zeros(k)        == [i \in 1..k |-> 0]
U16(d, pos)     == d[pos + 1] + 256 * d[pos + 2]
RecTotal(len)   == len + 2 + ALIGN8(len + 2)

\* Mutant: the pad is computed from the name length, not the record length.
dirdata_append_pad(d, name) ==
    d \o <<Len(name) % 256, Len(name) \div 256>> \o name \o Zeros(ALIGN8(Len(name)))

dirdata_append(d, name) ==
    d \o <<Len(name) % 256, Len(name) \div 256>> \o name \o Zeros(ALIGN8(Len(name) + 2))

\* dirent_find's loop: p and tmp_len are advanced past the length field
\* before total_len (which counts that field again) is compared and added.
RECURSIVE FindFrom(_, _, _, _)
FindFrom(d, name, pos, tmp) ==
    IF tmp = 0 THEN [rc |-> -1, ofs |-> 0, ent_len |-> 0]
    ELSE IF tmp < 2 THEN [rc |-> -2, ofs |-> 0, ent_len |-> 0]
    ELSE LET total == RecTotal(U16(d, pos))
         IN IF total > tmp - 2 THEN [rc |-> -2, ofs |-> 0, ent_len |-> 0]
            ELSE IF U16(d, pos) = Len(name)
                    /\ SubSeq(d, pos + 3, pos + 2 + Len(name)) = name
                 THEN IF tmp - 2 = 0 THEN [rc |-> -1, ofs |-> 0, ent_len |-> 0]
                      ELSE [rc |-> 0, ofs |-> pos, ent_len |-> total]
                 ELSE FindFrom(d, name, pos + 2 + total, tmp - 2 - total)

dirent_find(d, name) == FindFrom(d, name, 0, Len(d))

\* Mutant: the tail is never moved down; the blob is just shortened.
dirdata_delete_nomove(d, name) ==
    LET f == dirent_find(d, name)
    IN IF f.rc # 0 THEN [ok |-> FALSE, data |-> d]
       ELSE [ok |-> TRUE, data |-> SubSeq(d, 1, Len(d) - f.ent_len)]

dirdata_delete(d, name) ==
    LET f == dirent_find(d, name)
    IN IF f.rc # 0 THEN [ok |-> FALSE, data |-> d]
       ELSE [ok |-> TRUE,
             data |-> SubSeq(d, 1, f.ofs) \o SubSeq(d, f.ofs + f.ent_len + 1, Len(d))]

(* The client's decoder. *)

RECURSIVE CountFrom(_, _, _)
CountFrom(d, pos, tmp) ==
    IF tmp = 0 THEN 0
    ELSE IF tmp < 2 \/ RecTotal(U16(d, pos)) > tmp THEN -2
    ELSE LET c == CountFrom(d, pos + RecTotal(U16(d, pos)), tmp - RecTotal(U16(d, pos)))
         IN IF c < 0 THEN c ELSE c + 1

cldc_dirent_count(d) == CountFrom(d, 0, Len(d))

dirent_length(d, pos, len) ==
    IF len < 2 THEN -1
    ELSE IF RecTotal(U16(d, pos)) > len THEN -1
    ELSE RecTotal(U16(d, pos))

cldc_dirent_name(d, pos) == SubSeq(d, pos + 3, pos + 2 + U16(d, pos))

\* A client's listing loop: cldc_dirent_first, then cldc_dirent_name and
\* cldc_dirent_next until next reports no further entry.
RECURSIVE WalkFrom(_, _, _)
WalkFrom(d, pos, tmp) ==
    LET dl == dirent_length(d, pos, tmp)
    IN IF dirent_length(d, pos + dl, tmp - dl) < 0
         THEN <<cldc_dirent_name(d, pos)>>
         ELSE <<cldc_dirent_name(d, pos)>> \o WalkFrom(d, pos + dl, tmp - dl)

ClientListing(d) ==
    IF dirent_length(d, 0, Len(d)) < 0 THEN <<>> ELSE WalkFrom(d, 0, Len(d))

-----------------------------------------------------------------------------
(* Names.                                                                  *)

valid_inode_name(p) ==
    /\ Len(p) > 0
    /\ \A i \in 1..Len(p) : p[i] # 0
    /\ p[1] = SLASH
    /\ Len(p) > 1 => p[Len(p)] # SLASH
    /\ ~\E i \in 1..(Len(p) - 1) : p[i] = SLASH /\ p[i + 1] = SLASH

(* pathname_parse calls memrchr(path, path_len, '/'): it looks for the     *)
(* byte value path_len in the first 47 ('/') bytes from path.  A hit k    *)
(* inside the name splits it into dir = path[1..k-1] and base =           *)
(* path[k+1..].  When the name is shorter than 47 bytes the search runs   *)
(* on into whatever follows it in the packet buffer, and a hit there, or  *)
(* no hit (lsl = NULL), leaves dir_len and base_len as garbage: the next  *)
(* use of them either faults or fails.                                     *)
Wild == {[kind |-> "wild_crash", dir |-> <<>>, base |-> <<>>],
         [kind |-> "wild_fail",  dir |-> <<>>, base |-> <<>>]}

pathname_parse(path) ==
    LET n    == Len(path)
        hits == {k \in 1..(IF n < 47 THEN n ELSE 47) : path[k] = n % 256}
        inName == IF hits = {} THEN {}
                  ELSE LET k == Max(hits)
                       IN {[kind |-> "split", dir |-> SubSeq(path, 1, k - 1),
                            base |-> SubSeq(path, k + 1, n)]}
    IN inName \cup (IF n < 47 \/ hits = {} THEN Wild ELSE {})

-----------------------------------------------------------------------------
(* The handlers.  A request names a path (OPEN, DEL) or a handle (CLOSE); *)
(* rc is the reply code.  A failing handler aborts its transaction.        *)

Reply(op, path, create, rc, fh) ==
    last' = [op |-> op, path |-> path, create |-> create, rc |-> rc, fh |-> fh,
             emptyRoot |-> RootName \in DOMAIN data /\ data[RootName] = <<>>
                           /\ next_fh = 0]

Fail(op, path, create, rc) ==
    /\ Reply(op, path, create, rc, 0)
    /\ crashed' = (rc = "crash")
    /\ UNCHANGED <<inodes, data, listing, handles, next_fh, sessHandles, sessRec>>

\* Mutant: the session record is encoded before the new fh is appended.
OpenHandle_rawfirst(path, create, ino) ==
    /\ next_fh' = next_fh + 1
    /\ handles' = handles \cup {[fh |-> next_fh + 1, ino |-> ino]}
    /\ sessHandles' = Append(sessHandles, next_fh + 1)
    /\ sessRec' = sessHandles
    /\ Reply("open", path, create, "OK", next_fh + 1)
    /\ UNCHANGED crashed

\* cldb_handle_new (which advances sess->next_fh), cldb_handle_put,
\* g_array_append_val(sess->handles), session_new_raw (session_encode of
\* the list), inode_append, the inode and session writes, reply OK.
OpenHandle(path, create, ino) ==
    /\ next_fh' = next_fh + 1
    /\ handles' = handles \cup {[fh |-> next_fh + 1, ino |-> ino]}
    /\ sessHandles' = Append(sessHandles, next_fh + 1)
    /\ sessRec' = sessHandles'
    /\ Reply("open", path, create, "OK", next_fh + 1)
    /\ UNCHANGED crashed

\* A cldb write of msg_open fails with CLE_DB_ERR and the transaction is
\* aborted, but sess lives in memory: a failed cldb_handle_put leaves
\* next_fh advanced by cldb_handle_new, and a failed inode or session write
\* (or session_new_raw or inode_append running out of memory) leaves the
\* fh appended to sess->handles as well.  Writes before cldb_handle_new
\* (the parent's data and inode, for a create) change nothing.
DbWrites(create) ==
    IF ~DbFail THEN {}
    ELSE {"handle_put", "inode_put"} \cup (IF create THEN {"parent_put"} ELSE {})

OpenWriteFails(path, create, step) ==
    /\ Reply("open", path, create, "DB_ERR", 0)
    /\ next_fh' = IF step = "parent_put" THEN next_fh ELSE next_fh + 1
    /\ sessHandles' = IF step = "inode_put" THEN Append(sessHandles, next_fh + 1)
                      ELSE sessHandles
    /\ UNCHANGED <<inodes, data, listing, handles, sessRec, crashed>>

\* msg_open: an existing inode is opened; with COM_CREATE a new inode is
\* made under the parsed base name (whether or not the path exists) and
\* the base is appended to the parent's directory blob.
msg_open(path, create) ==
  \E pr \in pathname_parse(path) :
    LET parent == pr.dir
    IN CASE ~valid_inode_name(path) \/ (create /\ Len(path) < 2) ->
              Fail("open", path, create, "NAME_INVAL")
         [] path \notin inodes /\ ~create ->
              Fail("open", path, create, "INODE_INVAL")
         [] ~create ->
              \/ /\ OpenHandle(path, create, path)
                 /\ UNCHANGED <<inodes, data, listing>>
              \/ \E step \in DbWrites(create) : OpenWriteFails(path, create, step)
         [] pr.kind = "wild_crash" ->
              Fail("open", path, create, "crash")
         [] pr.kind = "wild_fail" ->
              Fail("open", path, create, "OOM")
         [] parent \notin inodes \/ parent \notin DOMAIN data ->
              Fail("open", path, create, "DB_ERR")
         [] OTHER ->
              \/ /\ inodes' = inodes \cup {pr.base}
                 /\ data' = [data EXCEPT ![parent] = dirdata_append(@, pr.base)]
                 /\ listing' = [listing EXCEPT ![parent] = Append(@, pr.base)]
                 /\ OpenHandle(path, create, pr.base)
              \/ \E step \in DbWrites(create) : OpenWriteFails(path, create, step)

\* msg_del: parent lookup and data read, cldb_inode_del_byname of the
\* full path, dirdata_delete of the base, parent data and inode writes.
msg_del(path) ==
  \E pr \in pathname_parse(path) :
    LET parent == pr.dir
        del    == dirdata_delete(data[parent], pr.base)
    IN CASE ~valid_inode_name(path) \/ Len(path) < 2 ->
              Fail("del", path, FALSE, "NAME_INVAL")
         [] pr.kind = "wild_crash" ->
              Fail("del", path, FALSE, "crash")
         [] pr.kind = "wild_fail" \/ parent \notin inodes
              \/ parent \notin DOMAIN data ->
              Fail("del", path, FALSE, "DB_ERR")
         [] path \notin inodes ->
              Fail("del", path, FALSE, "INODE_INVAL")
         [] ~del.ok ->
              Fail("del", path, FALSE, "DB_ERR")
         [] OTHER ->
              /\ inodes' = inodes \ {path}
              /\ data' = [data EXCEPT ![parent] = del.data]
              /\ listing' = [listing EXCEPT ![parent] =
                               RemoveAt(@, SelectInSeq(@, LAMBDA x : x = pr.base))]
              /\ Reply("del", path, FALSE, "OK", 0)
              /\ UNCHANGED <<handles, next_fh, sessHandles, sessRec, crashed>>

\* msg_close: cldb_handle_del, CLE_FH_INVAL if there is no such handle.
\* sess->handles is left as it is.
msg_close(fh) ==
    IF \E h \in handles : h.fh = fh
      THEN /\ handles' = {h \in handles : h.fh # fh}
           /\ Reply("close", <<>>, FALSE, "OK", fh)
           /\ UNCHANGED <<inodes, data, listing, next_fh, sessHandles, sessRec, crashed>>
      ELSE Fail("close", <<>>, FALSE, "FH_INVAL")

(* msg_get: the handle and inode lookups, the header reply, then, unless  *)
(* only metadata is wanted, cldb_data_get and the segment loop.  The       *)
(* header reply is udp_tx(&resp, sizeof(resp)): the bytes of the pointer    *)
(* variable resp, not the reply it points to.                              *)

HDR     == 48      \* sizeof(struct cld_msg_data_resp)
UDP_SEG == 1024    \* CLD_MAX_UDP_SEG

\* The segment loop over d from byte offset p with segment number i.
\* seg_len = MIN(CLD_MAX_UDP_SEG, left) - sizeof(*dr), taken as a signed
\* int: a negative length reaches memcpy as a huge size_t and faults; a
\* zero length leaves data_mem_len unchanged, so the loop sends empty
\* segments for ever.  When nothing is left, the terminator is sent.
RECURSIVE SegLoop(_, _, _)
SegLoop(d, p, i) ==
    LET left   == Len(d) - p
        seglen == Min({UDP_SEG, left}) - HDR
    IN IF left = 0 THEN [end |-> "done", segs |-> <<[seg |-> i, bytes |-> <<>>]>>]
       ELSE IF seglen < 0 THEN [end |-> "crash", segs |-> <<>>]
       ELSE IF seglen = 0 THEN [end |-> "hang", segs |-> <<>>]
       ELSE LET r == SegLoop(d, p + seglen, i + 1)
            IN [end  |-> r.end,
                segs |-> <<[seg |-> i, bytes |-> SubSeq(d, p + 1, p + seglen)]>> \o r.segs]

\* The reply a GET produced: the header bytes sent, the data segments sent
\* and how the handler ended.
GetReply(fh, meta, rc, segs) ==
    last' = [op |-> "get", path |-> <<>>, create |-> meta, rc |-> rc, fh |-> fh,
             emptyRoot |-> FALSE, header |-> "pointer", segs |-> segs]

msg_get(fh, meta) ==
    LET hs == {h \in handles : h.fh = fh}
        ino == (CHOOSE h \in hs : TRUE).ino
    IN /\ UNCHANGED <<inodes, data, listing, handles, next_fh, sessHandles, sessRec>>
       /\ CASE hs = {} ->
                 Fail("get", <<>>, meta, "FH_INVAL")
            [] ino \notin inodes ->
                 Fail("get", <<>>, meta, "INODE_INVAL")
            [] meta ->
                 GetReply(fh, meta, "OK", <<>>) /\ UNCHANGED crashed
            [] ino \notin DOMAIN data ->
                 \* the header has gone out; resp_err follows it
                 GetReply(fh, meta, "DB_ERR", <<>>) /\ UNCHANGED crashed
            [] OTHER ->
                 LET r == SegLoop(data[ino], 0, 0)
                 IN /\ GetReply(fh, meta, r.end, r.segs)
                    /\ crashed' = (r.end # "done")

Init ==
    /\ inodes = {RootName}
    /\ data = [n \in {RootName} |-> <<>>]
    /\ listing = [n \in {RootName} |-> <<>>]
    /\ handles = {}
    /\ next_fh = 0
    /\ sessHandles = <<>>
    /\ sessRec = <<>>
    /\ crashed = FALSE
    /\ last = [op |-> "none", path |-> <<>>, create |-> FALSE, rc |-> "OK",
               fh |-> 0, emptyRoot |-> FALSE]

\* A crashed server handles nothing more; next_fh is bounded by MaxFh.
Next ==
    /\ ~crashed
    /\ \/ next_fh < MaxFh /\ \E p \in Paths, c \in BOOLEAN : msg_open(p, c)
       \/ \E p \in Paths : msg_del(p)
       \/ \E fh \in 1..MaxFh : msg_close(fh)
       \/ \E fh \in 1..MaxFh, meta \in BOOLEAN : msg_get(fh, meta)

Spec == Init /\ [][Next]_vars

-----------------------------------------------------------------------------
(* Properties.                                                             *)

\* The names a create can store and append: the bases pathname_parse
\* splits off.
Bases       == UNION {{pr.base : pr \in {q \in pathname_parse(p) : q.kind = "split"}} : p \in Paths}
StoredNames == {RootName} \cup Paths \cup Bases

\* Besides the types: every directory blob is a whole number of 8-byte
\* aligned records, as dirdata_append pads them.
TypeOK ==
    /\ inodes \subseteq StoredNames
    /\ DOMAIN data \subseteq StoredNames
    /\ \A n \in DOMAIN data : data[n] \in Seq(0..255) /\ Len(data[n]) % 8 = 0
    /\ DOMAIN listing = DOMAIN data
    /\ handles \subseteq [fh : 1..MaxFh, ino : StoredNames]
    /\ next_fh \in 0..MaxFh
    /\ sessHandles \in Seq(1..MaxFh)
    /\ sessRec \in Seq(1..MaxFh)
    /\ crashed \in BOOLEAN

\* What a client reads back from a directory (cldc_dirent_count and the
\* first/name/next walk over the blob msg.c wrote) is exactly the names
\* the server's creates added to it and its deletes removed, in order,
\* whatever mix of creates, duplicate creates and deletes came before.
ListingMatches ==
    \A n \in DOMAIN data :
        /\ ClientListing(data[n]) = listing[n]
        /\ cldc_dirent_count(data[n]) = Len(listing[n])

\* spec.md section 8: "appending then deleting the same name restores the
\* directory blob to its original byte sequence" -- dirdata_append
\* followed by dirdata_delete, on every blob the server reaches.
DeleteRestores ==
    \A n \in DOMAIN data, b \in Bases :
        dirdata_delete(dirdata_append(data[n], b), b) = [ok |-> TRUE, data |-> data[n]]

\* spec.md section 8: open("/a", CREATE) on an empty root succeeds, returns
\* fh 1 and leaves the root's blob as the one record 01 00 'a' + 5 pad
\* bytes -- msg_open with pathname_parse on a fresh server.
CreateOnEmptyRoot ==
    (last.op = "open" /\ last.create /\ last.path = <<SLASH, 97>> /\ last.emptyRoot)
        => /\ last.rc = "OK" /\ last.fh = 1
           /\ data[RootName] = <<1, 0, 97, 0, 0, 0, 0, 0>>


\* Whichever cldb writes of msg_open fail in between, the session record in
\* the database is what sess->handles held when it was last written (the
\* in-memory list only grows, failed opens included), and it lists every
\* handle stored in the database: msg_open writes the handle and the
\* record encoded by session_new_raw after g_array_append_val in one
\* transaction, and msg_close deletes only the handle.
SessionRecordCurrent ==
    /\ sessRec = SubSeq(sessHandles, 1, Len(sessRec))
    /\ \A h \in handles : \E i \in DOMAIN sessRec : sessRec[i] = h.fh

====

