---------------------------- MODULE CldcSession ----------------------------
(***************************************************************************)
(* The CLD client library's reliable-messaging core, src/lib/cldc.c: one   *)
(* session, its outgoing-message list (out_msg), the incoming sequence-id  *)
(* window, the retry/expiry timer, the file-handle table, and the receive  *)
(* path with its per-operation completion callbacks.                       *)
(*                                                                         *)
(* Time is abstracted to countdowns: every deadline the code keeps as an   *)
(* absolute time_t (expire_time, msg_scan_time, the timer, each message's  *)
(* expire_time) is kept as "deadline - now", clamped at -1 because the     *)
(* code only ever compares it with now (> or >=).                          *)
(*                                                                         *)
(* The server and the UDP network are the environment: the server answers *)
(* every request it receives, pings, and sends events, numbering all its   *)
(* packets with consecutive sequence ids; the network loses, duplicates    *)
(* and reorders packets in both directions.                                *)
(***************************************************************************)
EXTENDS Integers, FiniteSets, Functions, TLC

CONSTANTS
    MaxMsgs,        \* messages the client creates (each gets a fresh xid)
    MaxSrvPkts,     \* packets the server sends
    MaxFh,          \* cldc_open calls
    SeqMod,         \* sequence ids are taken modulo SeqMod (uint64 in the code)
    REMEMBER,       \* CLDC_MSG_REMEMBER, the acceptance window
    MSG_RETRY,      \* CLDC_MSG_RETRY, the timer period
    MSG_SCAN,       \* CLDC_MSG_SCAN
    SESS_EXPIRE,    \* CLDC_SESS_EXPIRE
    MSG_EXPIRE,     \* CLDC_MSG_EXPIRE
    SrvStartSeqs,   \* the server's possible first sequence ids
    SessOps,        \* the session requests the application issues: nop, del
    FhOps,          \* the handle requests: lock, trylock, unlock
    NotifyOps,      \* the unsolicited packets the server sends
    ErrOps          \* the requests the server may answer with an error

ASSUME REMEMBER < SeqMod /\ MSG_RETRY > 0 /\ SESS_EXPIRE > 0
ASSUME SessOps \subseteq {"nop", "del"} /\ FhOps \subseteq {"lock", "trylock", "unlock"}
ASSUME NotifyOps \subseteq {"ping", "not_master", "event"}
ASSUME ErrOps \subseteq {"new_sess", "open"}

VARIABLES
    sstate,     \* "none" before cldc_new_sess, "live", "freed" after sess_free
    expired,    \* sess->expired
    confirmed,  \* sess->confirmed
    sessLeft,   \* sess->expire_time - now
    scanLeft,   \* sess->msg_scan_time - now
    timerOn,    \* the timer armed through ops->timer_ctl
    timerLeft,  \* time until it fires
    nextIn,     \* sess->next_seqid_in
    nextInTr,   \* sess->next_seqid_in_tr
    out_msg,    \* sess->out_msg: xid -> message
    fhs,        \* sess->fh: index -> [fh, valid]
    nextXid,    \* the next fresh xid (__cld_rand64 in the code)
    c2s,        \* client packets in flight
    s2c,        \* server packets in flight
    srvSeq,     \* the server's next outgoing sequence id
    srvSent,    \* packets the server has sent
    srvFh,      \* handles the server has granted
    cbCalls,    \* xid -> times the application's completion callback ran
    appMsgs,    \* xids whose message carries an application callback
    freedMsgs,  \* xids whose message has been freed
    evCalls,    \* server packet id -> times its event reached the application
    failEvents, \* CE_SESS_FAILED events delivered to the application
    uaf         \* the library touched the session after freeing it

sessVars  == <<sstate, expired, confirmed, sessLeft, scanLeft, timerOn,
               timerLeft, nextIn, nextInTr, out_msg, fhs, nextXid>>
netVars   == <<c2s, s2c, srvSeq, srvSent, srvFh>>
ghostVars == <<cbCalls, appMsgs, freedMsgs, evCalls, failEvents, uaf>>
vars      == <<sessVars, netVars, ghostVars>>

Xids     == 1..MaxMsgs
Pids     == 0..(MaxSrvPkts - 1)
Seqs     == 0..(SeqMod - 1)
FhNums   == 1..MaxFh
ReqOps   == {"new_sess", "nop", "del", "open", "close", "lock", "trylock",
             "unlock", "end_sess"}
SrvOps   == ReqOps \cup {"ping", "event", "not_master"}
Codes    == {"OK", "ERR"}
Cbs      == {"new_sess_cb", "generic_end_cb", "open_end_cb", "end_sess_cb"}
Left(n)  == -1..n

MsgRec   == [op : ReqOps, cb : Cbs, app : BOOLEAN, done : BOOLEAN,
             left : Left(MSG_EXPIRE), fi : 0..MaxFh]
SrvPkt   == [pid : Pids, seq : Seqs, op : SrvOps, xid : Xids \cup {0},
             code : Codes, fh : FhNums \cup {0}]
CliPkt   == [xid : Xids, op : ReqOps]
NoMsgs   == [x \in {} |-> 0]

Dec(d)   == IF d > -1 THEN d - 1 ELSE -1

\* Ghost counters only need to tell 0, 1 and "more than once" apart.
Bump(n)  == IF n < 2 THEN n + 1 ELSE 2

-----------------------------------------------------------------------------
(* Sequence-id arithmetic.                                                 *)

\* seqid_in_range(a, b, c) of cld_msg.h: a lies in the window [b, c),
\* which may wrap around the top of the sequence space.
seqid_in_range(a, b, c) ==
    IF b <= c THEN b <= a /\ a < c ELSE b <= a \/ a < c

\* cldc_receive_pkt's sequence check, lines 479-502: a new-session reply
\* and not-master bypass it; anything else must carry next_seqid_in.
Accepts(p) == p.op \in {"new_sess", "not_master"} \/ p.seq = nextIn

\* Mutant: the window's trailing edge computed in signed arithmetic, so
\* it goes negative instead of wrapping below zero.
AdvanceWindow_signed(p) ==
    CASE p.op = "new_sess" ->
            /\ nextIn' = (p.seq + 1) % SeqMod
            /\ nextInTr' = p.seq + 1 - REMEMBER
      [] p.op = "not_master" -> UNCHANGED <<nextIn, nextInTr>>
      [] OTHER ->
            /\ nextIn' = (nextIn + 1) % SeqMod
            /\ nextInTr' = (nextInTr + 1) % SeqMod

\* The window update of an accepted packet.
AdvanceWindow(p) ==
    CASE p.op = "new_sess" ->
            /\ nextIn' = (p.seq + 1) % SeqMod
            /\ nextInTr' = (p.seq + 1 - REMEMBER) % SeqMod
      [] p.op = "not_master" -> UNCHANGED <<nextIn, nextInTr>>
      [] OTHER ->
            /\ nextIn' = (nextIn + 1) % SeqMod
            /\ nextInTr' = (nextInTr + 1) % SeqMod

-----------------------------------------------------------------------------
(* Creating and sending messages.                                          *)

\* sess_send: the message's packet is sent once.
sess_send(x, op) == c2s' = c2s \cup {[xid |-> x, op |-> op]}

\* cldc_new_msg then sess_send: a fresh xid and expiry, the message joins
\* out_msg and its packet is sent.
SendNew(op, cb, app, fi) ==
    /\ nextXid <= MaxMsgs
    /\ out_msg' = out_msg @@ (nextXid :> [op |-> op, cb |-> cb, app |-> app,
                                          done |-> FALSE, left |-> MSG_EXPIRE,
                                          fi |-> fi])
    /\ sess_send(nextXid, op)
    /\ nextXid' = nextXid + 1
    /\ appMsgs' = IF app THEN appMsgs \cup {nextXid} ELSE appMsgs

\* cldc_new_sess: a fresh session with its expiry, the retry timer armed,
\* and the NEW-SESS message sent.
cldc_new_sess ==
    /\ sstate = "none"
    /\ sstate' = "live"
    /\ sessLeft' = SESS_EXPIRE
    /\ timerOn' = TRUE
    /\ timerLeft' = MSG_RETRY
    /\ SendNew("new_sess", "new_sess_cb", TRUE, 0)
    /\ UNCHANGED <<expired, confirmed, scanLeft, nextIn, nextInTr, fhs>>
    /\ UNCHANGED <<s2c, srvSeq, srvSent, srvFh>>
    /\ UNCHANGED <<cbCalls, freedMsgs, evCalls, failEvents, uaf>>

\* cldc_nop and cldc_del: allowed once the session is confirmed.
cldc_nop_del ==
    /\ sstate = "live" /\ confirmed
    /\ \E op \in SessOps : SendNew(op, "generic_end_cb", TRUE, 0)
    /\ UNCHANGED <<sstate, expired, confirmed, sessLeft, scanLeft, timerOn, timerLeft,
                   nextIn, nextInTr, fhs>>
    /\ UNCHANGED <<s2c, srvSeq, srvSent, srvFh>>
    /\ UNCHANGED <<cbCalls, freedMsgs, evCalls, failEvents, uaf>>

\* cldc_end_sess: the application may or may not pass a callback; without
\* one, end_sess_cb frees the session itself.
cldc_end_sess ==
    /\ sstate = "live" /\ confirmed
    /\ \E app \in BOOLEAN : SendNew("end_sess", "end_sess_cb", app, 0)
    /\ UNCHANGED <<sstate, expired, confirmed, sessLeft, scanLeft, timerOn, timerLeft,
                   nextIn, nextInTr, fhs>>
    /\ UNCHANGED <<s2c, srvSeq, srvSent, srvFh>>
    /\ UNCHANGED <<cbCalls, freedMsgs, evCalls, failEvents, uaf>>

\* cldc_open: a not-yet-valid handle is appended to the handle table and
\* the OPEN message carries its index for open_end_cb.
cldc_open ==
    /\ sstate = "live" /\ confirmed
    /\ Cardinality(DOMAIN fhs) < MaxFh
    /\ LET i == Cardinality(DOMAIN fhs) + 1
       IN /\ fhs' = fhs @@ (i :> [fh |-> 0, valid |-> FALSE])
          /\ SendNew("open", "open_end_cb", TRUE, i)
    /\ UNCHANGED <<sstate, expired, confirmed, sessLeft, scanLeft, timerOn,
                   timerLeft, nextIn, nextInTr>>
    /\ UNCHANGED <<s2c, srvSeq, srvSent, srvFh>>
    /\ UNCHANGED <<cbCalls, freedMsgs, evCalls, failEvents, uaf>>

\* cldc_close: the handle is marked invalid before CLOSE is sent.
cldc_close ==
    /\ sstate = "live"
    /\ \E i \in DOMAIN fhs :
        /\ fhs[i].valid
        /\ fhs' = [fhs EXCEPT ![i].valid = FALSE]
        /\ SendNew("close", "generic_end_cb", TRUE, 0)
    /\ UNCHANGED <<sstate, expired, confirmed, sessLeft, scanLeft, timerOn,
                   timerLeft, nextIn, nextInTr>>
    /\ UNCHANGED <<s2c, srvSeq, srvSent, srvFh>>
    /\ UNCHANGED <<cbCalls, freedMsgs, evCalls, failEvents, uaf>>

\* cldc_lock (blocking or try) and cldc_unlock on a valid handle.
cldc_lock_unlock ==
    /\ sstate = "live"
    /\ \E i \in DOMAIN fhs, op \in FhOps :
        /\ fhs[i].valid
        /\ SendNew(op, "generic_end_cb", TRUE, 0)
    /\ UNCHANGED <<sstate, expired, confirmed, sessLeft, scanLeft, timerOn,
                   timerLeft, nextIn, nextInTr, fhs>>
    /\ UNCHANGED <<s2c, srvSeq, srvSent, srvFh>>
    /\ UNCHANGED <<cbCalls, freedMsgs, evCalls, failEvents, uaf>>

\* sess_free: the session and every message of out (out_msg as it stands)
\* are freed, without their callbacks; fr is what was freed before.
sess_free(out, fr) ==
    /\ sstate' = "freed"
    /\ out_msg' = NoMsgs
    /\ freedMsgs' = fr \cup DOMAIN out

\* cldc_kill_sess: disarm the timer and sess_free.
cldc_kill_sess ==
    /\ sstate = "live"
    /\ timerOn' = FALSE
    /\ sess_free(out_msg, freedMsgs)
    /\ UNCHANGED <<expired, confirmed, sessLeft, scanLeft, timerLeft, nextIn,
                   nextInTr, fhs, nextXid>>
    /\ UNCHANGED netVars
    /\ UNCHANGED <<cbCalls, appMsgs, evCalls, failEvents, uaf>>

-----------------------------------------------------------------------------
(* Completion callbacks, run by cldc_rx_generic on the first reply to a    *)
(* message x.  out2 is out_msg with x marked done, fr the freed set after  *)
(* the receive path's expiry scan.                                         *)

\* new_sess_cb: an OK reply confirms the session; the application is told.
new_sess_cb(x, p, out2, fr) ==
    /\ confirmed' = (confirmed \/ p.code = "OK")
    /\ cbCalls' = [cbCalls EXCEPT ![x] = Bump(@)]
    /\ out_msg' = out2
    /\ freedMsgs' = fr
    /\ UNCHANGED <<sstate, fhs, uaf>>

\* generic_end_cb: hand the reply code to the application.
generic_end_cb(x, p, out2, fr) ==
    /\ cbCalls' = [cbCalls EXCEPT ![x] = Bump(@)]
    /\ out_msg' = out2
    /\ freedMsgs' = fr
    /\ UNCHANGED <<sstate, confirmed, fhs, uaf>>

\* open_end_cb: a reply shorter than cld_msg_open_resp (every error reply,
\* which carries only the code) returns -EINVAL before the application's
\* callback; an OK reply fills in and validates the handle.
open_end_cb(x, p, out2, fr) ==
    /\ out_msg' = out2
    /\ freedMsgs' = fr
    /\ IF p.code = "OK"
         THEN /\ fhs' = [fhs EXCEPT ![out2[x].fi] = [fh |-> p.fh, valid |-> TRUE]]
              /\ cbCalls' = [cbCalls EXCEPT ![x] = Bump(@)]
         ELSE UNCHANGED <<fhs, cbCalls>>
    /\ UNCHANGED <<sstate, confirmed, uaf>>

\* end_sess_cb: with an application callback, call it; without, sess_free
\* the session -- after which cldc_rx_generic still calls ack_seqid(sess).
end_sess_cb(x, p, out2, fr) ==
    /\ IF out2[x].app
         THEN /\ cbCalls' = [cbCalls EXCEPT ![x] = Bump(@)]
              /\ out_msg' = out2
              /\ freedMsgs' = fr
              /\ UNCHANGED <<sstate, uaf>>
         ELSE /\ sess_free(out2, fr)
              /\ uaf' = TRUE
              /\ UNCHANGED cbCalls
    /\ UNCHANGED <<confirmed, fhs>>

-----------------------------------------------------------------------------
(* The receive path.                                                       *)

\* Mutant: cldc_rx_generic without the done test of line 150, so a
\* repeated reply runs the callback again.
cldc_rx_generic_nodone(p, out1, fr) ==
    IF p.xid \notin DOMAIN out1
      THEN /\ out_msg' = out1
           /\ freedMsgs' = fr
           /\ UNCHANGED <<sstate, confirmed, fhs, cbCalls, uaf>>
      ELSE LET x    == p.xid
               out2 == [out1 EXCEPT ![x].done = TRUE]
           IN CASE out1[x].cb = "new_sess_cb"    -> new_sess_cb(x, p, out2, fr)
                [] out1[x].cb = "generic_end_cb" -> generic_end_cb(x, p, out2, fr)
                [] out1[x].cb = "open_end_cb"    -> open_end_cb(x, p, out2, fr)
                [] out1[x].cb = "end_sess_cb"    -> end_sess_cb(x, p, out2, fr)

\* cldc_rx_generic: find the request by xid; an unknown xid is an error
\* (no ack); a request already done is only acked; otherwise mark it done
\* and run its callback.
cldc_rx_generic(p, out1, fr) ==
    IF p.xid \notin DOMAIN out1 \/ out1[p.xid].done
      THEN /\ out_msg' = out1
           /\ freedMsgs' = fr
           /\ UNCHANGED <<sstate, confirmed, fhs, cbCalls, uaf>>
      ELSE LET x    == p.xid
               out2 == [out1 EXCEPT ![x].done = TRUE]
           IN CASE out1[x].cb = "new_sess_cb"    -> new_sess_cb(x, p, out2, fr)
                [] out1[x].cb = "generic_end_cb" -> generic_end_cb(x, p, out2, fr)
                [] out1[x].cb = "open_end_cb"    -> open_end_cb(x, p, out2, fr)
                [] out1[x].cb = "end_sess_cb"    -> end_sess_cb(x, p, out2, fr)

\* cldc_rx_event: find the handle by its server number (valid or not) and
\* pass the event to the application; an unknown handle is an error.
cldc_rx_event(p) ==
    evCalls' = IF \E i \in DOMAIN fhs : fhs[i].fh = p.fh
                 THEN [evCalls EXCEPT ![p.pid] = Bump(@)]
                 ELSE evCalls

\* cldc_receive_msg: dispatch an accepted packet by operation code; ping
\* is only acked, not-master is reported as an error.
cldc_receive_msg(p, out1, fr) ==
    \/ /\ p.op \in ReqOps
       /\ cldc_rx_generic(p, out1, fr)
       /\ UNCHANGED evCalls
    \/ /\ p.op = "event"
       /\ cldc_rx_event(p)
       /\ out_msg' = out1
       /\ freedMsgs' = fr
       /\ UNCHANGED <<sstate, confirmed, fhs, cbCalls, uaf>>
    \/ /\ p.op \in {"ping", "not_master"}
       /\ out_msg' = out1
       /\ freedMsgs' = fr
       /\ UNCHANGED <<sstate, confirmed, fhs, cbCalls, uaf, evCalls>>

\* sess_expire_outmsg, run by cldc_receive_pkt once the scan time has come:
\* messages past their expiry are freed -- without their callbacks -- and
\* the next scan is scheduled.
ScanKept == IF scanLeft <= 0
              THEN {x \in DOMAIN out_msg : out_msg[x].left >= 0}
              ELSE DOMAIN out_msg

sess_expire_outmsg ==
    scanLeft' = IF scanLeft <= 0 THEN MSG_SCAN ELSE scanLeft

\* cldc_receive_pkt: a server packet p arrives (the network may keep a
\* copy).  Expire old messages, check the sequence id (a packet in the
\* window behind next_seqid_in is acked again, any other mismatch is an
\* error), refresh the session's expiry, then dispatch.
cldc_receive_pkt ==
    \E p \in s2c, dup \in BOOLEAN :
        /\ sstate = "live"
        /\ s2c' = IF dup THEN s2c ELSE s2c \ {p}
        /\ sess_expire_outmsg
        /\ LET out1 == Restrict(out_msg, ScanKept)
               fr   == freedMsgs \cup (DOMAIN out_msg \ ScanKept)
           IN \/ /\ ~Accepts(p)
                 /\ ~seqid_in_range(p.seq, nextInTr, nextIn)
                 /\ out_msg' = out1
                 /\ freedMsgs' = fr
                 /\ UNCHANGED <<sstate, confirmed, sessLeft, nextIn,
                                nextInTr, fhs, cbCalls, evCalls, uaf>>
              \/ /\ ~Accepts(p)
                 /\ seqid_in_range(p.seq, nextInTr, nextIn)
                 /\ out_msg' = out1
                 /\ freedMsgs' = fr
                 /\ UNCHANGED <<sstate, confirmed, sessLeft, nextIn,
                                nextInTr, fhs, cbCalls, evCalls, uaf>>
              \/ /\ Accepts(p)
                 /\ AdvanceWindow(p)
                 /\ sessLeft' = SESS_EXPIRE
                 /\ cldc_receive_msg(p, out1, fr)
        /\ UNCHANGED <<expired, timerOn, timerLeft, nextXid>>
        /\ UNCHANGED <<c2s, srvSeq, srvSent, srvFh, appMsgs, failEvents>>

-----------------------------------------------------------------------------
(* The timer.                                                              *)

\* sess_expire via sess_msg_drop: every message not yet done gets its
\* callback with ok = false (open_end_cb then returns -EINVAL at once;
\* end_sess_cb without an application callback frees the session in the
\* middle of the walk), all are freed, the timer is disarmed and the
\* application gets CE_SESS_FAILED.
DropCalls(x) ==
    \/ out_msg[x].cb \in {"new_sess_cb", "generic_end_cb"}
    \/ out_msg[x].cb = "end_sess_cb" /\ out_msg[x].app

DropFrees ==
    \E x \in DOMAIN out_msg :
        ~out_msg[x].done /\ out_msg[x].cb = "end_sess_cb" /\ ~out_msg[x].app

sess_expire ==
    /\ expired' = TRUE
    /\ cbCalls' = [x \in Xids |->
                     IF x \in DOMAIN out_msg /\ ~out_msg[x].done /\ DropCalls(x)
                       THEN Bump(cbCalls[x]) ELSE cbCalls[x]]
    /\ out_msg' = NoMsgs
    /\ freedMsgs' = freedMsgs \cup DOMAIN out_msg
    /\ timerOn' = FALSE
    /\ failEvents' = Bump(failEvents)
    /\ sstate' = IF DropFrees THEN "freed" ELSE sstate
    /\ uaf' = (uaf \/ DropFrees)

\* Mutant: sess_timer resends but does not re-arm the timer.
sess_timer_norearm ==
    /\ timerOn /\ timerLeft <= 0
    /\ sstate = "live" /\ sessLeft >= 0
    /\ c2s' = c2s \cup {[xid |-> x, op |-> out_msg[x].op] :
                           x \in {y \in DOMAIN out_msg : ~out_msg[y].done}}
    /\ timerOn' = FALSE
    /\ UNCHANGED <<sstate, expired, out_msg, cbCalls, freedMsgs, failEvents,
                   uaf, timerLeft, confirmed, sessLeft, scanLeft, nextIn,
                   nextInTr, fhs, nextXid>>
    /\ UNCHANGED <<s2c, srvSeq, srvSent, srvFh, appMsgs, evCalls>>

\* sess_timer: past the session's expiry, expire it; otherwise resend
\* every message not yet done and re-arm.  A timer left armed on a freed
\* session runs sess_timer on freed memory.
sess_timer ==
    /\ timerOn /\ timerLeft <= 0
    /\ \/ /\ sstate = "freed"
          /\ uaf' = TRUE
          /\ timerOn' = FALSE
          /\ UNCHANGED <<sstate, expired, out_msg, cbCalls, freedMsgs,
                         failEvents, timerLeft, c2s>>
       \/ /\ sstate = "live" /\ sessLeft < 0
          /\ sess_expire
          /\ UNCHANGED <<timerLeft, c2s>>
       \/ /\ sstate = "live" /\ sessLeft >= 0
          /\ c2s' = c2s \cup {[xid |-> x, op |-> out_msg[x].op] :
                                 x \in {y \in DOMAIN out_msg : ~out_msg[y].done}}
          /\ timerLeft' = MSG_RETRY
          /\ UNCHANGED <<sstate, expired, out_msg, cbCalls, freedMsgs,
                         failEvents, uaf, timerOn>>
    /\ UNCHANGED <<confirmed, sessLeft, scanLeft, nextIn, nextInTr, fhs,
                   nextXid>>
    /\ UNCHANGED <<s2c, srvSeq, srvSent, srvFh, appMsgs, evCalls>>

\* Time passes: every deadline comes one step closer.  A due timer fires
\* before time moves on (the event loop runs due timers first).
Tick ==
    /\ ~(timerOn /\ timerLeft <= 0)
    /\ sessLeft' = Dec(sessLeft)
    /\ scanLeft' = Dec(scanLeft)
    /\ timerLeft' = Dec(timerLeft)
    /\ out_msg' = [x \in DOMAIN out_msg |-> [out_msg[x] EXCEPT !.left = Dec(@)]]
    /\ UNCHANGED <<sstate, expired, confirmed, timerOn, nextIn, nextInTr, fhs,
                   nextXid>>
    /\ UNCHANGED netVars
    /\ UNCHANGED ghostVars

-----------------------------------------------------------------------------
(* The server and the network (environment).                               *)

\* A server packet, numbered with the server's next sequence id.
SrvSend(op, xid, code, fh) ==
    /\ srvSent < MaxSrvPkts
    /\ s2c' = s2c \cup {[pid |-> srvSent, seq |-> srvSeq, op |-> op,
                         xid |-> xid, code |-> code, fh |-> fh]}
    /\ srvSent' = srvSent + 1
    /\ srvSeq' = (srvSeq + 1) % SeqMod

\* The reply codes the client tells apart: new_sess_cb and open_end_cb
\* branch on OK; every other callback only passes the code on.
ReplyCodes(op) == IF op \in ErrOps THEN Codes ELSE {"OK"}

\* The server receives a request and replies with a code; an OK open reply
\* carries a newly granted handle.  (Copies of a request reach the server
\* through sess_timer's retransmissions.)
SrvReply ==
    \E m \in c2s : \E code \in ReplyCodes(m.op) :
        /\ c2s' = c2s \ {m}
        /\ IF m.op = "open" /\ code = "OK"
             THEN /\ srvFh < MaxFh
                  /\ srvFh' = srvFh + 1
                  /\ SrvSend(m.op, m.xid, code, srvFh + 1)
             ELSE /\ SrvSend(m.op, m.xid, code, 0)
                  /\ UNCHANGED srvFh

\* The server pings, reports not-master, or sends an event on a handle.
SrvNotify ==
    /\ srvSent > 0
    /\ \/ "ping" \in NotifyOps /\ SrvSend("ping", 0, "OK", 0)
       \/ "not_master" \in NotifyOps /\ SrvSend("not_master", 0, "OK", 0)
       \/ "event" \in NotifyOps /\ \E f \in 1..srvFh : SrvSend("event", 0, "OK", f)
    /\ UNCHANGED srvFh
    /\ UNCHANGED c2s

\* A packet is lost.
Lose ==
    \/ \E m \in c2s : c2s' = c2s \ {m} /\ UNCHANGED s2c
    \/ \E p \in s2c : s2c' = s2c \ {p} /\ UNCHANGED c2s

SrvEnv ==
    /\ \/ SrvReply
       \/ SrvNotify
       \/ Lose /\ UNCHANGED <<srvSeq, srvSent, srvFh>>
    /\ UNCHANGED sessVars
    /\ UNCHANGED ghostVars

-----------------------------------------------------------------------------

Init ==
    /\ sstate = "none"
    /\ expired = FALSE
    /\ confirmed = FALSE
    /\ sessLeft = -1
    /\ scanLeft = -1           \* msg_scan_time starts at 0 (calloc)
    /\ timerOn = FALSE
    /\ timerLeft = -1
    /\ nextIn = 0              \* calloc
    /\ nextInTr = 0
    /\ out_msg = NoMsgs
    /\ fhs = [i \in {} |-> 0]
    /\ nextXid = 1
    /\ c2s = {}
    /\ s2c = {}
    /\ srvSeq \in SrvStartSeqs
    /\ srvSent = 0
    /\ srvFh = 0
    /\ cbCalls = [x \in Xids |-> 0]
    /\ appMsgs = {}
    /\ freedMsgs = {}
    /\ evCalls = [p \in Pids |-> 0]
    /\ failEvents = 0
    /\ uaf = FALSE

Next ==
    \/ cldc_new_sess
    \/ cldc_nop_del
    \/ cldc_end_sess
    \/ cldc_open
    \/ cldc_close
    \/ cldc_lock_unlock
    \/ cldc_kill_sess
    \/ cldc_receive_pkt
    \/ sess_timer
    \/ Tick
    \/ SrvEnv

\* The event loop runs the timer when it is due, and time passes.
Spec == Init /\ [][Next]_vars /\ WF_vars(sess_timer) /\ WF_vars(Tick)

-----------------------------------------------------------------------------
(* Properties.                                                             *)

TypeOK ==
    /\ sstate \in {"none", "live", "freed"}
    /\ expired \in BOOLEAN /\ confirmed \in BOOLEAN /\ timerOn \in BOOLEAN
    /\ sessLeft \in Left(SESS_EXPIRE) /\ scanLeft \in Left(MSG_SCAN)
    /\ timerLeft \in Left(MSG_RETRY)
    /\ nextIn \in Seqs /\ nextInTr \in Seqs
    /\ DOMAIN out_msg \subseteq Xids /\ \A x \in DOMAIN out_msg : out_msg[x] \in MsgRec
    /\ DOMAIN fhs = 1..Cardinality(DOMAIN fhs)
    /\ \A i \in DOMAIN fhs : fhs[i] \in [fh : FhNums \cup {0}, valid : BOOLEAN]
    /\ nextXid \in 1..(MaxMsgs + 1)
    /\ c2s \subseteq CliPkt /\ s2c \subseteq SrvPkt
    /\ srvSeq \in Seqs /\ srvSent \in 0..MaxSrvPkts /\ srvFh \in 0..MaxFh
    /\ cbCalls \in [Xids -> 0..2] /\ evCalls \in [Pids -> 0..2]
    /\ appMsgs \subseteq Xids /\ freedMsgs \subseteq Xids
    /\ failEvents \in 0..2 /\ uaf \in BOOLEAN

\* The application's completion callback of a request runs at most once,
\* though the server may answer a request several times (it answers each
\* retransmission the retry timer sends) and sess_expire may race a reply:
\* cldc_rx_generic's done flag and sess_msg_drop's !done test guard it.
CallbackAtMostOnce == \A x \in Xids : cbCalls[x] <= 1

\* Every message queued on a live, unexpired session is eventually freed:
\* either the scan in cldc_receive_pkt drops it after CLDC_MSG_EXPIRE, or
\* sess_timer expires the session -- so out_msg cannot grow for ever and
\* the retry timer keeps running until then.
MsgEventuallyFreed ==
    \A x \in Xids :
        (x \in DOMAIN out_msg /\ sstate = "live" /\ ~expired)
            ~> (x \notin DOMAIN out_msg)

\* No request is silently dropped (spec, section 7): a freed message that
\* carried an application callback has had that callback run, with the
\* reply or with a failure.
NoSilentDrop == \A x \in freedMsgs \cap appMsgs : cbCalls[x] = 1

\* The library never uses the session after freeing it (spec 4.4: the
\* session is not freed synchronously, to avoid races with callbacks).
NoUseAfterFree == ~uaf

\* A server event reaches the application at most once, though the server
\* retransmits and the network duplicates: a packet already processed is
\* in the acceptance window behind next_seqid_in and only acked again.
EventAtMostOnce == \A p \in Pids : evCalls[p] <= 1

-----------------------------------------------------------------------------
(* Refinement: CldcSession implements CldcRequests.                        *)

\* A request's status as the application sees it: not yet created, queued
\* in out_msg, marked done by its first reply, or freed.
ReqStatus ==
    [x \in Xids |->
        IF x >= nextXid THEN "unsent"
        ELSE IF x \in freedMsgs THEN "freed"
        ELSE IF out_msg[x].done THEN "answered"
        ELSE "pending"]

\* A handle slot: not yet appended, appended by cldc_open but not yet
\* granted a server handle, valid, or invalidated by cldc_close.
HandleState ==
    [i \in FhNums |->
        IF i \notin DOMAIN fhs THEN "none"
        ELSE IF fhs[i].fh = 0 THEN "opening"
        ELSE IF fhs[i].valid THEN "open"
        ELSE "closed"]

Requests == INSTANCE CldcRequests
                WITH Reqs <- Xids, Handles <- FhNums,
                     status <- ReqStatus, calls <- cbCalls, hstate <- HandleState

\* Every behaviour of the client is one the abstract request life cycle
\* allows: whatever retransmissions, duplicated or late replies and
\* expiries race, a request's callback runs at most once and only as it
\* leaves pending (never for a request already answered or freed), a freed
\* request never comes back, and a handle the application closed is never
\* made valid again by a late OPEN reply (cldc_rx_generic's done flag,
\* sess_msg_drop's !done test, cldc_close clearing valid).
RefinesRequests == Requests!Spec

=============================================================================
