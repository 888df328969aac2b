--------------------------- MODULE MCCldcSession ---------------------------
(* CldcSession instantiated for TLC.  The .cfg files fix the bounds: two   *)
(* or three messages (NEW-SESS and one or two requests), two or three      *)
(* server packets, one handle, sequence ids modulo 4 with the server       *)
(* starting at 0 so that the window's trailing edge wraps below zero, and  *)
(* deadlines scaled down in the code's order RETRY <= SCAN <= SESS_EXPIRE  *)
(* < MSG_EXPIRE.  The definitions below choose which operations and which  *)
(* server packets a run enumerates.                                        *)
EXTENDS CldcSession

MCSrvStartSeqs == {0}
MCSessOps == {"nop"}
MCFhOps == {"lock"}
MCNoNotify == {}
MCNoErr == {}
MCEvent == {"event"}
MCPing == {"ping", "not_master"}
MCNotify == {"ping", "not_master", "event"}
MCErr == {"new_sess", "open"}

\* The client's DATA-C reassembly, checked over objects of up to three
\* bytes: every cut of each into segments, in order and in every order of
\* up to one packet more, with packets of another stream, overlong and
\* truncated.
Stream == INSTANCE CldcStream WITH MaxLen <- 3

\* cldc_rx_data_c reassembles a GET's segments into exactly the object,
\* completes the GET at most once whatever order, duplicates and stray
\* packets arrive in, and never hands the callback bytes the object does
\* not start with (Stream!StreamReassembly).  DATA-C packets reach
\* cldc_rx_data_c only through a live session's receive path, so the check
\* is stated for every live state; its constant part is computed once.
StreamReassembles == sstate = "live" => Stream!StreamReassembly
=============================================================================
