--------------------------- MODULE MCCldServerFS ----------------------------
(***************************************************************************)
(* Names for checking CldServerFS, as byte values ('/' = 47, 'a' = 97).    *)
(*   PathA   "/a": the spec's example; 2 bytes, so pathname_parse's search *)
(*           runs past it.                                                 *)
(*   PathLen "/" followed by 46 'b': the one length (47) at which memrchr  *)
(*           looks for '/' and splits the name at its last slash.          *)
(*   Path3   "/", byte 3, "a": its second byte equals its length, so it    *)
(*           splits into dir "/" and base "a".                             *)
(*   Path5   "/", byte 5, "/", byte 3, "a": splits into dir "/" and base   *)
(*           Path3, so deleting Path3 afterwards reaches dirdata_delete.   *)
(*   Path46  "/", byte 46 ('.'), 44 'b': 46 bytes, its second byte equals  *)
(*           its length, so it splits into dir "/" and a 44-byte base     *)
(*           whose record fills 48 bytes.                                  *)
(*   "/"     the root itself, so a GET can read the root's blob: 8 or 16  *)
(*           bytes after short creates, 48 after Path46's, 56 or 64 after *)
(*           both -- below, at and above the 48-byte segment header.       *)
(***************************************************************************)
EXTENDS CldServerFS

PathA   == <<47, 97>>
PathLen == <<47>> \o [i \in 1..46 |-> 98]
Path3   == <<47, 3, 97>>
Path5   == <<47, 5, 47, 3, 97>>
Path46  == <<47, 46>> \o [i \in 1..44 |-> 98]

MCPaths    == {<<SLASH>>, PathA, PathLen, Path3, Path5, Path46}
MCRootName == <<47>>

====
