--------------------------- MODULE MCChunkdObject ---------------------------
(***************************************************************************)
(* Bounds for checking ChunkdObject: two connections, so two writers can  *)
(* contend for one key; a read buffer of two bytes, so a three-byte body  *)
(* takes two cli_evt_data_in steps and a GET streams through               *)
(* object_get_more; blocks of two bytes and a GET-PART maximum of one     *)
(* block.  Offset 1 falls inside a block and offset 3 at the unaligned    *)
(* end of a three-byte object; lengths 0 ("to the end") and 2 (cut at the *)
(* end or at the maximum) cover the length rules.                          *)
(***************************************************************************)
EXTENDS ChunkdObject

MCPutSizes == {1, 3}
MCOffsets  == {0, 1}
MCLengths  == {0, 2}

====
