--------------------------- MODULE MCCldServerPut ---------------------------
(* CldServerPut for TLC.  Segments of length 1 make every segment one      *)
(* byte, so a commit with a segment missing or doubled shows in the data.  *)
(* Three segments allow a doubled later segment to satisfy data_size      *)
(* while an earlier one is missing, and to land past the end of darr.     *)
EXTENDS CldServerPut

MCSegLens == <<1, 1, 1>>
====
