---------------------------- MODULE MCRecordFile ----------------------------
(***************************************************************************)
(* Sizes of p17_2's database that share neither rows nor field length, one *)
(* of them with fields of no cells and one without rows, and texts of one  *)
(* and two letters: the longest does not fit a field of two cells.         *)
(***************************************************************************)
EXTENDS RecordFile
MCSizes == {<<2, 2>>, <<1, 3>>, <<2, 0>>, <<0, 1>>}
MCTexts == {<<1>>, <<2>>, <<1, 2>>}
=============================================================================
