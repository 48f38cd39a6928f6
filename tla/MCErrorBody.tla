----------------------------- MODULE MCErrorBody -----------------------------
(***************************************************************************)
(* ErrorBody for TLC: bodies of up to five bytes, all below BodyLimit; two *)
(* of them go to the log, with a mark of one byte.                         *)
(***************************************************************************)
EXTENDS ErrorBody

OneMark == <<"mark">>
=============================================================================
