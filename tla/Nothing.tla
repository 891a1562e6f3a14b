------------------------------ MODULE Nothing ------------------------------
(* What stands where there is none: no file, no process, no record.        *)
CONSTANT None
=============================================================================
