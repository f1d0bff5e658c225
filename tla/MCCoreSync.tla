----------------------------- MODULE MCCoreSync -----------------------------
(* Small instances of CoreSync for TLC: rows 1 and 2 belong to t1, row 3 to t2. *)
EXTENDS CoreSync

CONSTANTS t1, t2

MCTableOf == [row \in Rows |-> IF row = 3 THEN t2 ELSE t1]
=============================================================================
