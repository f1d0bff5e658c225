----------------------------- MODULE MCSomaSync -----------------------------
(* Small instances of SomaSync for TLC.  A row r<t><i> belongs to table t<t>. *)
EXTENDS SomaSync

CONSTANTS t1, t2, t3, r11, r12, r21

MCTableOf == [row \in Rows |-> IF row = r21 THEN t2 ELSE t1]
=============================================================================
