------------------------- MODULE MCBackgroundRunner -------------------------
(* Small instances of BackgroundRunner for TLC. *)
EXTENDS BackgroundRunner

CONSTANTS l1, l2
=============================================================================
