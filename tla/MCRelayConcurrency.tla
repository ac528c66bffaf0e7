------------------------- MODULE MCRelayConcurrency --------------------------
(***************************************************************************)
(* Small instances of RelayConcurrency.                                    *)
(***************************************************************************)
EXTENDS RelayConcurrency, TLC
=============================================================================
