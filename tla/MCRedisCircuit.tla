--------------------------- MODULE MCRedisCircuit ---------------------------
(***************************************************************************)
(* Small instances of RedisCircuit.                                        *)
(***************************************************************************)
EXTENDS RedisCircuit, TLC
=============================================================================
