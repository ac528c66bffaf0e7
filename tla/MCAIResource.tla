---------------------------- MODULE MCAIResource ----------------------------
(***************************************************************************)
(* Small instances of AIResource.                                          *)
(***************************************************************************)
EXTENDS AIResource, TLC
=============================================================================
