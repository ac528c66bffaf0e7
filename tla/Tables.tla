------------------------------- MODULE Tables --------------------------------
(***************************************************************************)
(* The rows of the database tables a model works on, under their keys.     *)
(***************************************************************************)
CONSTANTS
    Row,       \* the primary keys of all tables a model has
    NoRow      \* the version of a row that does not exist
=============================================================================
