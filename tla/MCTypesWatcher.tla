--------------------------- MODULE MCTypesWatcher ---------------------------
(* Three configurations and a few updates of the file. *)
EXTENDS TypesWatcher
=============================================================================
