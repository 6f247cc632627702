------------------------------- MODULE Hashes -------------------------------
(* Redis hashes as functions from the names of their fields to values. *)

NoFields == [name \in {} |-> name]

\* A hash of one field.
Field(name, value) == [field \in {name} |-> value]

\* HSET of every field of new in a hash: its other fields keep their values.
HSet(hash, new) ==
  [name \in DOMAIN hash \cup DOMAIN new |->
     IF name \in DOMAIN new THEN new[name] ELSE hash[name]]
=============================================================================
