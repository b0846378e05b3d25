------------------------------ MODULE MCAsync ------------------------------
(* Three clients, two of them in one bucket of the hash table. *)
EXTENDS Async
============================================================================
