---------------------------- MODULE MCCollection ----------------------------
(* Small instances of Collection for TLC. *)
EXTENDS Collection

Of == [s \in Sources |-> Signals]
=============================================================================
