---------------------------- MODULE MCCommitFlow ----------------------------
(* Small instances of CommitFlow for TLC: requests 1 and 2, with contents of   *)
(* their own or with the same content.                                       *)
EXTENDS CommitFlow

OwnContent == [r \in Requests |-> r]
SameContent == [r \in Requests |-> 1]
=============================================================================
