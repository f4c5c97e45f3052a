----------------------------- MODULE MCGitCommit -----------------------------
(* Small instances of GitCommit for TLC: request r1 writes one file and deletes *)
(* another, request r2 writes the second.                                     *)
EXTENDS GitCommit

CONSTANTS r1, r2, a, b

WriteAndDelete ==
  [r \in Requests |-> IF r = r1 THEN [p \in Paths |-> IF p = a THEN "x" ELSE None]
                      ELSE [p \in Paths |-> IF p = a THEN Keep ELSE "y"]]
=============================================================================
