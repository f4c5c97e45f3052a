--------------------------- MODULE MCPackageCrawl ---------------------------
(* The instance of PackageCrawl that TLC checks: two changes without a fault, one *)
(* with a fault, or the Repository deleted and created again.                      *)
EXTENDS PackageCrawl

MCScenarios ==
  [published : SUBSET Types, changes : {2}, faults : {0}, deletions : {0}]
    \cup [published : SUBSET Types, changes : {1}, faults : {1}, deletions : {0}]
    \cup [published : {{"image"}}, changes : {0}, faults : {0}, deletions : {1}]
=============================================================================
