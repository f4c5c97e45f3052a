----------------------------- MODULE BundleStore -----------------------------
(***************************************************************************)
(* commitbundle.FileStore: source bundles on the provider's disk, one file   *)
(* per scope and content (the file name is the digest of the content), and   *)
(* the sweeper that reclaims old ones.  A bundle is represented by its age   *)
(* since it was last written or touched.                                     *)
(***************************************************************************)
EXTENDS Naturals

CONSTANTS Scopes,    \* scope directories
          Contents,  \* file sets, up to the digest that names their bundle
          None,
          MaxAge     \* DefaultSweepMaxAge: ages saturate here

VARIABLES bundles,   \* per scope and content: None or the age of the file
          judged     \* the file the sweeper has found too old and will remove

storeVars == <<bundles, judged>>

ASSUME StoreAssumption ==
  /\ MaxAge \in Nat \ {0}
  /\ None \notin Nat /\ None \notin Scopes \X Contents

StoreTypeOK ==
  /\ bundles \in [Scopes -> [Contents -> (0..MaxAge) \cup {None}]]
  /\ judged \in (Scopes \X Contents) \cup {None}

StoreInit ==
  /\ bundles = [s \in Scopes |-> [c \in Contents |-> None]]
  /\ judged = None

Stored(s, c) == bundles[s][c] # None

(* Put: a new file, or an identical one whose age is refreshed.               *)
Put(s, c) == bundles' = [bundles EXCEPT ![s][c] = 0]

(* Delete: a missing bundle is a success.                                     *)
Delete(s, c) == bundles' = [bundles EXCEPT ![s][c] = None]

(* Sweep looks at the age of a file and then removes it: two system calls.     *)
SweepJudge(s, c) ==
  /\ judged = None /\ bundles[s][c] = MaxAge
  /\ judged' = <<s, c>>
  /\ UNCHANGED bundles

(* Mutant: the path lacks the scope directory, and a missing file is no error.   *)
SweepRemoveMisses == judged # None /\ judged' = None /\ UNCHANGED bundles

SweepRemove ==
  /\ judged # None
  /\ Delete(judged[1], judged[2])
  /\ judged' = None

(* A bundle grows older.                                                      *)
Older(a) == IF a = None \/ a = MaxAge THEN a ELSE a + 1
AgeBundles == bundles' = [s \in Scopes |-> [c \in Contents |-> Older(bundles[s][c])]]
=============================================================================
