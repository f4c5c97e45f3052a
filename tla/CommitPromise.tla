---------------------------- MODULE CommitPromise ----------------------------
(***************************************************************************)
(* What commit_files promises its caller, without a word on how: a request   *)
(* is committed again only when its commit can no longer be recognised (its   *)
(* message has no key, or others have pushed over it), the caller gets one    *)
(* answer, and the answer is "succeeded" only for a request whose changes the *)
(* branch has had.  A request may land after any other answer: the tool stops *)
(* waiting, the request does not.                                            *)
(***************************************************************************)
EXTENDS Naturals

CONSTANTS Requests,
          Keyed,       \* requests whose commits carry a key
          MaxCommits   \* counts saturate here
VARIABLES commits,   \* per request: the commits made for it
          applied,   \* requests whose changes the branch has had
          findable,  \* requests with a commit that can be recognised
          told       \* per request: the answer its caller got

Answers == {"succeeded", "failed", "unfinished", "error"}

Init ==
  /\ commits = [r \in Requests |-> 0] /\ applied = {} /\ findable = {}
  /\ told = [r \in Requests |-> "none"]

Land(r) ==
  /\ r \notin findable
  /\ commits' = [commits EXCEPT ![r] = IF @ = MaxCommits THEN @ ELSE @ + 1]
  /\ applied' = applied \cup {r}
  /\ findable' = findable \cup ({r} \cap Keyed)
  /\ UNCHANGED told

(* Somebody else has made the changes already.                               *)
Find(r) == applied' = applied \cup {r} /\ UNCHANGED <<commits, findable, told>>

(* Somebody else pushes over the request's commit.                            *)
Bury(r) == findable' = findable \ {r} /\ UNCHANGED <<commits, applied, told>>

Tell(r, a) ==
  /\ told[r] = "none"
  /\ a = "succeeded" => r \in applied
  /\ told' = [told EXCEPT ![r] = a]
  /\ UNCHANGED <<commits, applied, findable>>

Next ==
  \E r \in Requests : Land(r) \/ Find(r) \/ Bury(r) \/ \E a \in Answers : Tell(r, a)

Spec == Init /\ [][Next]_<<commits, applied, findable, told>>
=============================================================================
