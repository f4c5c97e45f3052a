--------------------------- MODULE MCActionsServer ---------------------------
(* The instance of ActionsServer that TLC checks: up to four calls.                  *)
EXTENDS ActionsServer

MCCalls == {"c1", "c2", "c3", "c4"}
MCSize == [s \in Snaps |-> IF s = "good" THEN 1 ELSE 2]
R(act, scope, snap, at) == [act |-> act, scope |-> scope, snap |-> snap, at |-> at]

Nobody == R("none", "alice", "good", "none")

(* Uploads of two callers against the quotas.                                    *)
Uploads == [c1 |-> R("stage", "alice", "good", "base"),
            c2 |-> R("stage", "alice", "bad", "base"),
            c3 |-> R("stage", "bob", "bad", "base"),
            c4 |-> R("stage", "alice", "good", "base")]

(* What is staged is verified before it is published.                              *)
Preparations == [c1 |-> R("stage", "alice", "good", "base"),
                 c2 |-> R("stage", "alice", "bad", "base"),
                 c3 |-> R("prepare", "alice", "good", "base"),
                 c4 |-> R("publish", "alice", "bad", "base")]

(* A publication, published again, and tried by another caller.                     *)
Publications == [c1 |-> R("stage", "alice", "good", "base"),
                 c2 |-> R("publish", "alice", "good", "base"),
                 c3 |-> R("publish", "alice", "good", "base"),
                 c4 |-> R("publish", "bob", "good", "none")]

PullRequests == [c1 |-> R("create", "alice", "good", "base"),
                 c2 |-> R("update", "alice", "good", "base"),
                 c3 |-> R("find", "bob", "good", "base"),
                 c4 |-> Nobody]
Feedbacks == [c1 |-> R("feedback", "alice", "good", "base"),
              c2 |-> R("head", "bob", "good", "base"),
              c3 |-> Nobody, c4 |-> Nobody]

(* Calls on a repository that is replaced, of a Repository that is edited.             *)
Bindings == [c1 |-> R("comment", "alice", "good", "base"),
             c2 |-> R("update", "alice", "good", "base"),
             c3 |-> Nobody, c4 |-> Nobody]

Scenario(rs, n, es, ks) ==
  [requests |-> rs, pulls |-> n, events |-> es, kinds |-> ks]
MCScenarios ==
  {Scenario(Uploads, 0, 2, {"crash"}),
   Scenario(Preparations, 0, 0, {}),
   Scenario(Publications, 0, 2, {"branch", "drop"}),
   Scenario(PullRequests, 0, 1, {"branch", "pull"}),
   Scenario(PullRequests, 1, 2, {"branch", "pull"}),
   Scenario(Feedbacks, 1, 2, {"branch", "pull", "checks"}),
   Scenario(Bindings, 1, 3, {"replace", "object", "drop", "crash"})}
=============================================================================
