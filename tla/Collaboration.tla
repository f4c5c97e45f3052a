---------------------------- MODULE Collaboration ----------------------------
(***************************************************************************)
(* The backend of the repository actions (backend/github/collaboration.go and  *)
(* snapshot.go) and the host they work on: one branch, its pull requests and     *)
(* their checks.  Every operation first reads the repository's identity, then    *)
(* works on the repository by its name.  What a call sends the host is carried   *)
(* out when the host gets it, even when the call no longer waits for it.         *)
(***************************************************************************)
EXTENDS ActionCalls

CONSTANT MaxPages     \* 20 pages of a listing; a page holds one check here

ASSUME CollaborationAssumption == MaxPages \in Nat \ {0}

VARIABLES host,       \* id: of the repository that has the name.  pulls, checks: by number
          sent,       \* calls whose request is under way to the host
          did,        \* the commit of the pull request a call created or edited
          moves,      \* how often a snapshot was put on the branch
          restores,   \* how often others put the branch back
          astray      \* calls that changed another repository than their check found

hostVars == <<host, sent, did, moves, restores, astray>>

Pulls == [open : BOOLEAN, commit : Commits]

HostTypeOK ==
  /\ host \in [id : 1..2, head : Commits, checks : Seq(Nat), pulls : Seq(Pulls)]
  /\ sent \subseteq Calls /\ astray \subseteq Calls
  /\ did \in [Calls -> Commits] /\ moves \in [Snaps -> Nat] /\ restores \in Nat

HostInit(n) ==
  /\ host = [id |-> 1, head |-> "base", checks |-> <<1, 2, 3>>,
             pulls |-> [i \in 1..n |-> [open |-> TRUE, commit |-> "base"]]]
  /\ sent = {} /\ astray = {} /\ restores = 0
  /\ did = [c \in Calls |-> "none"] /\ moves = [s \in Snaps |-> 0]

(* An open pull request has the commit its branch has.                            *)
AtHead(h) ==
  [host EXCEPT !.head = h,
               !.pulls = [i \in DOMAIN @ |-> IF @[i].open THEN [@[i] EXCEPT !.commit = h] ELSE @[i]]]

-----------------------------------------------------------------------------
(* The calls.                                                                *)

First == [head |-> "head", find |-> "find", create |-> "head", update |-> "read",
          feedback |-> "before", comment |-> "comment"]
Checks(c, s) ==
  /\ call' = [call EXCEPT ![c].step = "check", ![c].next = s]
  /\ UNCHANGED <<slots, snapshotSlots>>

Perform(c) ==
  call[c].step = "perform" /\ req[c].act \in DOMAIN First /\ Checks(c, First[req[c].act])

(* collaborationClient.                                                      *)
IdentityAnyone(c) == TRUE
Identity(c) == host.id = 1
CheckIdentity(c) ==
  /\ call[c].step = "check"
  /\ IF Identity(c)
     THEN /\ call' = [call EXCEPT ![c].step = call[c].next, ![c].known = "checked"]
          /\ UNCHANGED <<slots, snapshotSlots>>
     ELSE Ends(c, "conflict")

BranchHead(c) ==
  /\ call[c].step = "head"
  /\ IF req[c].act = "head" THEN Ends(c, "ok")
     ELSE IF host.head = req[c].at THEN Checks(c, "create") ELSE Ends(c, "conflict")

FindPullRequest(c) ==
  /\ call[c].step = "find"
  /\ LET found == {i \in DOMAIN host.pulls : host.pulls[i].commit = req[c].at}
     IN Ends(c, IF Cardinality(found) > 1 THEN "unconfirmed" ELSE "ok")

(* pullMatches.                                                              *)
PullMatches(c, commit) == commit = req[c].at

(* ReadPullRequest, of pull request number 1, for update and feedback.              *)
ReadPull(c) ==
  /\ call[c].step \in {"read", "before"}
  /\ \/ host.pulls = <<>> /\ Ends(c, "unconfirmed")
     \/ /\ host.pulls # <<>> /\ host.pulls[1].commit # req[c].at
        /\ Ends(c, "conflict")
     \/ /\ host.pulls # <<>> /\ host.pulls[1].commit = req[c].at
        /\ call' = [call EXCEPT ![c].step = "check",
                                ![c].next = IF req[c].act = "update" THEN "edit" ELSE "checks",
                                ![c].pull = host.pulls[1].commit, ![c].open = host.pulls[1].open]
        /\ UNCHANGED <<slots, snapshotSlots>>

(* PullRequestFeedback: a page of checks; the next is the one after those collected.    *)
Collected(c) == Cardinality(call[c].got)
PageBreaksByCount(c) ==
  \/ call[c].got # {} /\ call[c].total # Len(host.checks)
  \/ Collected(c) + 1 = MaxPages /\ Len(host.checks) > MaxPages
PageBreaks(c) ==
  \/ call[c].got # {} /\ call[c].total # Len(host.checks)
  \/ host.checks[Collected(c) + 1] \in call[c].got
  \/ Collected(c) + 1 = MaxPages /\ Len(host.checks) > MaxPages
LastPage(c) == Collected(c) + 1 = Len(host.checks)
ReadChecks(c) ==
  /\ call[c].step = "checks"
  /\ IF PageBreaks(c)
     THEN Ends(c, "unconfirmed")
     ELSE /\ call' = [call EXCEPT ![c].got = @ \cup {host.checks[Collected(c) + 1]},
                                  ![c].total = Len(host.checks),
                                  ![c].step = IF LastPage(c) THEN "reviews" ELSE "checks"]
          /\ UNCHANGED <<slots, snapshotSlots>>

ReadReviews(c) == call[c].step = "reviews" /\ Checks(c, "after")

SameAsBefore(c) == host.pulls[1] = [open |-> call[c].open, commit |-> call[c].pull]
ReadAfter(c) ==
  /\ call[c].step = "after"
  /\ Ends(c, CASE host.pulls = <<>> -> "unconfirmed"
               [] host.pulls # <<>> /\ SameAsBefore(c) -> "ok"
               [] OTHER -> "conflict")

(* withSnapshot: the bundle is unpacked beside the base commit and verified.           *)
Verify(c) ==
  /\ call[c].step = "verify"
  /\ \/ req[c].snap \notin Sound /\ Ends(c, "unconfirmed")
     \/ req[c].snap \in Sound /\ req[c].act = "prepare" /\ Ends(c, "ok")
     \/ req[c].snap \in Sound /\ req[c].act = "publish" /\ Goes(c, "push")

(* The one request of a call that changes the host.                              *)
Send(c) ==
  /\ call[c].step \in {"push", "create", "edit", "comment"}
  /\ sent' = sent \cup {c}
  /\ Goes(c, "wait")

Reads(c) ==
  \/ Perform(c) \/ CheckIdentity(c) \/ BranchHead(c) \/ FindPullRequest(c) \/ ReadPull(c)
  \/ ReadChecks(c) \/ ReadReviews(c) \/ ReadAfter(c) \/ Verify(c)

-----------------------------------------------------------------------------
(* The host.                                                                 *)

Tells(c, a) == IF call[c].step = "wait" THEN Ends(c, a) ELSE UNCHANGED callVars

(* A call on another repository is astray unless that one took the name since its check.  *)
Lost(c) ==
  astray' = IF host.id # 1 /\ call[c].known # "overtaken" THEN astray \cup {c} ELSE astray

(* push --force-with-lease: nothing to do when the branch has the commit already.       *)
UpToDate(c) == host.head = req[c].snap
LeasedAnyway(c) == TRUE
Leased(c) == host.head = req[c].at
Push(c) ==
  /\ req[c].act = "publish"
  /\ \/ UpToDate(c) /\ Tells(c, "ok") /\ UNCHANGED <<host, moves, astray>>
     \/ /\ ~UpToDate(c) /\ Leased(c)
        /\ host' = AtHead(req[c].snap)
        /\ moves' = [moves EXCEPT ![req[c].snap] = @ + 1]
        /\ Tells(c, "ok") /\ Lost(c)
     \/ ~UpToDate(c) /\ ~Leased(c) /\ Tells(c, "unconfirmed") /\ UNCHANGED <<host, moves, astray>>
  /\ UNCHANGED did

HasOpen == \E i \in DOMAIN host.pulls : host.pulls[i].open
CreatePull(c) ==
  /\ req[c].act = "create"
  /\ IF HasOpen \/ host.head = "none"
     THEN Tells(c, "unconfirmed") /\ UNCHANGED <<host, did, astray>>
     ELSE /\ host' = [host EXCEPT !.pulls = Append(@, [open |-> TRUE, commit |-> host.head])]
          /\ did' = [did EXCEPT ![c] = host.head]
          /\ Tells(c, IF PullMatches(c, host.head) THEN "ok" ELSE "conflict")
          /\ Lost(c)
  /\ UNCHANGED moves

EditPull(c) ==
  /\ req[c].act = "update"
  /\ IF host.pulls = <<>>
     THEN Tells(c, "unconfirmed") /\ UNCHANGED <<did, astray>>
     ELSE /\ did' = [did EXCEPT ![c] = host.pulls[1].commit]
          /\ Tells(c, IF PullMatches(c, host.pulls[1].commit) THEN "ok" ELSE "conflict")
          /\ Lost(c)
  /\ UNCHANGED <<host, moves>>

AddComment(c) ==
  req[c].act = "comment" /\ Tells(c, "ok") /\ Lost(c) /\ UNCHANGED <<host, did, moves>>

Deliver(c) ==
  /\ c \in sent /\ sent' = sent \ {c}
  /\ Push(c) \/ CreatePull(c) \/ EditPull(c) \/ AddComment(c)
  /\ UNCHANGED restores

(* Others move, restore or delete the branch, close the pull request, run a check again,  *)
(* add one, or replace the repository; the newest check is listed first.              *)
MoveBranch(h) ==
  /\ host' = AtHead(h) /\ host.head # h
  /\ restores' = IF h = "other" THEN restores ELSE restores + 1
ClosePull == HasOpen /\ host' = [host EXCEPT !.pulls = [i \in DOMAIN @ |-> [@[i] EXCEPT !.open = FALSE]]]
Renewed(checks, i) ==
  [k \in DOMAIN checks |-> IF k = 1 THEN checks[i] + 4
                           ELSE IF k <= i THEN checks[k - 1] ELSE checks[k]]
Rerun(i) == host' = [host EXCEPT !.checks = Renewed(@, i)]
AddCheck == Len(host.checks) = 3 /\ host' = [host EXCEPT !.checks = <<4>> \o @]
Replace ==
  /\ host.id = 1
  /\ host' = [host EXCEPT !.id = 2, !.pulls = <<>>]
  /\ call' = [c \in Calls |->
               [call[c] EXCEPT !.known = IF @ = "checked" THEN "overtaken" ELSE @]]
=============================================================================
