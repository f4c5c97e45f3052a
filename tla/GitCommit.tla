------------------------------ MODULE GitCommit ------------------------------
(***************************************************************************)
(* CommitFiles of the GitHub backend (backend/github/backend.go): a request's  *)
(* changes become one commit on a branch that other writers move too.          *)
(*                                                                         *)
(* The branch is its history, oldest commit first; the host only fast-forwards  *)
(* it.  Commits and trees are immutable once read, so the reads and creations   *)
(* between two looks at the branch are one step.  Every host call may fail,     *)
(* the answer to a ref update may be lost, and the caller may start over at any *)
(* time: after a rate limit, a status write that lost a race, or a restart.    *)
(***************************************************************************)
EXTENDS Naturals, Sequences, FiniteSets

CONSTANTS Requests,    \* RepositoryCommits on this branch, one key each
          Paths, Values,
          None,        \* an absent file, a missing commit
          Keep,        \* a path the request does not touch
          Edits,       \* per request and path: a value, None (delete) or Keep
          Quoting,     \* requests whose message already contains the trailer's text
          Scan,        \* commits searched for the key (PerPage: 50)
          MaxPushes,   \* bound: commits by other writers
          MaxAttempts  \* bound: calls of CommitFiles per request

ASSUME CommitAssumption ==
  /\ None \notin Values \cup Requests /\ Keep \notin Values \cup {None}
  /\ Edits \in [Requests -> [Paths -> Values \cup {None, Keep}]]
  /\ Quoting \subseteq Requests
  /\ Scan \in Nat \ {0} /\ MaxPushes \in Nat /\ MaxAttempts \in Nat

VARIABLES branch,    \* the history of the branch; empty if there is no ref
          pc,        \* per request: where its CommitFiles call is
          base,      \* per request: the length of the history its commit builds on
          entries,   \* per request: the paths of the tree entries it sends
          draft,     \* per request: the tree of the commit it created
          ret,       \* per request: the commit it returned
          attempts, pushes

callVars == <<base, entries, draft, ret>>
vars == <<branch, pc, callVars, attempts, pushes>>

Trees == [Paths -> Values \cup {None}]
Commits == [by : Requests \cup {None}, keyed : BOOLEAN, tree : Trees]
EmptyTree == [p \in Paths |-> None]

PCs == {"idle", "ref", "find", "tree", "update", "recover", "rebuild", "reupdate", "ok", "error"}

TypeOK ==
  /\ branch \in Seq(Commits)
  /\ pc \in [Requests -> PCs]
  /\ base \in [Requests -> Nat]
  /\ entries \in [Requests -> SUBSET Paths]
  /\ draft \in [Requests -> Trees]
  /\ ret \in [Requests -> Nat]
  /\ attempts \in [Requests -> Nat] /\ pushes \in Nat

(* The branch does not exist yet, or has one commit of somebody's.             *)
Init ==
  /\ branch \in {<<>>} \cup {<<[by |-> None, keyed |-> FALSE, tree |-> t]>> : t \in Trees}
  /\ pc = [r \in Requests |-> "idle"]
  /\ base = [r \in Requests |-> 0]
  /\ entries = [r \in Requests |-> {}]
  /\ draft = [r \in Requests |-> EmptyTree]
  /\ ret = [r \in Requests |-> 0]
  /\ attempts = [r \in Requests |-> 0] /\ pushes = 0

-----------------------------------------------------------------------------
(* Trees.                                                                    *)

Wanted(r) == {p \in Paths : Edits[r][p] # Keep}
TreeAt(n) == IF n = 0 THEN EmptyTree ELSE branch[n].tree

(* filterNoopGitTreeDeletions: the entries without deletions of absent files.     *)
Effective(r, t) == {p \in Wanted(r) : Edits[r][p] # None \/ t[p] # None}

(* A truncated listing proves nothing absent: every entry is sent.               *)
Sent(r, t) == {Effective(r, t), Wanted(r)}

(* The host rejects the deletion of an absent file.                            *)
Accepts(r, t, E) == E \subseteq Effective(r, t)

Applied(r, t, E) == [p \in Paths |-> IF p \in E THEN Edits[r][p] ELSE t[p]]

-----------------------------------------------------------------------------
Goto(r, s) == pc' = [pc EXCEPT ![r] = s]

Done(r, n) ==
  /\ Goto(r, "ok")
  /\ ret' = [ret EXCEPT ![r] = n]
  /\ UNCHANGED <<base, entries, draft>>

Same == <<attempts, pushes>>

(* A call, the first or the next one for the same request.                     *)
Attempt(r) ==
  /\ attempts[r] < MaxAttempts
  /\ attempts' = [attempts EXCEPT ![r] = @ + 1]
  /\ Goto(r, "ref")
  /\ ret' = [ret EXCEPT ![r] = 0]
  /\ UNCHANGED <<branch, base, entries, draft, pushes>>

CallFails(r) ==
  /\ pc[r] \notin {"idle", "ok", "error"}
  /\ Goto(r, "error")
  /\ UNCHANGED <<branch, callVars, Same>>

GetRef(r) ==
  /\ pc[r] = "ref"
  /\ base' = [base EXCEPT ![r] = Len(branch)]
  /\ Goto(r, IF branch = <<>> THEN "tree" ELSE "find")
  /\ UNCHANGED <<branch, entries, draft, ret, Same>>

(* findRepositoryCommitByIdempotencyKey looks at the newest commits of the branch    *)
(* as it is now.  (Mutant: it looks at the head only.)                           *)
Newest(n) == {i \in 1..Len(branch) : i + n > Len(branch)}
HasKey(r, i) == branch[i].by = r /\ branch[i].keyed
SearchHead(r) == {i \in Newest(1) : HasKey(r, i)}
Found(r) == {i \in Newest(Scan) : HasKey(r, i)}

FindKey(r) ==
  /\ pc[r] = "find"
  /\ \/ \E i \in Found(r) : Done(r, i)
     \/ Found(r) = {} /\ Goto(r, "tree") /\ UNCHANGED callVars
  /\ UNCHANGED <<branch, Same>>

Refuse(r) == Goto(r, "error") /\ UNCHANGED callVars

(* The new tree and the commit on it are created.                              *)
Draft(r, E, s) ==
  /\ entries' = [entries EXCEPT ![r] = E]
  /\ draft' = [draft EXCEPT ![r] = Applied(r, TreeAt(base[r]), E)]
  /\ Goto(r, s)
  /\ UNCHANGED <<base, ret>>

(* The parent, the effective entries, and the new tree: nothing to change is a      *)
(* success at the parent, or an error when there is no parent.                   *)
BuildTree(r) ==
  LET t == TreeAt(base[r]) IN
  /\ pc[r] = "tree"
  /\ \E E \in Sent(r, t) :
       \/ E = {} /\ base[r] = 0 /\ Refuse(r)
       \/ E = {} /\ base[r] # 0 /\ Done(r, base[r])
       \/ ~Accepts(r, t, E) /\ Refuse(r)
       \/ E # {} /\ Accepts(r, t, E) /\ base[r] # 0 /\ Applied(r, t, E) = t /\ Done(r, base[r])
       \/ E # {} /\ Accepts(r, t, E) /\ (base[r] = 0 \/ Applied(r, t, E) # t) /\ Draft(r, E, "update")
  /\ UNCHANGED <<branch, Same>>

(* The commit of request r: its message carries the key unless it already contains     *)
(* the trailer's text.                                                        *)
NewCommit(r) == [by |-> r, keyed |-> r \notin Quoting, tree |-> draft[r]]

(* CreateRef or UpdateRef: the branch moves if it is where the commit starts from;   *)
(* the answer may be lost.                                                    *)
Moves(r) == Len(branch) = base[r]
Move(r) == branch' = Append(branch, NewCommit(r))

UpdateRef(r) ==
  /\ pc[r] = "update"
  /\ \/ Moves(r) /\ Move(r) /\ Done(r, Len(branch) + 1)
     \/ Moves(r) /\ Move(r) /\ Refuse(r)
     \/ ~Moves(r) /\ Goto(r, "recover") /\ UNCHANGED <<branch, callVars>>
  /\ UNCHANGED Same

(* recoverOrRetryConcurrentCommit: the new head is this request's own commit, or       *)
(* what the request starts from now.                                          *)
ReadHead(r) ==
  /\ pc[r] = "recover"
  /\ \/ HasKey(r, Len(branch)) /\ Done(r, Len(branch))
     \/ /\ ~HasKey(r, Len(branch))
        /\ base' = [base EXCEPT ![r] = Len(branch)]
        /\ Goto(r, "rebuild")
        /\ UNCHANGED <<entries, draft, ret>>
  /\ UNCHANGED <<branch, Same>>

(* The request as the caller gave it, on the new base.  (Mutants: the entries filtered    *)
(* for the old base; the tree built on the old base.)                            *)
RebuildSameEntries(r) ==
  LET t == TreeAt(base[r]) IN
  /\ pc[r] = "rebuild"
  /\ draft' = [draft EXCEPT ![r] = Applied(r, t, entries[r])]
  /\ Goto(r, "reupdate")
  /\ UNCHANGED <<branch, base, entries, ret, Same>>
RebuildSameTree(r) ==
  /\ pc[r] = "rebuild"
  /\ Goto(r, "reupdate")
  /\ UNCHANGED <<branch, callVars, Same>>

Rebuild(r) ==
  LET t == TreeAt(base[r]) IN
  /\ pc[r] = "rebuild"
  /\ \E E \in Sent(r, t) :
       \/ E = {} /\ Done(r, base[r])
       \/ ~Accepts(r, t, E) /\ Refuse(r)
       \/ E # {} /\ Accepts(r, t, E) /\ Draft(r, E, "reupdate")
  /\ UNCHANGED <<branch, Same>>

(* One retry only.                                                           *)
UpdateRefAgain(r) ==
  /\ pc[r] = "reupdate"
  /\ \/ Moves(r) /\ Move(r) /\ Done(r, Len(branch) + 1)
     \/ Moves(r) /\ Move(r) /\ Refuse(r)
     \/ ~Moves(r) /\ Refuse(r) /\ UNCHANGED branch
  /\ UNCHANGED Same

(* Another writer pushes a change of one file.                                 *)
Push ==
  /\ pushes < MaxPushes /\ pushes' = pushes + 1
  /\ \E p \in Paths, v \in Values \cup {None} :
       branch' = Append(branch, [by |-> None, keyed |-> FALSE,
                                 tree |-> [TreeAt(Len(branch)) EXCEPT ![p] = v]])
  /\ UNCHANGED <<pc, callVars, attempts>>

-----------------------------------------------------------------------------
CommitFiles(r) ==
  \/ GetRef(r) \/ FindKey(r) \/ BuildTree(r) \/ UpdateRef(r)
  \/ ReadHead(r) \/ Rebuild(r) \/ UpdateRefAgain(r)

Next == Push \/ \E r \in Requests : Attempt(r) \/ CallFails(r) \/ CommitFiles(r)

Spec == Init /\ [][Next]_vars

-----------------------------------------------------------------------------
(* Properties.                                                               *)

(* CommittedOnce: "Reconcile commits the referenced bundle once"                  *)
(* (repositorycommit/controller.go:55): however often CommitFiles is called for a      *)
(* request, and whatever answer was lost, the branch gets one commit of it.  A request   *)
(* whose message quotes the trailer has no key to be found by and is not covered.     *)
Keyed == Requests \ Quoting

CommittedOnce ==
  \A r \in Keyed : Cardinality({i \in 1..Len(branch) : branch[i].by = r}) <= 1

(* NothingUndone: a request's commit changes no file that the request does not name,    *)
(* however the branch moved while the commit was being made.                    *)
NothingUndone ==
  \A i \in 1..Len(branch) :
    branch[i].by # None =>
      \A p \in Paths \ Wanted(branch[i].by) : branch[i].tree[p] = TreeAt(i - 1)[p]

(* ReportedIsApplied: the commit that CommitFiles returns is on the branch and has       *)
(* every file the way the request wants it, deletions included.                 *)
ReportedIsApplied ==
  \A r \in Requests : pc[r] = "ok" =>
    /\ ret[r] \in 1..Len(branch)
    /\ \A p \in Wanted(r) : branch[ret[r]].tree[p] = Edits[r][p]
=============================================================================
