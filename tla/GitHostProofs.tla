---------------------------- MODULE GitHostProofs ----------------------------
(***************************************************************************)
(* Theorems about the two modules in which the git host matters most, for any    *)
(* constants: GitCommit (any requests, files and edits, any number of pushes and  *)
(* calls), and PackageCrawl (any intervals, any number of changes and faults).    *)
(***************************************************************************)
EXTENDS GitCommit, PackageCrawl, FiniteSetTheorems, TLAPS

-----------------------------------------------------------------------------
(* CommitFiles.                                                              *)

(* What a commit of request r on tree t has to contain.                        *)
Goal(r, t) == [p \in Paths |-> IF p \in Wanted(r) THEN Edits[r][p] ELSE t[p]]

(* Whatever CommitFiles sends, filtered or not, leads to that tree.            *)
LEMMA SentIsGoal ==
  ASSUME NEW r \in Requests, NEW t \in Trees, NEW E \in Sent(r, t)
  PROVE  /\ E \in SUBSET Paths
         /\ Applied(r, t, E) = Goal(r, t)
         /\ Goal(r, t) \in Trees
         /\ E = {} => Goal(r, t) = t
<1>1. E = Effective(r, t) \/ E = Wanted(r)
  BY DEF Sent
<1>2. E \in SUBSET Paths
  BY <1>1 DEF Effective, Wanted
<1>3. ASSUME NEW p \in Paths
      PROVE  (IF p \in E THEN Edits[r][p] ELSE t[p])
               = (IF p \in Wanted(r) THEN Edits[r][p] ELSE t[p])
  BY <1>1 DEF Effective, Wanted
<1>4. Applied(r, t, E) = Goal(r, t)
  BY <1>3 DEF Applied, Goal
<1>5. ASSUME NEW p \in Paths
      PROVE  (IF p \in Wanted(r) THEN Edits[r][p] ELSE t[p]) \in Values \cup {None}
  BY CommitAssumption DEF Wanted, Trees
<1>6. Goal(r, t) \in Trees
  BY <1>5 DEF Goal, Trees
<1>7. ASSUME E = {} PROVE Goal(r, t) = t
  <2>1. \A p \in Paths : (IF p \in E THEN Edits[r][p] ELSE t[p]) = t[p]
    BY <1>7
  <2>2. Applied(r, t, E) = t
    BY <2>1 DEF Applied, Trees
  <2> QED BY <2>2, <1>4
<1> QED BY <1>2, <1>4, <1>6, <1>7

(* A branch that gets one more commit.                                        *)
LEMMA Appended ==
  ASSUME NEW S, NEW s \in Seq(S), NEW c \in S
  PROVE  /\ Append(s, c) \in Seq(S)
         /\ Len(Append(s, c)) = Len(s) + 1
         /\ \A i \in 1..Len(s) : Append(s, c)[i] = s[i]
         /\ Append(s, c)[Len(s) + 1] = c
         /\ Len(s) \in Nat
  OBVIOUS

(* Every commit of the branch has a tree.                                      *)
LEMMA TreeTyped ==
  ASSUME TypeOK, NEW n \in 0..Len(branch)
  PROVE  TreeAt(n) \in Trees
<1>1. EmptyTree \in Trees
  BY DEF EmptyTree, Trees
<1>2. ASSUME n # 0 PROVE branch[n] \in Commits
  BY <1>2 DEF TypeOK
<1>3. ASSUME n # 0 PROVE branch[n].tree \in Trees
  BY <1>2, <1>3 DEF Commits
<1> QED BY <1>1, <1>3 DEF TreeAt

-----------------------------------------------------------------------------
(* The inductive invariant.                                                   *)

(* A call knows no history that is not there, and one that lost a race knows some;  *)
(* the commit it is about to put on the branch is right for the base it was built  *)
(* on; the commit it reported has what was asked.                             *)
Reported(r) ==
  /\ ret[r] \in 1..Len(branch)
  /\ \A p \in Wanted(r) : branch[ret[r]].tree[p] = Edits[r][p]

CallInv(r) ==
  /\ base[r] <= Len(branch)
  /\ pc[r] = "recover" => Len(branch) > 0
  /\ pc[r] = "rebuild" => base[r] > 0
  /\ pc[r] \in {"update", "reupdate"} => draft[r] = Goal(r, TreeAt(base[r]))
  /\ pc[r] = "ok" => Reported(r)

(* Every commit of a request on the branch is right for its parent.             *)
BranchInv ==
  \A i \in 1..Len(branch) :
    branch[i].by # None => branch[i].tree = Goal(branch[i].by, TreeAt(i - 1))

Inv == TypeOK /\ BranchInv /\ \A r \in Requests : CallInv(r)

(* The part of a step that moves the branch: what held of the history still does.   *)
LEMMA HistoryKept ==
  ASSUME Inv, NEW c \in Commits, branch' = Append(branch, c),
         c.by # None => c.tree = Goal(c.by, TreeAt(Len(branch)))
  PROVE  /\ branch' \in Seq(Commits)
         /\ Len(branch') = Len(branch) + 1
         /\ Len(branch) \in Nat
         /\ \A i \in 1..Len(branch) : branch'[i] = branch[i]
         /\ branch'[Len(branch) + 1] = c
         /\ \A n \in 0..Len(branch) : TreeAt(n)' = TreeAt(n)
         /\ BranchInv'
<1>1. /\ branch' \in Seq(Commits)
      /\ Len(branch') = Len(branch) + 1
      /\ Len(branch) \in Nat
      /\ \A i \in 1..Len(branch) : branch'[i] = branch[i]
      /\ branch'[Len(branch) + 1] = c
  BY Appended DEF Inv, TypeOK
<1>2. \A n \in 0..Len(branch) : TreeAt(n)' = TreeAt(n)
  BY <1>1 DEF TreeAt, EmptyTree
<1>3. ASSUME NEW i \in 1..Len(branch'), branch'[i].by # None
      PROVE  branch'[i].tree = Goal(branch'[i].by, TreeAt(i - 1)')
  <2>1. CASE i = Len(branch) + 1
    <3>1. i - 1 = Len(branch) /\ Len(branch) \in 0..Len(branch)
      BY <1>1, <2>1
    <3>2. TreeAt(i - 1)' = TreeAt(Len(branch))
      BY <3>1, <1>2
    <3> QED BY <1>1, <1>3, <2>1, <3>2
  <2>2. CASE i # Len(branch) + 1
    <3>1. i \in 1..Len(branch) /\ i - 1 \in 0..Len(branch)
      BY <1>1, <2>2
    <3>2. TreeAt(i - 1)' = TreeAt(i - 1) /\ branch'[i] = branch[i]
      BY <3>1, <1>1, <1>2
    <3> QED BY <3>1, <3>2, <1>3 DEF Inv, BranchInv
  <2> QED BY <2>1, <2>2
<1>4. BranchInv'
  BY <1>3 DEF BranchInv, Goal, Wanted
<1> QED BY <1>1, <1>2, <1>4

(* The branch grows or stays: other calls keep what they rely on.               *)
Grows ==
  /\ Len(branch) \in Nat /\ Len(branch') \in Nat /\ Len(branch) <= Len(branch')
  /\ \A i \in 1..Len(branch) : branch'[i] = branch[i]
  /\ \A n \in 0..Len(branch) : TreeAt(n)' = TreeAt(n)

(* A branch that stays as it is.                                               *)
LEMMA Unmoved ==
  ASSUME Inv, branch' = branch
  PROVE  Grows /\ BranchInv'
<1>1. Len(branch) \in Nat
  BY DEF Inv, TypeOK
<1>2. \A n \in 0..Len(branch) : TreeAt(n)' = TreeAt(n)
  BY DEF TreeAt, EmptyTree
<1>3. BranchInv'
  BY DEF Inv, BranchInv, TreeAt, EmptyTree, Goal, Wanted
<1> QED BY <1>1, <1>2, <1>3 DEF Grows

(* A call keeps what it knows when the branch only grows.                      *)
LEMMA CallKept ==
  ASSUME Inv, Grows, NEW q \in Requests,
         pc'[q] = pc[q], base'[q] = base[q], draft'[q] = draft[q], ret'[q] = ret[q]
  PROVE  CallInv(q)'
<1>1. base[q] \in 0..Len(branch) /\ CallInv(q)
  BY DEF Inv, CallInv, TypeOK, Grows
<1>2. TreeAt(base[q])' = TreeAt(base[q])
  BY <1>1 DEF Grows, TreeAt, EmptyTree
<1>3. pc[q] = "ok" => Reported(q)'
  <2> SUFFICES ASSUME pc[q] = "ok" PROVE Reported(q)'
    OBVIOUS
  <2>1. Reported(q)
    BY <1>1 DEF CallInv
  <2>2. ret[q] \in 1..Len(branch') /\ branch'[ret[q]] = branch[ret[q]]
    BY <2>1 DEF Reported, Grows
  <2> QED BY <2>1, <2>2 DEF Reported, Wanted
<1>4. pc'[q] \in {"update", "reupdate"} => draft'[q] = Goal(q, TreeAt(base[q])')
  BY <1>1, <1>2 DEF CallInv
<1> QED BY <1>1, <1>3, <1>4 DEF CallInv, Grows, Goal, Wanted

(* A step of one call.                                                        *)
LEMMA OneCall ==
  ASSUME Inv, Grows, TypeOK', BranchInv', NEW r \in Requests, CallInv(r)',
         \A q \in Requests \ {r} :
           pc'[q] = pc[q] /\ base'[q] = base[q] /\ draft'[q] = draft[q] /\ ret'[q] = ret[q]
  PROVE  Inv'
<1>1. ASSUME NEW q \in Requests, q # r PROVE CallInv(q)'
  BY <1>1, CallKept
<1>2. \A q \in Requests : CallInv(q)'
  BY <1>1
<1> QED BY <1>2 DEF Inv

-----------------------------------------------------------------------------
(* The invariant holds at first.                                               *)
LEMMA InitInv == Init => Inv
<1> SUFFICES ASSUME Init PROVE Inv
  OBVIOUS
<1>1. branch \in Seq(Commits) /\ \A i \in 1..Len(branch) : branch[i].by = None
  <2>1. CASE branch = <<>>
    BY <2>1
  <2>2. CASE \E t \in Trees : branch = <<[by |-> None, keyed |-> FALSE, tree |-> t]>>
    <3>1. PICK t \in Trees : branch = <<[by |-> None, keyed |-> FALSE, tree |-> t]>>
      BY <2>2
    <3>2. [by |-> None, keyed |-> FALSE, tree |-> t] \in Commits
      BY DEF Commits
    <3> QED BY <3>1, <3>2
  <2> QED BY <2>1, <2>2 DEF Init
<1>2. EmptyTree \in Trees
  BY DEF EmptyTree, Trees
<1>3. TypeOK
  BY <1>1, <1>2 DEF Init, TypeOK, PCs
<1>4. Len(branch) \in Nat
  BY <1>1
<1>5. BranchInv /\ \A r \in Requests : CallInv(r)
  BY <1>1, <1>4 DEF Init, CallInv, BranchInv
<1> QED BY <1>3, <1>5 DEF Inv

(* A call that ends with the right answer.                                     *)
LEMMA DoneRight ==
  ASSUME Inv, Grows, NEW r \in Requests, NEW n \in 1..Len(branch'), Done(r, n),
         \A p \in Wanted(r) : branch'[n].tree[p] = Edits[r][p]
  PROVE  CallInv(r)'
<1>1. pc'[r] = "ok" /\ ret'[r] = n /\ base'[r] = base[r]
  BY DEF Done, Goto, Inv, TypeOK
<1>2. Reported(r)'
  BY <1>1 DEF Reported, Wanted
<1>3. base[r] <= Len(branch) /\ base[r] \in Nat
  BY DEF Inv, CallInv, TypeOK
<1> QED BY <1>1, <1>2, <1>3 DEF CallInv, Grows

(* A call that has returned has the type.                                      *)
LEMMA DoneTyped ==
  ASSUME TypeOK, NEW r \in Requests, NEW n \in Nat, Done(r, n), UNCHANGED Same,
         branch' \in Seq(Commits)
  PROVE  TypeOK'
  BY DEF TypeOK, Done, Goto, Same, PCs

(* A call that goes on has the type.                                           *)
LEMMA GotoTyped ==
  ASSUME TypeOK, NEW r \in Requests, NEW s \in PCs, Goto(r, s), UNCHANGED <<callVars, Same>>,
         branch' \in Seq(Commits)
  PROVE  TypeOK'
  BY DEF TypeOK, Goto, callVars, Same

(* Going to a step that relies on nothing.                                     *)
LEMMA GotoPlain ==
  ASSUME Inv, Grows, NEW r \in Requests,
         NEW s \in PCs \ {"recover", "rebuild", "update", "reupdate", "ok"},
         pc'[r] = s, base'[r] = base[r]
  PROVE  CallInv(r)'
<1>1. base[r] <= Len(branch) /\ base[r] \in Nat
  BY DEF Inv, CallInv, TypeOK
<1> QED BY <1>1 DEF CallInv, Grows

(* The tree at a call's base has what its goal has when nothing is left to do.    *)
LEMMA NothingToDo ==
  ASSUME Inv, NEW r \in Requests, base[r] # 0, Goal(r, TreeAt(base[r])) = TreeAt(base[r])
  PROVE  /\ base[r] \in 1..Len(branch)
         /\ \A p \in Wanted(r) : branch[base[r]].tree[p] = Edits[r][p]
<1>1. base[r] \in 1..Len(branch)
  BY DEF Inv, CallInv, TypeOK
<1>2. TreeAt(base[r]) = branch[base[r]].tree
  BY DEF TreeAt
<1>3. ASSUME NEW p \in Wanted(r) PROVE Goal(r, TreeAt(base[r]))[p] = Edits[r][p]
  BY DEF Goal, Wanted
<1> QED BY <1>1, <1>2, <1>3

(* What the step that builds the tree, and the one that rebuilds it, may lead to.   *)
Satisfied(r) == base[r] # 0 /\ Goal(r, TreeAt(base[r])) = TreeAt(base[r]) /\ Done(r, base[r])
Drafted(r, s) ==
  \E E \in SUBSET Paths :
    /\ entries' = [entries EXCEPT ![r] = E]
    /\ draft' = [draft EXCEPT ![r] = Goal(r, TreeAt(base[r]))]
    /\ Goal(r, TreeAt(base[r])) \in Trees
    /\ Goto(r, s)
    /\ UNCHANGED <<base, ret>>

(* What comes of building a commit.                                            *)
LEMMA BuildOutcome ==
  ASSUME Inv, NEW r \in Requests, BuildTree(r)
  PROVE  (Refuse(r) \/ Satisfied(r) \/ Drafted(r, "update")) /\ UNCHANGED <<branch, Same>>
<1> DEFINE t == TreeAt(base[r])
<1>1. base[r] \in 0..Len(branch)
  BY DEF Inv, CallInv, TypeOK
<1>2. t \in Trees
  BY <1>1, TreeTyped DEF Inv
<1>3. PICK E \in Sent(r, t) :
        \/ Refuse(r)
        \/ base[r] # 0 /\ (E = {} \/ Applied(r, t, E) = t) /\ Done(r, base[r])
        \/ Draft(r, E, "update")
  BY DEF BuildTree
<1>4. E \in SUBSET Paths /\ Applied(r, t, E) = Goal(r, t) /\ Goal(r, t) \in Trees
      /\ (E = {} => Goal(r, t) = t)
  BY <1>2, SentIsGoal
<1>5. UNCHANGED <<branch, Same>>
  BY DEF BuildTree
<1> QED BY <1>3, <1>4, <1>5 DEF Satisfied, Drafted, Draft

(* What comes of building it again on a head that has moved.                   *)
LEMMA RebuildOutcome ==
  ASSUME Inv, NEW r \in Requests, Rebuild(r)
  PROVE  (Refuse(r) \/ Satisfied(r) \/ Drafted(r, "reupdate")) /\ UNCHANGED <<branch, Same>>
<1> DEFINE t == TreeAt(base[r])
<1>1. base[r] \in 0..Len(branch) /\ base[r] # 0
  BY DEF Inv, CallInv, TypeOK, Rebuild
<1>2. t \in Trees
  BY <1>1, TreeTyped DEF Inv
<1>3. PICK E \in Sent(r, t) :
        \/ Refuse(r)
        \/ E = {} /\ Done(r, base[r])
        \/ Draft(r, E, "reupdate")
  BY DEF Rebuild
<1>4. E \in SUBSET Paths /\ Applied(r, t, E) = Goal(r, t) /\ Goal(r, t) \in Trees
      /\ (E = {} => Goal(r, t) = t)
  BY <1>2, SentIsGoal
<1>5. UNCHANGED <<branch, Same>>
  BY DEF Rebuild
<1> QED BY <1>1, <1>3, <1>4, <1>5 DEF Satisfied, Drafted, Draft

(* Both leave the invariant as it is.                                          *)
LEMMA OutcomeInv ==
  ASSUME Inv, NEW r \in Requests, NEW s \in {"update", "reupdate"},
         Refuse(r) \/ Satisfied(r) \/ Drafted(r, s), UNCHANGED <<branch, Same>>
  PROVE  Inv'
<1>0. TypeOK /\ Len(branch) \in Nat /\ branch' = branch /\ base[r] \in 0..Len(branch)
  BY DEF Inv, TypeOK, CallInv
<1>1. Grows /\ BranchInv'
  BY <1>0, Unmoved
<1>2. CASE Refuse(r)
  <2>1. TypeOK'
    BY <1>0, <1>2, GotoTyped DEF Refuse, TypeOK, PCs
  <2>2. pc'[r] = "error" /\ base'[r] = base[r]
    BY <1>0, <1>2 DEF TypeOK, Refuse, Goto, callVars
  <2>3. CallInv(r)'
    BY <1>1, <2>2, GotoPlain DEF PCs
  <2>4. \A q \in Requests \ {r} :
          pc'[q] = pc[q] /\ base'[q] = base[q] /\ draft'[q] = draft[q] /\ ret'[q] = ret[q]
    BY <1>0, <1>2 DEF TypeOK, Refuse, Goto, callVars
  <2> QED BY <1>1, <2>1, <2>3, <2>4, OneCall
<1>3. CASE Satisfied(r)
  <2>1. /\ base[r] \in 1..Len(branch)
        /\ \A p \in Wanted(r) : branch[base[r]].tree[p] = Edits[r][p]
    BY <1>3, NothingToDo DEF Satisfied
  <2>2. CallInv(r)'
    BY <1>0, <1>1, <1>3, <2>1, DoneRight DEF Satisfied
  <2>3. TypeOK'
    BY <1>0, <1>3, DoneTyped DEF Satisfied, TypeOK
  <2>4. \A q \in Requests \ {r} :
          pc'[q] = pc[q] /\ base'[q] = base[q] /\ draft'[q] = draft[q] /\ ret'[q] = ret[q]
    BY <1>0, <1>3 DEF TypeOK, Satisfied, Done, Goto
  <2> QED BY <1>1, <2>2, <2>3, <2>4, OneCall
<1>4. CASE Drafted(r, s)
  <2>1. TypeOK'
    BY <1>0, <1>4 DEF TypeOK, Drafted, Goto, PCs, Same
  <2>2. pc'[r] = s /\ base'[r] = base[r] /\ draft'[r] = Goal(r, TreeAt(base[r]))
    BY <1>0, <1>4 DEF TypeOK, Drafted, Goto
  <2>3. TreeAt(base[r])' = TreeAt(base[r])
    BY <1>0, <2>2 DEF TreeAt, EmptyTree
  <2>4. draft'[r] = Goal(r, TreeAt(base[r])')
    BY <2>2, <2>3
  <2>5. CallInv(r)'
    BY <1>0, <2>2, <2>4 DEF CallInv, Goal, Wanted
  <2>6. \A q \in Requests \ {r} :
          pc'[q] = pc[q] /\ base'[q] = base[q] /\ draft'[q] = draft[q] /\ ret'[q] = ret[q]
    BY <1>0, <1>4 DEF TypeOK, Drafted, Goto
  <2> QED BY <1>1, <2>1, <2>5, <2>6, OneCall
<1> QED BY <1>2, <1>3, <1>4

(* The ref moves: the call's commit is right for its parent, and the call has what    *)
(* it reports.                                                               *)
LEMMA MoveInv ==
  ASSUME Inv, NEW r \in Requests, pc[r] \in {"update", "reupdate"}, Moves(r), Move(r),
         Done(r, Len(branch) + 1) \/ Refuse(r), UNCHANGED Same
  PROVE  Inv'
<1> DEFINE c == NewCommit(r)
<1>0. TypeOK /\ Len(branch) \in Nat /\ base[r] = Len(branch)
  BY DEF Inv, TypeOK, Moves
<1>1. c.by = r /\ c.tree = draft[r] /\ c \in Commits
  BY <1>0 DEF NewCommit, Commits, TypeOK
<1>2. draft[r] = Goal(r, TreeAt(Len(branch)))
  BY <1>0 DEF Inv, CallInv
<1>3. branch' = Append(branch, c)
  BY DEF Move
<1> HIDE DEF c
<1>4. /\ branch' \in Seq(Commits)
      /\ Len(branch') = Len(branch) + 1
      /\ \A i \in 1..Len(branch) : branch'[i] = branch[i]
      /\ branch'[Len(branch) + 1] = c
      /\ \A n \in 0..Len(branch) : TreeAt(n)' = TreeAt(n)
      /\ BranchInv'
  BY <1>1, <1>2, <1>3, HistoryKept
<1>5. Grows
  BY <1>0, <1>4 DEF Grows
<1>6. \A q \in Requests \ {r} :
        pc'[q] = pc[q] /\ base'[q] = base[q] /\ draft'[q] = draft[q] /\ ret'[q] = ret[q]
  BY <1>0 DEF TypeOK, Refuse, Done, Goto, callVars
<1>7. CASE Done(r, Len(branch) + 1)
  <2>1. \A p \in Wanted(r) : branch'[Len(branch) + 1].tree[p] = Edits[r][p]
    BY <1>1, <1>2, <1>4 DEF Goal, Wanted
  <2>2. Len(branch) + 1 \in 1..Len(branch') /\ Len(branch) + 1 \in Nat
    BY <1>0, <1>4
  <2>3. CallInv(r)'
    BY <1>5, <1>7, <2>1, <2>2, DoneRight
  <2>4. TypeOK'
    BY <1>0, <1>4, <1>7, <2>2, DoneTyped
  <2> QED BY <1>4, <1>5, <1>6, <2>3, <2>4, OneCall
<1>8. CASE Refuse(r)
  <2>1. TypeOK'
    BY <1>0, <1>4, <1>8, GotoTyped DEF Refuse, PCs
  <2>2. pc'[r] = "error" /\ base'[r] = base[r]
    BY <1>0, <1>8 DEF TypeOK, Refuse, Goto, callVars
  <2>3. CallInv(r)'
    BY <1>5, <2>2, GotoPlain DEF PCs
  <2> QED BY <1>4, <1>5, <1>6, <2>1, <2>3, OneCall
<1> QED BY <1>7, <1>8

(* Every step keeps the invariant.                                             *)
LEMMA NextInv == Inv /\ [Next]_vars => Inv'
<1> SUFFICES ASSUME Inv, [Next]_vars PROVE Inv'
  OBVIOUS
<1>0. TypeOK /\ Len(branch) \in Nat
  BY DEF Inv, TypeOK
<1>1. CASE UNCHANGED vars
  <2>1. Grows /\ BranchInv'
    BY <1>1, Unmoved DEF vars
  <2>2. TypeOK'
    BY <1>0, <1>1 DEF TypeOK, vars, callVars
  <2>3. \A q \in Requests : CallInv(q)'
    BY <1>1, <2>1, CallKept DEF vars, callVars
  <2> QED BY <2>1, <2>2, <2>3 DEF Inv
<1>2. CASE Push
  <2>1. PICK p \in Paths, v \in Values \cup {None} :
          branch' = Append(branch, [by |-> None, keyed |-> FALSE,
                                    tree |-> [TreeAt(Len(branch)) EXCEPT ![p] = v]])
    BY <1>2 DEF Push
  <2> DEFINE c == [by |-> None, keyed |-> FALSE, tree |-> [TreeAt(Len(branch)) EXCEPT ![p] = v]]
  <2>2. TreeAt(Len(branch)) \in Trees
    BY <1>0, TreeTyped
  <2>3. c \in Commits /\ c.by = None
    BY <2>2 DEF Commits, Trees
  <2>4. branch' = Append(branch, c)
    BY <2>1
  <2> HIDE DEF c
  <2>5. /\ branch' \in Seq(Commits)
        /\ Len(branch') = Len(branch) + 1
        /\ \A i \in 1..Len(branch) : branch'[i] = branch[i]
        /\ \A n \in 0..Len(branch) : TreeAt(n)' = TreeAt(n)
        /\ BranchInv'
    BY <2>3, <2>4, HistoryKept
  <2>6. Grows
    BY <1>0, <2>5 DEF Grows
  <2>7. TypeOK'
    BY <1>0, <1>2, <2>5 DEF TypeOK, Push, callVars
  <2>8. \A q \in Requests : CallInv(q)'
    BY <1>2, <2>6, CallKept DEF Push, callVars
  <2> QED BY <2>5, <2>7, <2>8 DEF Inv
<1>3. ASSUME NEW r \in Requests, Attempt(r) PROVE Inv'
  <2>1. Grows /\ BranchInv'
    BY <1>3, Unmoved DEF Attempt
  <2>2. TypeOK'
    BY <1>0, <1>3 DEF TypeOK, Attempt, Goto, PCs
  <2>3. pc'[r] = "ref" /\ base'[r] = base[r]
    BY <1>0, <1>3 DEF TypeOK, Attempt, Goto
  <2>4. CallInv(r)'
    BY <2>1, <2>3, GotoPlain DEF PCs
  <2>5. \A q \in Requests \ {r} :
          pc'[q] = pc[q] /\ base'[q] = base[q] /\ draft'[q] = draft[q] /\ ret'[q] = ret[q]
    BY <1>0, <1>3 DEF TypeOK, Attempt, Goto
  <2> QED BY <2>1, <2>2, <2>4, <2>5, OneCall
<1>4. ASSUME NEW r \in Requests, CallFails(r) PROVE Inv'
  <2>1. Grows /\ BranchInv'
    BY <1>4, Unmoved DEF CallFails
  <2>2. TypeOK'
    BY <1>0, <1>4 DEF TypeOK, CallFails, Goto, PCs, callVars, Same
  <2>3. pc'[r] = "error" /\ base'[r] = base[r]
    BY <1>0, <1>4 DEF TypeOK, CallFails, Goto, callVars
  <2>4. CallInv(r)'
    BY <2>1, <2>3, GotoPlain DEF PCs
  <2>5. \A q \in Requests \ {r} :
          pc'[q] = pc[q] /\ base'[q] = base[q] /\ draft'[q] = draft[q] /\ ret'[q] = ret[q]
    BY <1>0, <1>4 DEF TypeOK, CallFails, Goto, callVars
  <2> QED BY <2>1, <2>2, <2>4, <2>5, OneCall
<1>5. ASSUME NEW r \in Requests, CommitFiles(r) PROVE Inv'
  <2>1. CASE GetRef(r)
    <3>1. Grows /\ BranchInv'
      BY <2>1, Unmoved DEF GetRef
    <3>2. TypeOK'
      BY <1>0, <2>1 DEF TypeOK, GetRef, Goto, PCs, Same
    <3>3. pc'[r] \in {"tree", "find"} /\ base'[r] = Len(branch) /\ branch' = branch
      BY <1>0, <2>1 DEF TypeOK, GetRef, Goto
    <3>4. CallInv(r)'
      BY <1>0, <3>3 DEF CallInv
    <3>5. \A q \in Requests \ {r} :
            pc'[q] = pc[q] /\ base'[q] = base[q] /\ draft'[q] = draft[q] /\ ret'[q] = ret[q]
      BY <1>0, <2>1 DEF TypeOK, GetRef, Goto
    <3> QED BY <3>1, <3>2, <3>4, <3>5, OneCall
  <2>2. CASE FindKey(r)
    <3>0. \A q \in Requests \ {r} :
            pc'[q] = pc[q] /\ base'[q] = base[q] /\ draft'[q] = draft[q] /\ ret'[q] = ret[q]
      BY <1>0, <2>2 DEF TypeOK, FindKey, Done, Goto, callVars
    <3>1. Grows /\ BranchInv' /\ branch' = branch
      BY <2>2, Unmoved DEF FindKey
    <3>2. CASE \E i \in Found(r) : Done(r, i)
      <4>1. PICK i \in Found(r) : Done(r, i)
        BY <3>2
      <4>2. i \in 1..Len(branch) /\ branch[i].by = r /\ r # None
        BY CommitAssumption DEF Found, Newest, HasKey
      <4>3. branch[i].tree = Goal(r, TreeAt(i - 1))
        BY <4>2 DEF Inv, BranchInv
      <4>4. \A p \in Wanted(r) : branch'[i].tree[p] = Edits[r][p]
        BY <3>1, <4>3 DEF Goal, Wanted
      <4>5. CallInv(r)'
        BY <3>1, <4>1, <4>2, <4>4, DoneRight
      <4>6. TypeOK'
        <5>1. i \in Nat /\ branch' \in Seq(Commits) /\ UNCHANGED Same
          BY <1>0, <2>2, <3>1, <4>2 DEF FindKey, TypeOK
        <5> QED BY <1>0, <4>1, <5>1, DoneTyped
      <4> QED BY <3>0, <3>1, <4>5, <4>6, OneCall
    <3>3. CASE Goto(r, "tree") /\ UNCHANGED callVars
      <4>1. TypeOK'
        BY <1>0, <2>2, <3>1, <3>3, GotoTyped DEF FindKey, TypeOK, PCs
      <4>2. pc'[r] = "tree" /\ base'[r] = base[r]
        BY <1>0, <3>3 DEF TypeOK, Goto, callVars
      <4>3. CallInv(r)'
        BY <3>1, <4>2, GotoPlain DEF PCs
      <4> QED BY <3>0, <3>1, <4>1, <4>3, OneCall
    <3> QED BY <2>2, <3>2, <3>3 DEF FindKey
  <2>3. CASE BuildTree(r)
    BY <2>3, BuildOutcome, OutcomeInv
  <2>4. CASE UpdateRef(r)
    <3>1. CASE Moves(r)
      BY <2>4, <3>1, MoveInv DEF UpdateRef, Refuse
    <3>2. CASE ~Moves(r)
      <4>1. Goto(r, "recover") /\ UNCHANGED <<branch, callVars, Same>>
        BY <2>4, <3>2 DEF UpdateRef
      <4>2. Grows /\ BranchInv'
        BY <4>1, Unmoved
      <4>3. TypeOK'
        BY <1>0, <4>1, GotoTyped DEF TypeOK, PCs
      <4>4. base[r] <= Len(branch) /\ base[r] \in Nat /\ Len(branch) # base[r]
        BY <3>2 DEF Inv, TypeOK, CallInv, Moves
      <4>5. pc'[r] = "recover" /\ base'[r] = base[r] /\ Len(branch') > 0
        BY <1>0, <4>1, <4>4 DEF TypeOK, Goto, callVars
      <4>6. CallInv(r)'
        BY <1>0, <4>1, <4>4, <4>5 DEF CallInv
      <4>7. \A q \in Requests \ {r} :
              pc'[q] = pc[q] /\ base'[q] = base[q] /\ draft'[q] = draft[q] /\ ret'[q] = ret[q]
        BY <1>0, <4>1 DEF TypeOK, Goto, callVars
      <4> QED BY <4>2, <4>3, <4>6, <4>7, OneCall
    <3> QED BY <3>1, <3>2
  <2>5. CASE ReadHead(r)
    <3>0. \A q \in Requests \ {r} :
            pc'[q] = pc[q] /\ base'[q] = base[q] /\ draft'[q] = draft[q] /\ ret'[q] = ret[q]
      BY <1>0, <2>5 DEF TypeOK, ReadHead, Done, Goto, callVars
    <3>1. Grows /\ BranchInv' /\ branch' = branch
      BY <2>5, Unmoved DEF ReadHead
    <3>2. Len(branch) \in 1..Len(branch)
      BY <1>0, <2>5 DEF Inv, CallInv, ReadHead
    <3>3. CASE HasKey(r, Len(branch))
      <4>1. branch[Len(branch)].by = r /\ r # None
        BY <3>3, CommitAssumption DEF HasKey
      <4>2. branch[Len(branch)].tree = Goal(r, TreeAt(Len(branch) - 1))
        BY <3>2, <4>1 DEF Inv, BranchInv
      <4>3. \A p \in Wanted(r) : branch'[Len(branch)].tree[p] = Edits[r][p]
        BY <3>1, <4>2 DEF Goal, Wanted
      <4>4. Done(r, Len(branch))
        BY <2>5, <3>3 DEF ReadHead
      <4>5. CallInv(r)'
        BY <3>1, <3>2, <4>3, <4>4, DoneRight
      <4>6. TypeOK'
        BY <1>0, <2>5, <3>1, <4>4, DoneTyped DEF ReadHead, TypeOK
      <4> QED BY <3>0, <3>1, <4>5, <4>6, OneCall
    <3>4. CASE ~HasKey(r, Len(branch))
      <4>1. pc'[r] = "rebuild" /\ base'[r] = Len(branch)
        BY <1>0, <2>5, <3>4 DEF TypeOK, ReadHead, Goto
      <4>2. CallInv(r)'
        BY <1>0, <3>1, <3>2, <4>1 DEF CallInv
      <4>3. TypeOK'
        BY <1>0, <2>5, <3>4 DEF TypeOK, ReadHead, Goto, PCs, Same
      <4> QED BY <3>0, <3>1, <4>2, <4>3, OneCall
    <3> QED BY <3>3, <3>4
  <2>6. CASE Rebuild(r)
    BY <2>6, RebuildOutcome, OutcomeInv
  <2>7. CASE UpdateRefAgain(r)
    <3>1. CASE Moves(r)
      BY <2>7, <3>1, MoveInv DEF UpdateRefAgain, Refuse
    <3>2. CASE ~Moves(r)
      BY <2>7, <3>2, OutcomeInv DEF UpdateRefAgain, Refuse
    <3> QED BY <3>1, <3>2
  <2> QED BY <1>5, <2>1, <2>2, <2>3, <2>4, <2>5, <2>6, <2>7 DEF CommitFiles
<1> QED BY <1>1, <1>2, <1>3, <1>4, <1>5 DEF Next

-----------------------------------------------------------------------------
(* The invariant holds in every behaviour.                                     *)
LEMMA Invariance == Spec => []Inv
<1>1. Init => Inv
  BY InitInv
<1>2. Inv /\ [Next]_vars => Inv'
  BY NextInv
<1> QED BY <1>1, <1>2, PTL DEF Spec

(* TypeCorrect: every variable keeps its type.                                 *)
THEOREM TypeCorrect == Spec => []TypeOK
<1>1. Inv => TypeOK
  BY DEF Inv
<1> QED BY <1>1, Invariance, PTL

(* NothingIsUndone: a request's commit changes no file that the request does not name,  *)
(* however many writers moved the branch while CommitFiles was at work.           *)
THEOREM NothingIsUndone == Spec => []NothingUndone
<1>1. Inv => NothingUndone
  <2> SUFFICES ASSUME Inv, NEW i \in 1..Len(branch), branch[i].by # None,
                      NEW p \in Paths \ Wanted(branch[i].by)
               PROVE  branch[i].tree[p] = TreeAt(i - 1)[p]
    BY DEF NothingUndone
  <2>1. branch[i].tree = Goal(branch[i].by, TreeAt(i - 1))
    BY DEF Inv, BranchInv
  <2> QED BY <2>1 DEF Goal
<1> QED BY <1>1, Invariance, PTL

(* ReportsAreApplied: the commit CommitFiles returns, made, found or already there,     *)
(* is on the branch and has every file the way the request wants it.             *)
THEOREM ReportsAreApplied == Spec => []ReportedIsApplied
<1>1. Inv => ReportedIsApplied
  BY DEF Inv, CallInv, Reported, ReportedIsApplied
<1> QED BY <1>1, Invariance, PTL

-----------------------------------------------------------------------------
(* One commit per request.                                                    *)

(* The search for the key sees the whole branch.                               *)
SearchIsComplete == Len(branch) <= Scan

(* The steps of a call that has looked for its commit and found none.            *)
Searched == {"tree", "update", "recover", "rebuild", "reupdate"}

OnceInv ==
  /\ \A i \in 1..Len(branch) : branch[i].by \in Keyed => branch[i].keyed
  /\ \A i, j \in 1..Len(branch) : branch[i].by \in Keyed /\ branch[i].by = branch[j].by => i = j
  /\ \A r \in Keyed :
       pc[r] \in Searched => \A i \in 1..Len(branch) : branch[i].by # r

(* No commit is on the branch twice at first.                                  *)
LEMMA InitOnce == Init => OnceInv
<1> SUFFICES ASSUME Init PROVE OnceInv
  OBVIOUS
<1>1. Len(branch) \in Nat /\ \A i \in 1..Len(branch) : branch[i].by = None
  <2>1. CASE branch = <<>>
    BY <2>1
  <2>2. CASE branch # <<>>
    <3>1. PICK t \in Trees : branch = <<[by |-> None, keyed |-> FALSE, tree |-> t]>>
      BY <2>2 DEF Init
    <3> QED BY <3>1
  <2> QED BY <2>1, <2>2
<1> QED BY <1>1, CommitAssumption DEF Init, OnceInv, Searched, Keyed

(* The branch gets a commit c; c is nobody's, or that of a call that has found none.   *)
LEMMA OnceAppended ==
  ASSUME Inv, OnceInv, NEW c \in Commits, branch' = Append(branch, c),
         c.by \in Keyed => c.keyed /\ pc[c.by] \in Searched /\ pc'[c.by] \notin Searched,
         \A q \in Requests : q # c.by => pc'[q] = pc[q]
  PROVE  OnceInv'
<1>1. /\ Len(branch') = Len(branch) + 1
      /\ Len(branch) \in Nat
      /\ \A i \in 1..Len(branch) : branch'[i] = branch[i]
      /\ branch'[Len(branch) + 1] = c
  BY Appended DEF Inv, TypeOK
<1>2. c.by \in Keyed => \A i \in 1..Len(branch) : branch[i].by # c.by
  BY DEF OnceInv
<1>3. \A i \in 1..Len(branch') : i \in 1..Len(branch) \/ i = Len(branch) + 1
  BY <1>1
<1>4. \A i \in 1..Len(branch') : branch'[i].by \in Keyed => branch'[i].keyed
  BY <1>1, <1>3 DEF OnceInv
<1>5. ASSUME NEW i \in 1..Len(branch'), NEW j \in 1..Len(branch'),
             branch'[i].by \in Keyed, branch'[i].by = branch'[j].by
      PROVE  i = j
  BY <1>1, <1>2, <1>3, <1>5 DEF OnceInv
<1>6. ASSUME NEW q \in Keyed, pc'[q] \in Searched, NEW i \in 1..Len(branch')
      PROVE  branch'[i].by # q
  <2>1. q # c.by
    BY <1>6
  <2>2. pc[q] \in Searched
    BY <1>6, <2>1 DEF Keyed
  <2> QED BY <1>1, <1>3, <2>1, <2>2 DEF OnceInv
<1> QED BY <1>4, <1>5, <1>6 DEF OnceInv

(* The branch stays, and only calls that had searched go on as such.             *)
LEMMA OnceUnmoved ==
  ASSUME OnceInv, branch' = branch,
         \A q \in Keyed : pc'[q] \in Searched =>
           pc[q] \in Searched \/ \A i \in 1..Len(branch) : branch[i].by # q
  PROVE  OnceInv'
  BY DEF OnceInv

(* A search of the whole branch that finds nothing.                             *)
LEMMA NotFound ==
  ASSUME Inv, OnceInv, SearchIsComplete, NEW r \in Keyed, Found(r) = {}
  PROVE  \A i \in 1..Len(branch) : branch[i].by # r
<1> SUFFICES ASSUME NEW i \in 1..Len(branch), branch[i].by = r PROVE FALSE
  OBVIOUS
<1>1. branch[i].keyed
  BY CommitAssumption DEF OnceInv
<1>2. Len(branch) \in Nat /\ i + Scan > Len(branch)
  BY CommitAssumption DEF SearchIsComplete, Inv, TypeOK
<1>3. i \in Found(r)
  BY <1>1, <1>2 DEF Found, Newest, HasKey
<1> QED BY <1>3

(* Every step keeps it so.                                                     *)
LEMMA NextOnce == Inv /\ OnceInv /\ SearchIsComplete /\ [Next]_vars => OnceInv'
<1> SUFFICES ASSUME Inv, OnceInv, SearchIsComplete, [Next]_vars PROVE OnceInv'
  OBVIOUS
<1> USE DEF Keyed
<1>0. TypeOK
  BY DEF Inv
<1>1. CASE UNCHANGED vars
  BY <1>1, OnceUnmoved DEF vars
<1>2. CASE Push
  <2>1. PICK p \in Paths, v \in Values \cup {None} :
          branch' = Append(branch, [by |-> None, keyed |-> FALSE,
                                    tree |-> [TreeAt(Len(branch)) EXCEPT ![p] = v]])
    BY <1>2 DEF Push
  <2> DEFINE c == [by |-> None, keyed |-> FALSE, tree |-> [TreeAt(Len(branch)) EXCEPT ![p] = v]]
  <2>2. TreeAt(Len(branch)) \in Trees
    BY <1>0, TreeTyped DEF TypeOK
  <2>3. c \in Commits /\ c.by \notin Keyed /\ branch' = Append(branch, c)
    BY <2>1, <2>2, CommitAssumption DEF Commits, Trees
  <2> HIDE DEF c
  <2>4. pc' = pc
    BY <1>2 DEF Push
  <2> QED BY <2>3, <2>4, OnceAppended
<1>3. ASSUME NEW r \in Requests, Attempt(r) \/ CallFails(r) PROVE OnceInv'
  <2>1. branch' = branch
    BY <1>3 DEF Attempt, CallFails
  <2>2. \A q \in Requests : pc'[q] \in Searched => pc[q] \in Searched
    BY <1>0, <1>3 DEF Attempt, CallFails, Goto, Searched, TypeOK
  <2> QED BY <2>1, <2>2, OnceUnmoved
<1>4. ASSUME NEW r \in Requests, GetRef(r) \/ FindKey(r) PROVE OnceInv'
  <2>1. branch' = branch
    BY <1>4 DEF GetRef, FindKey
  <2>2. \A q \in Requests \ {r} : pc'[q] = pc[q]
    BY <1>0, <1>4 DEF GetRef, FindKey, Done, Goto, TypeOK
  <2>3. CASE GetRef(r)
    <3>1. pc'[r] \in Searched => branch = <<>>
      BY <1>0, <2>3 DEF GetRef, Goto, Searched, TypeOK
    <3>2. branch = <<>> => 1..Len(branch) = {}
      OBVIOUS
    <3> QED BY <2>1, <2>2, <3>1, <3>2, OnceUnmoved
  <2>4. CASE FindKey(r)
    <3>1. pc'[r] \in Searched => Found(r) = {}
      BY <1>0, <2>4 DEF FindKey, Done, Goto, Searched, TypeOK
    <3> QED BY <2>1, <2>2, <3>1, NotFound, OnceUnmoved
  <2> QED BY <1>4, <2>3, <2>4
<1>5. ASSUME NEW r \in Requests, BuildTree(r) \/ ReadHead(r) \/ Rebuild(r) PROVE OnceInv'
  <2>1. branch' = branch
    BY <1>5 DEF BuildTree, ReadHead, Rebuild
  <2>2. pc[r] \in Searched
    BY <1>5 DEF BuildTree, ReadHead, Rebuild, Searched
  <2>3. \A q \in Requests \ {r} : pc'[q] = pc[q]
    BY <1>0, <1>5 DEF BuildTree, ReadHead, Rebuild, Refuse, Draft, Done, Goto, TypeOK
  <2> QED BY <2>1, <2>2, <2>3, OnceUnmoved
<1>6. ASSUME NEW r \in Requests, UpdateRef(r) \/ UpdateRefAgain(r) PROVE OnceInv'
  <2>1. pc[r] \in Searched
    BY <1>6 DEF UpdateRef, UpdateRefAgain, Searched
  <2>2. \A q \in Requests \ {r} : pc'[q] = pc[q]
    BY <1>0, <1>6 DEF UpdateRef, UpdateRefAgain, Refuse, Done, Goto, TypeOK
  <2>3. CASE Moves(r)
    <3> DEFINE c == NewCommit(r)
    <3>1. c \in Commits /\ c.by = r /\ (r \in Keyed => c.keyed)
      BY <1>0 DEF NewCommit, Commits, TypeOK, Keyed
    <3>2. branch' = Append(branch, c)
      BY <1>6, <2>3 DEF UpdateRef, UpdateRefAgain, Move
    <3>3. pc'[r] \in {"ok", "error"}
      BY <1>0, <1>6, <2>3 DEF UpdateRef, UpdateRefAgain, Refuse, Done, Goto, TypeOK
    <3> HIDE DEF c
    <3> QED BY <2>1, <2>2, <3>1, <3>2, <3>3, OnceAppended DEF Searched
  <2>4. CASE ~Moves(r)
    <3>1. branch' = branch
      BY <1>6, <2>4 DEF UpdateRef, UpdateRefAgain
    <3> QED BY <2>1, <2>2, <3>1, OnceUnmoved
  <2> QED BY <2>3, <2>4
<1> QED BY <1>1, <1>2, <1>3, <1>4, <1>5, <1>6 DEF Next, CommitFiles

(* CommitsOnce: while the branch is no longer than the search, no request whose message   *)
(* gets its key is committed twice, whatever answers are lost and however often         *)
(* CommitFiles is called.                                                       *)
THEOREM CommitsOnce == Spec /\ []SearchIsComplete => []CommittedOnce
<1>1. Init => OnceInv
  BY InitOnce
<1>2. Inv /\ OnceInv /\ SearchIsComplete /\ [Next]_vars => OnceInv'
  BY NextOnce
<1>3. OnceInv => CommittedOnce
  <2> SUFFICES ASSUME OnceInv, NEW r \in Keyed
               PROVE  Cardinality({i \in 1..Len(branch) : branch[i].by = r}) <= 1
    BY DEF CommittedOnce
  <2> DEFINE S == {i \in 1..Len(branch) : branch[i].by = r}
  <2>1. S = {} \/ \E i \in S : S = {i}
    BY CommitAssumption DEF OnceInv
  <2> HIDE DEF S
  <2>2. Cardinality(S) \in {0, 1}
    BY <2>1, FS_EmptySet, FS_Singleton
  <2>3. Cardinality(S) <= 1
    BY <2>2
  <2> QED BY <2>3 DEF S
<1> QED BY <1>1, <1>2, <1>3, Invariance, PTL DEF Spec

-----------------------------------------------------------------------------
(* The package crawler.                                                      *)

(* The parts of the type.                                                     *)
Crawlings == [uid : Uids, fresh : BOOLEAN, infos : [Types -> Infos],
              existing : [Types -> Packages], stale : SUBSET Types, todo : SUBSET Types]
RepoOK == repo \in Repos /\ rcached \in Repos
PackagesOK == pkgs \in [Types -> Packages] /\ cpkgs \in [Types -> Packages] /\ lag \subseteq Types
CrawlOK ==
  /\ step \in {"idle", "account", "image", "versions", "library", "list", "delete", "write"}
  /\ crawl \in Crawlings
HostOK == /\ host \in [Types -> Versions] /\ gaps \in [Types -> Versions]
          /\ since \in [Types -> 0..OldAge] /\ committed \in 0..Window
ListingsOK == listing \in [Pages -> [val : Versions, age : 0..TTL]]
CountersOK == /\ timer \in 0..Never /\ limit \in 0..Limit
              /\ changes \in Nat /\ faults \in Nat /\ deletions \in Nat
FlagsOK == queued \in BOOLEAN /\ known \in BOOLEAN /\ smooth \in BOOLEAN

(* The Packages that the crawler makes are Packages.                           *)
LEMMA PackagesTyped ==
  /\ NoPackage \in Packages
  /\ \A u \in Uids, m \in Nat, g \in Nat : [owner |-> u, meta |-> m, tags |-> g] \in Packages
  /\ \A u \in Uids : [NoPackage EXCEPT !.owner = u] \in Packages
  /\ \A u \in Uids : [NoPackage EXCEPT !.owner = u] # NoPackage
  /\ \A p \in Packages : p.meta \in Nat /\ p.tags \in Nat /\ (p # NoPackage => p.owner \in Uids)
BY DEF NoPackage, Packages, Uids, Versions

(* The crawl that has not begun.                                               *)
LEMMA IdleTyped == Idle \in Crawlings
BY PackagesTyped DEF Crawlings, Idle, Infos, Nothing, Versions, Uids

(* What the assumption on the constants says of each of them.                  *)
LEMMA Numbers ==
  /\ Fast \in Nat /\ Fast >= 1 /\ Interval \in Nat /\ Interval >= 1
  /\ Window \in Nat /\ Window >= 1 /\ TTL \in Nat /\ TTL >= 1 /\ Limit \in Nat /\ Limit >= 1
  /\ Never \in Nat /\ Never > Interval + Limit /\ OldAge \in Nat
BY PackageCrawlAssumption DEF Never, OldAge

(* The initial states have the type.                                           *)
LEMMA InitTyped == CrawlInit => CrawlTypeOK
<1> SUFFICES ASSUME CrawlInit PROVE CrawlTypeOK
  OBVIOUS
<1>1. repo \in Repos /\ rcached \in Repos
  BY DEF CrawlInit, Repos, Uids
<1>2. pkgs \in [Types -> Packages] /\ cpkgs \in [Types -> Packages] /\ lag \subseteq Types
  BY PackagesTyped DEF CrawlInit
<1>3. PICK s \in Scenarios :
        /\ host = [t \in Types |-> IF t \in s.published THEN 1 ELSE 0]
        /\ changes = s.changes /\ faults = s.faults /\ deletions = s.deletions
  BY DEF CrawlInit
<1>4. s.changes \in Nat /\ s.faults \in Nat /\ s.deletions \in Nat
  BY PackageCrawlAssumption
<1>5. host \in [Types -> Versions] /\ gaps \in [Types -> Versions]
  BY <1>3 DEF CrawlInit, Versions
<1>6. since \in [Types -> 0..OldAge] /\ committed \in 0..Window
  BY Numbers DEF CrawlInit
<1>7. listing \in [Pages -> [val : Versions, age : 0..TTL]]
  BY Numbers DEF CrawlInit, NoListing, Versions
<1>8. limit \in 0..Limit /\ timer \in 0..Never
  BY Numbers DEF CrawlInit
<1>9. crawl \in Crawlings
  BY IdleTyped DEF CrawlInit
<1> QED BY <1>1, <1>2, <1>3, <1>4, <1>5, <1>6, <1>7, <1>8, <1>9 DEF CrawlTypeOK, CrawlInit, Crawlings

(* The fields of a crawl under way.                                            *)
LEMMA CrawlFields ==
  ASSUME NEW c \in Crawlings
  PROVE  /\ c.uid \in Uids /\ c.infos \in [Types -> Infos]
         /\ c.existing \in [Types -> Packages] /\ c.stale \subseteq Types /\ c.todo \subseteq Types
         /\ \A t \in Types : c.infos[t].meta \in Nat /\ c.infos[t].tags \in Nat
BY DEF Crawlings, Infos, Versions

(* What the crawl knows after a listing is read.                                *)
LEMMA MetaNoted ==
  ASSUME NEW c \in Crawlings, NEW u \in Types, NEW v \in Nat, NEW d,
         d = [c EXCEPT !.infos[u].meta = v]
  PROVE  /\ d \in Crawlings
         /\ d.existing = c.existing /\ d.todo = c.todo /\ d.stale = c.stale /\ d.fresh = c.fresh
         /\ d.uid = c.uid
         /\ d.infos[u].meta = v /\ d.infos[u].tags = c.infos[u].tags
         /\ \A t \in Types \ {u} : d.infos[t] = c.infos[t]
<1>1. [c.infos[u] EXCEPT !.meta = v] \in Infos
  BY DEF Crawlings, Infos, Versions
<1>2. [c.infos EXCEPT ![u].meta = v] \in [Types -> Infos]
  BY <1>1 DEF Crawlings
<1>3. d = [c EXCEPT !.infos = [c.infos EXCEPT ![u].meta = v]]
  BY DEF Crawlings
<1>4. d \in Crawlings
  BY <1>2, <1>3 DEF Crawlings
<1>5. d.infos = [c.infos EXCEPT ![u].meta = v]
  BY <1>3 DEF Crawlings
<1>6. c.infos \in [Types -> Infos]
  BY CrawlFields
<1>7. d.infos[u] = [c.infos[u] EXCEPT !.meta = v]
  BY <1>5, <1>6
<1>8. d.infos[u].meta = v /\ d.infos[u].tags = c.infos[u].tags
  BY <1>7, <1>6 DEF Infos
<1>9. \A t \in Types \ {u} : d.infos[t] = c.infos[t]
  BY <1>5, <1>6
<1> QED BY <1>4, <1>8, <1>9, <1>3 DEF Crawlings

(* The same, of the versions of the image.                                     *)
LEMMA TagsNoted ==
  ASSUME NEW c \in Crawlings, NEW u \in Types, NEW v \in Nat, NEW d,
         d = [c EXCEPT !.infos[u].tags = v]
  PROVE  /\ d \in Crawlings
         /\ d.existing = c.existing /\ d.todo = c.todo /\ d.stale = c.stale /\ d.fresh = c.fresh
         /\ d.uid = c.uid
         /\ d.infos[u].tags = v /\ d.infos[u].meta = c.infos[u].meta
         /\ \A t \in Types \ {u} : d.infos[t] = c.infos[t]
<1>1. [c.infos[u] EXCEPT !.tags = v] \in Infos
  BY DEF Crawlings, Infos, Versions
<1>2. [c.infos EXCEPT ![u].tags = v] \in [Types -> Infos]
  BY <1>1 DEF Crawlings
<1>3. d = [c EXCEPT !.infos = [c.infos EXCEPT ![u].tags = v]]
  BY DEF Crawlings
<1>4. d \in Crawlings
  BY <1>2, <1>3 DEF Crawlings
<1>5. d.infos = [c.infos EXCEPT ![u].tags = v]
  BY <1>3 DEF Crawlings
<1>6. c.infos \in [Types -> Infos]
  BY CrawlFields
<1>7. d.infos[u] = [c.infos[u] EXCEPT !.tags = v]
  BY <1>5, <1>6
<1>8. d.infos[u].tags = v /\ d.infos[u].meta = c.infos[u].meta
  BY <1>7, <1>6 DEF Infos
<1>9. \A t \in Types \ {u} : d.infos[t] = c.infos[t]
  BY <1>5, <1>6
<1> QED BY <1>4, <1>8, <1>9, <1>3 DEF Crawlings

(* What it holds after listOwned, a deletion, a creation and a write.             *)
LEMMA Held ==
  ASSUME NEW c \in Crawlings, NEW u \in Types, NEW q \in Packages, NEW s \in SUBSET Types, NEW d,
         d = [c EXCEPT !.existing[u] = q, !.stale = s]
  PROVE  /\ d \in Crawlings
         /\ d.existing = [c.existing EXCEPT ![u] = q] /\ d.stale = s
         /\ d.todo = c.todo /\ d.infos = c.infos /\ d.fresh = c.fresh /\ d.uid = c.uid
BY DEF Crawlings

(* What it holds after the deletion of a Package.                              *)
LEMMA Forgotten ==
  ASSUME NEW c \in Crawlings, NEW u \in Types, NEW q \in Packages, NEW d,
         d = [c EXCEPT !.existing[u] = q]
  PROVE  /\ d \in Crawlings
         /\ d.existing = [c.existing EXCEPT ![u] = q] /\ d.stale = c.stale
         /\ d.todo = c.todo /\ d.infos = c.infos /\ d.fresh = c.fresh /\ d.uid = c.uid
BY DEF Crawlings

(* What it holds when the Packages to write are set down.                      *)
LEMMA Planned ==
  ASSUME NEW c \in Crawlings, NEW s \in SUBSET Types, NEW d, d = [c EXCEPT !.todo = s]
  PROVE  /\ d \in Crawlings /\ d.todo = s
         /\ d.existing = c.existing /\ d.stale = c.stale
         /\ d.infos = c.infos /\ d.fresh = c.fresh /\ d.uid = c.uid
BY DEF Crawlings

(* A crawl at its beginning.                                                   *)
LEMMA Begun ==
  ASSUME Idle \in Crawlings, NEW u \in Uids, NEW b \in BOOLEAN, NEW d,
         d = [Idle EXCEPT !.uid = u, !.fresh = b]
  PROVE  /\ d \in Crawlings /\ d.fresh = b /\ d.uid = u
         /\ d.todo = {} /\ d.infos = Idle.infos
BY DEF Crawlings, Idle

(* The type, part by part, before and after a step.                            *)
LEMMA Parts ==
  CrawlTypeOK <=> /\ RepoOK /\ PackagesOK /\ CrawlOK /\ HostOK
                  /\ ListingsOK /\ CountersOK /\ FlagsOK
BY DEF CrawlTypeOK, RepoOK, PackagesOK, CrawlOK, HostOK, ListingsOK, CountersOK, FlagsOK, Crawlings

(* The same, of the next state.                                                *)
LEMMA PartsNext ==
  /\ RepoOK' /\ PackagesOK' /\ CrawlOK' /\ HostOK'
  /\ ListingsOK' /\ CountersOK' /\ FlagsOK'
  => CrawlTypeOK'
BY DEF CrawlTypeOK, RepoOK, PackagesOK, CrawlOK, HostOK, ListingsOK, CountersOK, FlagsOK, Crawlings

(* A part keeps its type when its variables do not change.                        *)
LEMMA PartsKept ==
  ASSUME CrawlTypeOK
  PROVE  /\ UNCHANGED repoVars => RepoOK'
         /\ UNCHANGED pkgVars => PackagesOK'
         /\ UNCHANGED crawlVars => CrawlOK'
         /\ UNCHANGED hostVars => HostOK'
         /\ UNCHANGED listing => ListingsOK'
         /\ UNCHANGED <<timer, limit, changes, faults, deletions>> => CountersOK'
         /\ UNCHANGED <<queued, known, smooth>> => FlagsOK'
BY Parts DEF RepoOK, PackagesOK, CrawlOK, HostOK, ListingsOK, CountersOK, FlagsOK,
             repoVars, pkgVars, crawlVars, hostVars

(* A listing that is fetched.                                                *)
LEMMA FetchedTyped ==
  ASSUME CrawlTypeOK, NEW p \in Pages
  PROVE  Fetched(p) \in [Pages -> [val : Versions, age : 0..TTL]]
<1>1. HostOK /\ ListingsOK
  BY Parts
<1>2. host[Of(p)] \in Versions
  BY <1>1 DEF HostOK, Of, Types
<1>3. [val |-> host[Of(p)], age |-> 0] \in [val : Versions, age : 0..TTL]
  BY <1>2, Numbers
<1> QED BY <1>1, <1>3 DEF Fetched, ListingsOK

(* One lemma per action: what it leaves alone keeps its type; then the rest,   *)
(* part by part.                                                               *)
LEMMA FireTyped == ASSUME CrawlTypeOK, Fire PROVE CrawlTypeOK'
<1>1. UNCHANGED <<repoVars, pkgVars, crawlVars, hostVars, listing>>
  BY DEF Fire, cacheVars
<1>2. CountersOK'
  BY Parts, Numbers DEF CountersOK, Fire, boundVars
<1>3. FlagsOK'
  BY Parts DEF FlagsOK, Fire, cacheVars, boundVars
<1> QED BY <1>1, <1>2, <1>3, PartsKept, PartsNext

(* Start keeps the type.                                                       *)
LEMMA StartTyped == ASSUME CrawlTypeOK, Start PROVE CrawlTypeOK'
<1>1. UNCHANGED <<repoVars, pkgVars, hostVars, listing,
                  <<timer, limit, changes, faults, deletions>>>>
  BY DEF Start, queueVars, cacheVars, boundVars
<1>2. CrawlOK'
  <2>1. step' \in {"account", step}
    BY DEF Start, crawlVars
  <2>2. /\ rcached.uid \in Uids /\ crawl \in Crawlings
        /\ step \in {"idle", "account", "image", "versions", "library", "list", "delete", "write"}
    BY Parts DEF Repos, RepoOK, CrawlOK
  <2>3. Recent \in BOOLEAN
    BY DEF Recent
  <2>4. crawl' = crawl \/ crawl' = [Idle EXCEPT !.uid = rcached.uid, !.fresh = Recent]
    BY DEF Start, crawlVars
  <2>5. [Idle EXCEPT !.uid = rcached.uid, !.fresh = Recent] \in Crawlings
    BY <2>2, <2>3, IdleTyped, Begun
  <2> QED BY <2>1, <2>2, <2>4, <2>5 DEF CrawlOK
<1>3. FlagsOK'
  BY Parts DEF FlagsOK, Start, cacheVars, boundVars
<1> QED BY <1>1, <1>2, <1>3, PartsKept, PartsNext

(* Classify keeps the type.                                                    *)
LEMMA ClassifyTyped == ASSUME CrawlTypeOK, Classify PROVE CrawlTypeOK'
<1>1. UNCHANGED <<repoVars, pkgVars, hostVars, listing>>
  BY DEF Classify
<1>2. CrawlOK'
  BY Parts, IdleTyped DEF CrawlOK, Classify, Goes, Refused, Ends
<1>3. CountersOK'
  BY Parts, Numbers DEF CountersOK, Classify, Goes, Refused, Ends, Lesser, queueVars,
      boundVars
<1>4. FlagsOK'
  BY Parts DEF FlagsOK, Classify, Goes, Refused, Ends, queueVars, boundVars
<1> QED BY <1>1, <1>2, <1>3, <1>4, PartsKept, PartsNext

(* ListOwned keeps the type.                                                   *)
LEMMA ListOwnedTyped == ASSUME CrawlTypeOK, ListOwned PROVE CrawlTypeOK'
<1>1. UNCHANGED <<repoVars, pkgVars, hostVars, listing,
                  <<timer, limit, changes, faults, deletions>>, <<queued, known, smooth>>>>
  BY DEF ListOwned, Goes, queueVars, cacheVars, boundVars
<1>2. CrawlOK'
  BY Parts DEF CrawlOK, ListOwned, Goes, PackagesOK, Crawlings
<1> QED BY <1>1, <1>2, PartsKept, PartsNext

(* DeleteStale keeps the type.                                                 *)
LEMMA DeleteStaleTyped == ASSUME CrawlTypeOK, DeleteStale PROVE CrawlTypeOK'
<1>1. UNCHANGED <<repoVars, hostVars, listing,
                  <<timer, limit, changes, faults, deletions>>, <<queued, known, smooth>>>>
  BY DEF DeleteStale, Goes, queueVars, cacheVars, boundVars
<1>2. PackagesOK'
  BY Parts, PackagesTyped DEF PackagesOK, DeleteStale, PutPackage, Stale, pkgVars
<1>3. CrawlOK'
  <2>1. crawl \in Crawlings
    BY Parts DEF CrawlOK
  <2>2. {t \in Types : Listed(t)} \in SUBSET Types
    OBVIOUS
  <2>3. \/ crawl' = [crawl EXCEPT !.todo = {t \in Types : Listed(t)}]
        \/ \E t \in Types : crawl' = [crawl EXCEPT !.existing[t] = NoPackage]
    BY DEF DeleteStale, Stale
  <2>4. [crawl EXCEPT !.todo = {t \in Types : Listed(t)}] \in Crawlings
    BY <2>1, <2>2, Planned
  <2>5. \A t \in Types : [crawl EXCEPT !.existing[t] = NoPackage] \in Crawlings
    BY <2>1, PackagesTyped, Forgotten
  <2>6. crawl' \in Crawlings
    BY <2>3, <2>4, <2>5
  <2> QED BY <2>6 DEF CrawlOK, DeleteStale, Goes
<1> QED BY <1>1, <1>2, <1>3, PartsKept, PartsNext

(* Finish keeps the type.                                                      *)
LEMMA FinishTyped == ASSUME CrawlTypeOK, Finish PROVE CrawlTypeOK'
<1>1. UNCHANGED <<repoVars, pkgVars, hostVars, listing, <<queued, known, smooth>>>>
  BY DEF Finish, Ends, cacheVars, boundVars
<1>2. CrawlOK'
  BY Parts, IdleTyped DEF CrawlOK, Finish, Ends
<1>3. CountersOK'
  <2>1. NextCrawl \in 0..Never
    BY Numbers DEF NextCrawl, Lesser
  <2> QED BY <2>1, Parts DEF CountersOK, Finish, Ends, Lesser, boundVars
<1> QED BY <1>1, <1>2, <1>3, PartsKept, PartsNext

(* CrawlFails keeps the type.                                                  *)
LEMMA CrawlFailsTyped == ASSUME CrawlTypeOK, CrawlFails PROVE CrawlTypeOK'
<1>1. UNCHANGED <<repoVars, pkgVars, hostVars, listing>>
  BY DEF CrawlFails, cacheVars
<1>2. CrawlOK'
  BY Parts, IdleTyped DEF CrawlOK, CrawlFails, Ends
<1>3. CountersOK'
  BY Parts, Numbers DEF CountersOK, CrawlFails, Fault, Ends, Lesser
<1>4. FlagsOK'
  BY Parts DEF FlagsOK, CrawlFails, Fault, Ends, cacheVars
<1> QED BY <1>1, <1>2, <1>3, <1>4, PartsKept, PartsNext

(* SyncRepo keeps the type.                                                    *)
LEMMA SyncRepoTyped == ASSUME CrawlTypeOK, SyncRepo PROVE CrawlTypeOK'
<1>1. UNCHANGED <<pkgVars, crawlVars, hostVars, listing,
                  <<timer, limit, changes, faults, deletions>>>>
  BY DEF SyncRepo, cacheVars, boundVars
<1>2. RepoOK'
  BY Parts DEF RepoOK, SyncRepo
<1>3. FlagsOK'
  BY Parts DEF FlagsOK, SyncRepo, cacheVars, boundVars
<1> QED BY <1>1, <1>2, <1>3, PartsKept, PartsNext

(* DeleteRepo keeps the type.                                                  *)
LEMMA DeleteRepoTyped == ASSUME CrawlTypeOK, DeleteRepo PROVE CrawlTypeOK'
<1>1. UNCHANGED <<pkgVars, crawlVars, hostVars, listing>>
  BY DEF DeleteRepo, cacheVars
<1>2. RepoOK'
  BY Parts DEF RepoOK, DeleteRepo, Repos
<1>3. CountersOK'
  BY Parts DEF CountersOK, DeleteRepo, queueVars
<1>4. FlagsOK'
  BY Parts DEF FlagsOK, DeleteRepo, queueVars, cacheVars
<1> QED BY <1>1, <1>2, <1>3, <1>4, PartsKept, PartsNext

(* ReleaseRepo keeps the type.                                                 *)
LEMMA ReleaseRepoTyped == ASSUME CrawlTypeOK, ReleaseRepo PROVE CrawlTypeOK'
<1>1. UNCHANGED <<pkgVars, crawlVars, hostVars, listing,
                  <<timer, limit, changes, faults, deletions>>, <<queued, known, smooth>>>>
  BY DEF ReleaseRepo, queueVars, cacheVars, boundVars
<1>2. RepoOK'
  BY Parts DEF RepoOK, ReleaseRepo, Repos
<1> QED BY <1>1, <1>2, PartsKept, PartsNext

(* RecreateRepo keeps the type.                                                *)
LEMMA RecreateRepoTyped == ASSUME CrawlTypeOK, RecreateRepo PROVE CrawlTypeOK'
<1>1. UNCHANGED <<pkgVars, crawlVars, hostVars, listing,
                  <<timer, limit, changes, faults, deletions>>, <<queued, known, smooth>>>>
  BY DEF RecreateRepo, queueVars, cacheVars, boundVars
<1>2. RepoOK'
  BY Parts DEF RepoOK, RecreateRepo, Repos, Uids
<1> QED BY <1>1, <1>2, PartsKept, PartsNext

(* CommitSucceeds keeps the type.                                              *)
LEMMA CommitSucceedsTyped == ASSUME CrawlTypeOK, CommitSucceeds PROVE CrawlTypeOK'
<1>1. UNCHANGED <<repoVars, pkgVars, crawlVars, listing>>
  BY DEF CommitSucceeds, cacheVars
<1>2. HostOK'
  BY Parts, Numbers DEF HostOK, CommitSucceeds
<1>3. CountersOK'
  BY Parts DEF CountersOK, CommitSucceeds, Change
<1>4. FlagsOK'
  BY Parts DEF FlagsOK, CommitSucceeds, Change, cacheVars
<1> QED BY <1>1, <1>2, <1>3, <1>4, PartsKept, PartsNext

(* LimitBegins keeps the type.                                                 *)
LEMMA LimitBeginsTyped == ASSUME CrawlTypeOK, LimitBegins PROVE CrawlTypeOK'
<1>1. UNCHANGED <<repoVars, pkgVars, crawlVars, hostVars, listing>>
  BY DEF LimitBegins, cacheVars
<1>2. CountersOK'
  BY Parts, Numbers DEF CountersOK, LimitBegins, Fault, queueVars
<1>3. FlagsOK'
  BY Parts DEF FlagsOK, LimitBegins, Fault, queueVars, cacheVars
<1> QED BY <1>1, <1>2, <1>3, PartsKept, PartsNext

(* Rotate keeps the type.                                                      *)
LEMMA RotateTyped == ASSUME CrawlTypeOK, Rotate PROVE CrawlTypeOK'
<1>1. UNCHANGED <<repoVars, pkgVars, crawlVars, hostVars>>
  BY DEF Rotate
<1>2. ListingsOK'
  BY Numbers DEF ListingsOK, Rotate, NoListing, Versions
<1>3. CountersOK'
  BY Parts, Numbers DEF CountersOK, Rotate, Fault
<1>4. FlagsOK'
  BY Parts DEF FlagsOK, Rotate, Fault
<1> QED BY <1>1, <1>2, <1>3, <1>4, PartsKept, PartsNext

(* Restart keeps the type.                                                     *)
LEMMA RestartTyped == ASSUME CrawlTypeOK, Restart PROVE CrawlTypeOK'
<1>1. UNCHANGED <<hostVars>>
  BY DEF Restart
<1>2. RepoOK'
  BY Parts DEF RepoOK, Restart
<1>3. PackagesOK'
  BY Parts DEF PackagesOK, Restart
<1>4. CrawlOK'
  BY IdleTyped DEF CrawlOK, Restart
<1>5. ListingsOK'
  BY Numbers DEF ListingsOK, Restart, NoListing, Versions
<1>6. CountersOK'
  BY Parts, Numbers DEF CountersOK, Restart, Fault
<1>7. FlagsOK'
  BY Parts DEF FlagsOK, Restart, Fault
<1> QED BY <1>1, <1>2, <1>3, <1>4, <1>5, <1>6, <1>7, PartsKept, PartsNext

(* Tick keeps the type.                                                        *)
LEMMA TickTyped == ASSUME CrawlTypeOK, Tick PROVE CrawlTypeOK'
<1>1. UNCHANGED <<repoVars, pkgVars, crawlVars, <<queued, known, smooth>>>>
  BY DEF Tick, TimePasses, boundVars
<1>2. HostOK'
  BY Parts, Numbers DEF HostOK, Tick, TimePasses, Older, Lesser
<1>3. ListingsOK'
  BY Parts, Numbers DEF ListingsOK, Tick, TimePasses, NoListing, Versions
<1>4. CountersOK'
  BY Parts, Numbers DEF CountersOK, Tick, TimePasses, boundVars
<1> QED BY <1>1, <1>2, <1>3, <1>4, PartsKept, PartsNext

(* Stall keeps the type.                                                       *)
LEMMA StallTyped == ASSUME CrawlTypeOK, Stall PROVE CrawlTypeOK'
<1>1. UNCHANGED <<repoVars, pkgVars, crawlVars>>
  BY DEF Stall, TimePasses
<1>2. HostOK'
  BY Parts, Numbers DEF HostOK, Stall, TimePasses, Older, Lesser
<1>3. ListingsOK'
  BY Parts, Numbers DEF ListingsOK, Stall, TimePasses, NoListing, Versions
<1>4. CountersOK'
  BY Parts, Numbers DEF CountersOK, Stall, TimePasses, Fault
<1>5. FlagsOK'
  BY Parts DEF FlagsOK, Stall, TimePasses, Fault
<1> QED BY <1>1, <1>2, <1>3, <1>4, <1>5, PartsKept, PartsNext

(* Reclassify keeps the type.                                                  *)
LEMMA ReclassifyTyped == ASSUME CrawlTypeOK, Reclassify PROVE CrawlTypeOK'
<1>1. UNCHANGED <<repoVars, pkgVars, crawlVars, hostVars, listing>>
  BY DEF Reclassify
<1>2. CountersOK'
  BY Parts DEF CountersOK, Reclassify, Fault, queueVars
<1>3. FlagsOK'
  BY Parts DEF FlagsOK, Reclassify, Fault, queueVars
<1> QED BY <1>1, <1>2, <1>3, PartsKept, PartsNext

(* SyncPackage keeps the type.                                                 *)
LEMMA SyncPackageTyped == ASSUME NEW t \in Types, CrawlTypeOK, SyncPackage(t) PROVE CrawlTypeOK'
<1>1. UNCHANGED <<repoVars, crawlVars, hostVars, listing,
                  <<timer, limit, changes, faults, deletions>>>>
  BY DEF SyncPackage, cacheVars, boundVars
<1>2. PackagesOK'
  BY Parts DEF PackagesOK, SyncPackage
<1>3. FlagsOK'
  BY Parts DEF FlagsOK, SyncPackage, cacheVars, boundVars
<1> QED BY <1>1, <1>2, <1>3, PartsKept, PartsNext

(* Collect keeps the type.                                                     *)
LEMMA CollectTyped == ASSUME NEW t \in Types, CrawlTypeOK, Collect(t) PROVE CrawlTypeOK'
<1>1. UNCHANGED <<repoVars, crawlVars, hostVars, listing,
                  <<timer, limit, changes, faults, deletions>>, <<queued, known, smooth>>>>
  BY DEF Collect, queueVars, cacheVars, boundVars
<1>2. PackagesOK'
  BY Parts, PackagesTyped DEF PackagesOK, Collect, PutPackage
<1> QED BY <1>1, <1>2, PartsKept, PartsNext

(* Publish keeps the type.                                                     *)
LEMMA PublishTyped == ASSUME NEW t \in Types, CrawlTypeOK, Publish(t) PROVE CrawlTypeOK'
<1>1. UNCHANGED <<repoVars, pkgVars, crawlVars, listing, <<queued, known, smooth>>>>
  BY DEF Publish, Change, queueVars, cacheVars
<1>2. HostOK'
  BY Parts, Numbers DEF HostOK, Publish, Versions
<1>3. CountersOK'
  BY Parts DEF CountersOK, Publish, Change, queueVars
<1> QED BY <1>1, <1>2, <1>3, PartsKept, PartsNext

(* Unpublish keeps the type.                                                   *)
LEMMA UnpublishTyped == ASSUME NEW t \in Types, CrawlTypeOK, Unpublish(t) PROVE CrawlTypeOK'
<1>1. UNCHANGED <<repoVars, pkgVars, crawlVars, listing, <<queued, known, smooth>>>>
  BY DEF Unpublish, Change, queueVars, cacheVars
<1>2. HostOK'
  BY Parts, Numbers DEF HostOK, Unpublish, Versions
<1>3. CountersOK'
  BY Parts DEF CountersOK, Unpublish, Change, queueVars
<1> QED BY <1>1, <1>2, <1>3, PartsKept, PartsNext

(* Create keeps the type.                                                      *)
LEMMA CreateTyped == ASSUME NEW t \in Types, CrawlTypeOK, Create(t) PROVE CrawlTypeOK'
<1>1. UNCHANGED <<repoVars, hostVars, listing>>
  BY DEF Create, cacheVars
<1>2. PackagesOK'
  <2>1. crawl \in Crawlings /\ PackagesOK
    BY Parts DEF CrawlOK
  <2>2. [NoPackage EXCEPT !.owner = crawl.uid] \in Packages
    BY <2>1, CrawlFields, PackagesTyped
  <2> QED BY <2>1, <2>2 DEF PackagesOK, Create, PutPackage, pkgVars
<1>3. CrawlOK'
  <2>1. crawl \in Crawlings /\ PackagesOK
    BY Parts DEF CrawlOK
  <2>2. [NoPackage EXCEPT !.owner = crawl.uid] \in Packages /\ cpkgs[t] \in Packages
    BY <2>1, CrawlFields, PackagesTyped DEF PackagesOK
  <2>3. crawl.stale \cup {t} \in SUBSET Types /\ crawl.stale \ {t} \in SUBSET Types
    BY <2>1, CrawlFields
  <2>4. (IF t \in lag THEN crawl.stale \cup {t} ELSE crawl.stale \ {t}) \in SUBSET Types
    BY <2>3
  <2>5. \E q \in Packages, s \in SUBSET Types :
          crawl' \in {[crawl EXCEPT !.existing[t] = q, !.stale = s], Idle}
    BY <2>2, <2>3, <2>4 DEF Create, Hold, Fails, Ends
  <2>6. \A q \in Packages, s \in SUBSET Types : [crawl EXCEPT !.existing[t] = q, !.stale = s] \in Crawlings
    BY <2>1, Held
  <2>7. crawl' \in Crawlings
    BY <2>5, <2>6, IdleTyped
  <2> QED BY <2>7 DEF CrawlOK, Create, Goes, Fails, Ends
<1>4. CountersOK'
  BY Parts, Numbers DEF CountersOK, Create, Goes, Fails, Ends, Lesser, queueVars, boundVars
<1>5. FlagsOK'
  BY Parts DEF FlagsOK, Create, Goes, Fails, Ends, queueVars, cacheVars, boundVars
<1> QED BY <1>1, <1>2, <1>3, <1>4, <1>5, PartsKept, PartsNext

(* UpdateStatus keeps the type.                                                *)
LEMMA UpdateStatusTyped == ASSUME NEW t \in Types, CrawlTypeOK, UpdateStatus(t) PROVE CrawlTypeOK'
<1>1. UNCHANGED <<repoVars, hostVars, listing>>
  BY DEF UpdateStatus, cacheVars
<1>2. PackagesOK'
  <2>1. crawl \in Crawlings /\ PackagesOK
    BY Parts DEF CrawlOK
  <2>2. crawl.infos[t].meta \in Nat /\ crawl.infos[t].tags \in Nat
    BY <2>1, CrawlFields
  <2>3. pkgs[t] \in Packages
    BY <2>1 DEF PackagesOK
  <2>4. pkgs[t] # NoPackage =>
          [owner |-> pkgs[t].owner, meta |-> crawl.infos[t].meta, tags |-> crawl.infos[t].tags]
            \in Packages
    BY <2>2, <2>3, PackagesTyped
  <2> QED BY <2>1, <2>4 DEF PackagesOK, UpdateStatus, PutPackage, Outdated, pkgVars
<1>3. CrawlOK'
  BY Parts, IdleTyped DEF CrawlOK, UpdateStatus, Written, Goes, Fails, Ends, Crawlings
<1>4. CountersOK'
  BY Parts, Numbers DEF CountersOK, UpdateStatus, Goes, Fails, Ends, Lesser, queueVars,
      boundVars
<1>5. FlagsOK'
  BY Parts DEF FlagsOK, UpdateStatus, Goes, Fails, Ends, queueVars, cacheVars, boundVars
<1> QED BY <1>1, <1>2, <1>3, <1>4, <1>5, PartsKept, PartsNext

(* OthersCrawl keeps the type.                                                 *)
LEMMA OthersCrawlTyped == ASSUME NEW p \in Pages, CrawlTypeOK, OthersCrawl(p) PROVE CrawlTypeOK'
<1>1. UNCHANGED <<repoVars, pkgVars, crawlVars, hostVars,
                  <<timer, limit, changes, faults, deletions>>, <<queued, known, smooth>>>>
  BY DEF OthersCrawl, queueVars, boundVars
<1>2. ListingsOK'
  BY FetchedTyped DEF ListingsOK, OthersCrawl
<1> QED BY <1>1, <1>2, PartsKept, PartsNext

(* ReadListing keeps the type.                                                 *)
LEMMA ReadListingTyped == ASSUME NEW p \in Pages, CrawlTypeOK, ReadListing(p) PROVE CrawlTypeOK'
<1>1. UNCHANGED <<repoVars, pkgVars, hostVars>>
  BY DEF ReadListing
<1>2. CrawlOK'
  <2>1. crawl \in Crawlings /\ HostOK /\ ListingsOK
    BY Parts DEF CrawlOK
  <2>2. listing[p].val \in Nat /\ host[Of(p)] \in Nat
    BY <2>1 DEF HostOK, ListingsOK, Of, Types, Versions
  <2>3. ASSUME NEW v \in Nat, Note(p, v), Goes(After(p, v)) PROVE CrawlOK'
    <3>1. "image" \in Types /\ (p # "versions" => p \in Types)
      BY DEF Types, Pages
    <3>2. crawl' \in Crawlings
      BY <2>1, <2>3, <3>1, MetaNoted, TagsNoted DEF Note
    <3>3. After(p, v) \in {"versions", "library", "list"}
      BY <2>3 DEF After, Pages
    <3> QED BY <2>3, <3>2, <3>3 DEF CrawlOK, Goes
  <2>4. ASSUME step' = "idle", crawl' = Idle PROVE CrawlOK'
    BY <2>4, IdleTyped DEF CrawlOK
  <2> QED BY <2>2, <2>3, <2>4 DEF ReadListing, ListingFails, VersionsMissing, Refused, Fails, Ends
<1>3. ListingsOK'
  BY Parts, FetchedTyped DEF ListingsOK, ReadListing, ListingFails, VersionsMissing
<1>4. CountersOK'
  BY Parts, Numbers DEF CountersOK, ReadListing, ListingFails, VersionsMissing, Refused,
      Fails, Goes, Ends, Lesser, queueVars, boundVars
<1>5. FlagsOK'
  BY Parts DEF FlagsOK, ReadListing, ListingFails, VersionsMissing, Refused, Fails, Goes,
      Ends, queueVars, boundVars
<1> QED BY <1>1, <1>2, <1>3, <1>4, <1>5, PartsKept, PartsNext

(* Every step keeps the type.                                                  *)
LEMMA NextTyped == CrawlTypeOK /\ [CrawlNext]_crawlerVars => CrawlTypeOK'
<1> SUFFICES ASSUME CrawlTypeOK, [CrawlNext]_crawlerVars PROVE CrawlTypeOK'
  OBVIOUS
<1>1. CASE UNCHANGED crawlerVars
  BY <1>1 DEF CrawlTypeOK, crawlerVars, repoVars, pkgVars, queueVars, crawlVars, hostVars, cacheVars,
      boundVars
<1>2. CASE Crawls
  BY <1>2, StartTyped, ClassifyTyped, ListOwnedTyped, DeleteStaleTyped, FinishTyped,
     ReadListingTyped, CreateTyped, UpdateStatusTyped DEF Crawls
<1>3. CASE CrawlNext /\ ~Crawls
  BY <1>3, CrawlFailsTyped, FireTyped, SyncRepoTyped, SyncPackageTyped, CollectTyped, PublishTyped,
     UnpublishTyped, OthersCrawlTyped, DeleteRepoTyped, ReleaseRepoTyped, RecreateRepoTyped,
     CommitSucceedsTyped, LimitBeginsTyped, RotateTyped, RestartTyped, TickTyped, StallTyped,
     ReclassifyTyped DEF CrawlNext
<1> QED BY <1>1, <1>2, <1>3

(* CrawlTypeCorrect: Repository, Packages, caches, queue, listings and clocks  *)
(* keep their types, whatever the intervals and however many changes and faults*)
(* there are. In particular updateStatus never writes onto a Package that is   *)
(* gone (packages/controller.go, sync).                                        *)
THEOREM CrawlTypeCorrect == CrawlSpec => []CrawlTypeOK
<1>1. CrawlInit => CrawlTypeOK
  BY InitTyped
<1>2. CrawlTypeOK /\ [CrawlNext]_crawlerVars => CrawlTypeOK'
  BY NextTyped
<1> QED BY <1>1, <1>2, PTL DEF CrawlSpec

(* The highest version of an artifact so far.                                  *)
Top(t) == IF host[t] > gaps[t] THEN host[t] ELSE gaps[t]

(* If there is a Package of t, the host has dropped what it shows.                *)
Dropped(t) == pkgs[t] # NoPackage => gaps[t] > 0 /\ pkgs[t].meta <= gaps[t]

(* What is published is newer than what was removed.                            *)
HostInv(t) == host[t] > 0 => host[t] > gaps[t]
(* A Package shows something the host has published.                              *)
PackageInv(t) == pkgs[t] # NoPackage => Top(t) > 0 /\ pkgs[t].meta <= Top(t)
(* A listing that is served shows at most that; if it lacks t, so may the mirror.     *)
ListingInv(t) == listing[t].age < TTL =>
                   /\ listing[t].val <= Top(t)
                   /\ listing[t].val = 0 => Dropped(t)
(* So does what the crawl has read, and the listing it read it from is still the same.  *)
SeenInv(t) == Seen(t) =>
                /\ crawl.infos[t].meta <= Top(t)
                /\ listing[t].age < TTL => listing[t].val = crawl.infos[t].meta
                /\ crawl.infos[t].meta = 0 => Dropped(t)
(* Only Packages of listed artifacts are written, and only at the end.               *)
TodoInv == /\ step # "write" => crawl.todo = {}
           /\ \A t \in crawl.todo : crawl.infos[t].meta > 0
(* The inductive invariant behind NoFalseDelete.                                 *)
ArtifactInv(t) == HostInv(t) /\ PackageInv(t) /\ ListingInv(t) /\ SeenInv(t)
DropInv == TodoInv /\ \A t \in Types : ArtifactInv(t)

(* What the type says of each artifact and each listing.                       *)
LEMMA Typed ==
  ASSUME CrawlTypeOK
  PROVE  /\ \A t \in Types : /\ host[t] \in Nat /\ gaps[t] \in Nat /\ pkgs[t] \in Packages
                             /\ pkgs[t].meta \in Nat /\ pkgs[t].tags \in Nat /\ t \in Pages
                             /\ since[t] \in Nat
         /\ \A p \in Pages : listing[p].val \in Nat /\ listing[p].age \in Nat /\ listing[p].age <= TTL
         /\ crawl \in Crawlings
<1>1. PackagesOK /\ HostOK /\ ListingsOK /\ CrawlOK
  BY Parts
<1>2. \A t \in Types : host[t] \in Nat /\ gaps[t] \in Nat /\ t \in Pages /\ since[t] \in Nat
  BY <1>1, Numbers DEF HostOK, Versions, Types, Pages
<1>3. \A t \in Types : pkgs[t] \in Packages
  BY <1>1 DEF PackagesOK
<1>4. \A p \in Pages : listing[p].val \in Nat /\ listing[p].age \in Nat /\ listing[p].age <= TTL
  BY <1>1, Numbers DEF ListingsOK, Versions
<1> QED BY <1>1, <1>2, <1>3, <1>4, PackagesTyped DEF CrawlOK

(* A step that leaves Packages and host alone, adds no listing and takes the   *)
(* crawl no further keeps DropInv.                                             *)
LEMMA DropQuiet ==
  ASSUME DropInv, UNCHANGED <<pkgs, host, gaps>>,
         \A t \in Types : listing'[t].age < TTL => listing'[t].val = listing[t].val /\ listing[t].age < TTL,
         UNCHANGED <<step, crawl>> \/ (step' \in {"idle", "account", "image"} /\ crawl'.todo = {})
  PROVE  DropInv'
<1>1. TodoInv'
  BY DEF DropInv, TodoInv
<1>2. ASSUME NEW t \in Types PROVE ArtifactInv(t)'
  <2>1. HostInv(t)' /\ PackageInv(t)' /\ ListingInv(t)'
    BY DEF DropInv, ArtifactInv, HostInv, PackageInv, ListingInv, Top, Dropped
  <2>2. SeenInv(t)'
    BY DEF DropInv, ArtifactInv, SeenInv, Top, Dropped, Seen
  <2> QED BY <2>1, <2>2 DEF ArtifactInv
<1> QED BY <1>1, <1>2 DEF DropInv

(* Nothing is published as gone and nothing is listed at first.                *)
LEMMA InitDrop == CrawlInit => DropInv
<1> SUFFICES ASSUME CrawlInit PROVE DropInv
  OBVIOUS
<1>1. TodoInv
  BY DEF CrawlInit, TodoInv, Idle
<1>2. ASSUME NEW t \in Types PROVE ArtifactInv(t)
  <2>1. host[t] \in Nat /\ gaps[t] = 0 /\ pkgs[t] = NoPackage /\ step = "idle"
    BY DEF CrawlInit
  <2>2. listing[t].age = TTL
    BY DEF CrawlInit, NoListing, Types, Pages
  <2> QED BY <2>1, <2>2, Numbers DEF ArtifactInv, HostInv, PackageInv, ListingInv, SeenInv, Seen
<1> QED BY <1>1, <1>2 DEF DropInv

(* The steps that leave the Packages and the host alone.                         *)
Apart ==
  \/ Start \/ Classify \/ Finish \/ CrawlFails \/ Fire \/ SyncRepo
  \/ \E t \in Types : SyncPackage(t)
  \/ DeleteRepo \/ ReleaseRepo \/ RecreateRepo
  \/ CommitSucceeds \/ LimitBegins \/ Reclassify

(* A crawl that has not begun has nothing to write.                            *)
LEMMA IdleTodo == Idle.todo = {}
BY DEF Idle

(* The steps that touch none of this keep DropInv.                             *)
LEMMA ApartDrop == ASSUME CrawlTypeOK, DropInv, Apart PROVE DropInv'
<1>1. UNCHANGED <<pkgs, host, gaps, listing>>
  BY DEF Apart, Start, Classify, Finish, CrawlFails, Fire, SyncRepo, SyncPackage, DeleteRepo, ReleaseRepo,
         RecreateRepo, CommitSucceeds, LimitBegins, Reclassify, pkgVars, hostVars, cacheVars
<1>2. CASE Start
  <2>1. [Idle EXCEPT !.uid = rcached.uid, !.fresh = Recent].todo = {}
    BY DEF Idle
  <2> QED BY <1>1, <1>2, <2>1, DropQuiet DEF Start, crawlVars
<1>3. CASE Classify
  <2>1. step = "account" /\ crawl.todo = {}
    BY <1>3 DEF Classify, DropInv, TodoInv
  <2> QED BY <1>1, <1>3, <2>1, IdleTodo, DropQuiet DEF Classify, Goes, Refused, Ends
<1>4. CASE Finish \/ CrawlFails
  BY <1>1, <1>4, IdleTodo, DropQuiet DEF Finish, CrawlFails, Ends
<1>5. CASE Apart /\ ~Start /\ ~Classify /\ ~Finish /\ ~CrawlFails
  <2>1. UNCHANGED <<step, crawl>>
    BY <1>5 DEF Apart, Fire, SyncRepo, SyncPackage, DeleteRepo, ReleaseRepo,
         RecreateRepo, CommitSucceeds, LimitBegins, Reclassify, crawlVars
  <2> QED BY <1>1, <2>1, DropQuiet
<1> QED BY <1>2, <1>3, <1>4, <1>5

(* So do a new token and a restart, which forget the listings.                 *)
LEMMA ForgetDrop == ASSUME CrawlTypeOK, DropInv, Rotate \/ Restart PROVE DropInv'
<1>1. UNCHANGED <<pkgs, host, gaps>>
  BY DEF Rotate, Restart, pkgVars, hostVars
<1>2. \A t \in Types : listing'[t].age = TTL
  BY DEF Rotate, Restart, NoListing, Types, Pages
<1>3. UNCHANGED <<step, crawl>> \/ (step' = "idle" /\ crawl'.todo = {})
  BY IdleTodo DEF Rotate, Restart, crawlVars
<1> QED BY <1>1, <1>2, <1>3, Numbers, DropQuiet

(* So does the clock, which only ages and drops listings.                      *)
LEMMA TimeDrop == ASSUME CrawlTypeOK, DropInv, TimePasses PROVE DropInv'
<1>1. UNCHANGED <<pkgs, host, gaps, step, crawl>>
  BY DEF TimePasses, pkgVars, crawlVars
<1>2. ASSUME NEW t \in Types, listing'[t].age < TTL
      PROVE  listing'[t].val = listing[t].val /\ listing[t].age < TTL
  <2>1. t \in Pages /\ listing[t] \in [val : Versions, age : 0..TTL]
    BY Parts DEF ListingsOK, Types, Pages
  <2>2. listing'[t] = IF listing[t].age + 1 >= TTL THEN NoListing
                      ELSE [listing[t] EXCEPT !.age = @ + 1]
    BY <2>1 DEF TimePasses
  <2>3. NoListing.age = TTL
    BY DEF NoListing
  <2>4. listing[t].age + 1 < TTL
    BY <1>2, <2>1, <2>2, <2>3, Numbers
  <2> QED BY <2>1, <2>2, <2>4, Numbers
<1> QED BY <1>1, <1>2, DropQuiet

(* A step that deletes Packages or only goes on in the crawl.                     *)
LEMMA GoesOnDrop ==
  ASSUME DropInv, TodoInv', UNCHANGED <<host, gaps, listing>>,
         \A t \in Types : pkgs'[t] \in {pkgs[t], NoPackage},
         crawl'.infos = crawl.infos, \A t \in Types : Seen(t)' => Seen(t)
  PROVE  DropInv'
<1>1. ASSUME NEW t \in Types PROVE ArtifactInv(t)'
  <2>1. HostInv(t)' /\ PackageInv(t)' /\ ListingInv(t)'
    BY DEF DropInv, ArtifactInv, HostInv, PackageInv, ListingInv, Top, Dropped
  <2>2. SeenInv(t)'
    BY DEF DropInv, ArtifactInv, SeenInv, Top, Dropped
  <2> QED BY <2>1, <2>2 DEF ArtifactInv
<1> QED BY <1>1 DEF DropInv

(* So does a crawl that ends, whether it has failed or not.                    *)
LEMMA EndsDrop ==
  ASSUME DropInv, UNCHANGED <<pkgs, host, gaps, listing>>, step' = "idle", crawl' = Idle
  PROVE  DropInv'
BY IdleTodo, DropQuiet

(* A step that writes a Package of what the crawl has read.                        *)
LEMMA WritesDrop ==
  ASSUME CrawlTypeOK, DropInv, UNCHANGED <<host, gaps, listing>>, step = "write", step' = "write",
         NEW u \in crawl.todo, NEW q \in Packages, q.meta <= crawl.infos[u].meta,
         pkgs' = [pkgs EXCEPT ![u] = q],
         crawl'.infos = crawl.infos, crawl'.todo \subseteq crawl.todo
  PROVE  DropInv'
<1>1. TodoInv'
  BY DEF DropInv, TodoInv
<1>2. crawl \in Crawlings /\ u \in Types /\ pkgs \in [Types -> Packages]
  BY Typed, CrawlFields, Parts DEF PackagesOK
<1>3. ASSUME NEW t \in Types PROVE ArtifactInv(t)'
  <2>1. CASE t # u
    <3>1. pkgs'[t] = pkgs[t]
      BY <1>2, <2>1
    <3> QED BY <3>1 DEF DropInv, ArtifactInv, HostInv, PackageInv, ListingInv, SeenInv, Seen, Top, Dropped
  <2>2. CASE t = u
    <3>1. pkgs'[t] = q
      BY <1>2, <2>2
    <3>2. crawl.infos[t].meta > 0 /\ crawl.infos[t].meta \in Nat /\ q.meta \in Nat
      BY <1>2, <2>2, CrawlFields, PackagesTyped DEF DropInv, TodoInv
    <3>3. Seen(t) /\ SeenInv(t) /\ ArtifactInv(t)
      BY DEF Seen, DropInv, ArtifactInv
    <3>4. Top(t) \in Nat /\ host[t] \in Nat /\ gaps[t] \in Nat
      BY Typed DEF Top
    <3>5. Top(t) > 0 /\ q.meta <= Top(t)
      BY <2>2, <3>2, <3>3, <3>4 DEF SeenInv
    <3>6. Top(t)' = Top(t)
      BY DEF Top
    <3>7. listing[t].age < TTL => listing[t].val # 0
      BY <3>2, <3>3 DEF SeenInv
    <3> QED BY <3>1, <3>2, <3>3, <3>5, <3>6, <3>7
            DEF ArtifactInv, HostInv, PackageInv, ListingInv, SeenInv
  <2> QED BY <2>1, <2>2
<1> QED BY <1>1, <1>3 DEF DropInv

(* listOwned reads Packages and changes none.                                  *)
LEMMA ListOwnedDrop == ASSUME CrawlTypeOK, DropInv, ListOwned PROVE DropInv'
<1>1. crawl \in Crawlings /\ cpkgs \in [Types -> Packages] /\ lag \in SUBSET Types
  BY Parts DEF PackagesOK, CrawlOK
<1>2. crawl'.infos = crawl.infos /\ crawl'.todo = crawl.todo
  BY <1>1 DEF ListOwned, Crawlings
<1>3. step = "list" /\ step' = "delete" /\ UNCHANGED <<host, gaps, listing, pkgs>>
  BY DEF ListOwned, Goes, hostVars, cacheVars, pkgVars
<1>4. TodoInv'
  BY <1>2, <1>3 DEF DropInv, TodoInv
<1>5. \A t \in Types : Seen(t)' => Seen(t)
  BY <1>3 DEF Seen
<1> QED BY <1>2, <1>3, <1>4, <1>5, GoesOnDrop

(* Deleting stale Packages only takes Packages away.                           *)
LEMMA DeleteStaleDrop == ASSUME CrawlTypeOK, DropInv, DeleteStale PROVE DropInv'
<1>1. crawl \in Crawlings /\ pkgs \in [Types -> Packages]
  BY Parts DEF PackagesOK, CrawlOK
<1>2. step = "delete" /\ step' \in {"delete", "write"} /\ UNCHANGED <<host, gaps, listing>>
  BY DEF DeleteStale, Goes, hostVars, cacheVars
<1>3. \A t \in Types : Seen(t)' => Seen(t)
  BY <1>2 DEF Seen
<1>4. \A t \in Types : pkgs'[t] \in {pkgs[t], NoPackage}
  BY <1>1 DEF DeleteStale, PutPackage, pkgVars, Stale
<1>5. CASE crawl' = [crawl EXCEPT !.todo = {t \in Types : Listed(t)}] /\ step' = "write"
  <2>1. {t \in Types : Listed(t)} \in SUBSET Types
    OBVIOUS
  <2>2. crawl'.infos = crawl.infos /\ crawl'.todo = {t \in Types : Listed(t)}
    BY <1>1, <1>5, <2>1, Planned
  <2>3. TodoInv'
    BY <1>5, <2>2 DEF TodoInv, Listed
  <2> QED BY <1>2, <1>3, <1>4, <2>2, <2>3, GoesOnDrop
<1>6. ASSUME NEW t \in Types, crawl' = [crawl EXCEPT !.existing[t] = NoPackage], step' = "delete"
      PROVE  DropInv'
  <2>1. crawl'.infos = crawl.infos /\ crawl'.todo = crawl.todo
    BY <1>1, <1>6, PackagesTyped, Forgotten
  <2>2. TodoInv'
    BY <1>2, <1>6, <2>1 DEF DropInv, TodoInv
  <2> QED BY <1>2, <1>3, <1>4, <2>1, <2>2, GoesOnDrop
<1> QED BY <1>5, <1>6 DEF DeleteStale, Goes, Stale

(* So does the garbage collector.                                              *)
LEMMA CollectDrop == ASSUME CrawlTypeOK, DropInv, NEW u \in Types, Collect(u) PROVE DropInv'
<1>1. pkgs \in [Types -> Packages]
  BY Parts DEF PackagesOK
<1>2. UNCHANGED <<host, gaps, listing, step, crawl>>
  BY DEF Collect, hostVars, cacheVars, crawlVars
<1>3. \A t \in Types : pkgs'[t] \in {pkgs[t], NoPackage}
  BY <1>1 DEF Collect, PutPackage
<1>4. TodoInv' /\ \A t \in Types : Seen(t)' => Seen(t)
  BY <1>2 DEF DropInv, TodoInv, Seen
<1> QED BY <1>2, <1>3, <1>4, GoesOnDrop

(* A Package is created only for an artifact that was listed.                  *)
LEMMA CreateDrop == ASSUME CrawlTypeOK, DropInv, NEW u \in Types, Create(u) PROVE DropInv'
<1>1. crawl \in Crawlings /\ pkgs \in [Types -> Packages] /\ cpkgs \in [Types -> Packages] /\ lag \subseteq Types
  BY Parts DEF PackagesOK, CrawlOK
<1>2. step = "write" /\ u \in crawl.todo /\ UNCHANGED <<host, gaps, listing>>
  BY DEF Create, hostVars, cacheVars
<1>3. crawl.uid \in Uids /\ crawl.stale \subseteq Types /\ crawl.infos[u].meta \in Nat
  BY <1>1, CrawlFields
<1>4. CASE pkgs[u] = NoPackage
  <2> DEFINE q == [NoPackage EXCEPT !.owner = crawl.uid]
  <2>1. q \in Packages /\ q.meta = 0
    BY <1>3, PackagesTyped DEF NoPackage
  <2>2. pkgs' = [pkgs EXCEPT ![u] = q] /\ crawl' = [crawl EXCEPT !.existing[u] = q, !.stale = crawl.stale \ {u}]
          /\ step' = "write"
    BY <1>4 DEF Create, PutPackage, Hold, Goes
  <2>3. crawl.stale \ {u} \in SUBSET Types
    BY <1>3
  <2>4. crawl'.infos = crawl.infos /\ crawl'.todo = crawl.todo
    BY <1>1, <2>1, <2>2, <2>3 DEF Crawlings
  <2>5. q.meta <= crawl.infos[u].meta
    BY <1>3, <2>1
  <2> HIDE DEF q
  <2> QED BY <1>2, <2>1, <2>2, <2>4, <2>5, WritesDrop
<1>5. CASE pkgs[u] # NoPackage /\ cpkgs[u] = NoPackage
  BY <1>2, <1>5, EndsDrop DEF Create, Fails, Ends, pkgVars
<1>6. CASE pkgs[u] # NoPackage /\ cpkgs[u] # NoPackage
  <2> DEFINE s == IF u \in lag THEN crawl.stale \cup {u} ELSE crawl.stale \ {u}
  <2>1. s \in SUBSET Types /\ cpkgs[u] \in Packages
    BY <1>1, <1>3
  <2>2. crawl' = [crawl EXCEPT !.existing[u] = cpkgs[u], !.stale = s] /\ step' = "write" /\ pkgs' = pkgs
    BY <1>6 DEF Create, Hold, Goes, pkgVars
  <2> HIDE DEF s
  <2>3. crawl'.infos = crawl.infos /\ crawl'.todo = crawl.todo
    BY <1>1, <2>1, <2>2 DEF Crawlings
  <2>4. TodoInv' /\ \A t \in Types : Seen(t)' => Seen(t)
    BY <1>2, <2>2, <2>3 DEF DropInv, TodoInv, Seen
  <2> QED BY <1>2, <2>2, <2>3, <2>4, GoesOnDrop
<1> QED BY <1>4, <1>5, <1>6

(* A Package is written with what was listed, which is at most the highest     *)
(* version.                                                                    *)
LEMMA UpdateStatusDrop == ASSUME CrawlTypeOK, DropInv, NEW u \in Types, UpdateStatus(u) PROVE DropInv'
<1>1. crawl \in Crawlings /\ pkgs \in [Types -> Packages]
  BY Parts DEF PackagesOK, CrawlOK
<1>2. step = "write" /\ u \in crawl.todo /\ UNCHANGED <<host, gaps, listing>>
  BY DEF UpdateStatus, hostVars, cacheVars
<1>3. crawl.todo \ {u} \in SUBSET Types /\ crawl.infos[u].meta \in Nat /\ crawl.infos[u].tags \in Nat
  BY <1>1, CrawlFields
<1>4. ASSUME Written(u)
      PROVE  crawl'.infos = crawl.infos /\ crawl'.todo = crawl.todo \ {u}
  <2>1. crawl' = [crawl EXCEPT !.todo = crawl.todo \ {u}]
    BY <1>4 DEF Written
  <2> QED BY <1>1, <1>3, <2>1, Planned
<1>5. CASE StatusEqual(u) /\ Written(u) /\ Goes("write") /\ UNCHANGED pkgVars
  <2>1. step' = "write" /\ pkgs' = pkgs
    BY <1>5 DEF Goes, pkgVars
  <2>2. TodoInv' /\ \A t \in Types : Seen(t)' => Seen(t)
    BY <1>2, <1>4, <1>5, <2>1 DEF DropInv, TodoInv, Seen
  <2> QED BY <1>2, <1>4, <1>5, <2>1, <2>2, GoesOnDrop
<1>6. CASE Fails /\ UNCHANGED pkgVars
  BY <1>2, <1>6, EndsDrop DEF Fails, Ends, pkgVars
<1>7. CASE /\ ~Outdated(u) /\ Written(u) /\ Goes("write")
           /\ PutPackage(u, [owner |-> pkgs[u].owner, meta |-> crawl.infos[u].meta,
                             tags |-> crawl.infos[u].tags])
  <2> DEFINE q == [owner |-> pkgs[u].owner, meta |-> crawl.infos[u].meta, tags |-> crawl.infos[u].tags]
  <2>1. pkgs[u] \in Packages /\ pkgs[u] # NoPackage
    BY <1>1, <1>7 DEF Outdated
  <2>2. q \in Packages /\ q.meta <= crawl.infos[u].meta
    BY <1>3, <2>1, PackagesTyped
  <2>3. pkgs' = [pkgs EXCEPT ![u] = q] /\ step' = "write"
    BY <1>7 DEF PutPackage, Goes
  <2> HIDE DEF q
  <2>4. crawl'.infos = crawl.infos /\ crawl'.todo \subseteq crawl.todo
    BY <1>4, <1>7
  <2> QED BY <1>2, <2>2, <2>3, <2>4, WritesDrop
<1> QED BY <1>5, <1>6, <1>7 DEF UpdateStatus

(* A listing that is read now says at most what the host had at some time, and    *)
(* an empty one is proof that what a Package shows was dropped.                     *)
LEMMA FetchedListing ==
  ASSUME CrawlTypeOK, DropInv, NEW p \in Pages, UNCHANGED <<host, gaps, pkgs>>,
         listing' = listing \/ listing' = Fetched(p)
  PROVE  /\ \A t \in Types : HostInv(t)' /\ PackageInv(t)' /\ ListingInv(t)'
         /\ \A q \in Pages \ {p} : listing'[q] = listing[q]
         /\ listing' = Fetched(p) => listing'[p].val = host[Of(p)] /\ listing'[p].age = 0
<1>1. listing \in [Pages -> [val : Versions, age : 0..TTL]]
  BY Parts DEF ListingsOK
<1>2. \A q \in Pages \ {p} : listing'[q] = listing[q]
  BY <1>1 DEF Fetched
<1>3. listing' = Fetched(p) => listing'[p].val = host[Of(p)] /\ listing'[p].age = 0
  BY <1>1 DEF Fetched
<1>4. ASSUME NEW t \in Types PROVE HostInv(t)' /\ PackageInv(t)' /\ ListingInv(t)'
  <2>1. HostInv(t)' /\ PackageInv(t)'
    BY DEF DropInv, ArtifactInv, HostInv, PackageInv, Top
  <2>2. ASSUME listing'[t] = listing[t] PROVE ListingInv(t)'
    BY <2>2 DEF DropInv, ArtifactInv, ListingInv, Top, Dropped
  <2>3. ASSUME t = p, listing' = Fetched(p) PROVE ListingInv(t)'
    <3>1. Of(p) = t /\ listing'[t].val = host[t]
      BY <2>3, <1>3 DEF Of, Types
    <3>2. host[t] \in Nat /\ gaps[t] \in Nat /\ pkgs[t].meta \in Nat
      BY Typed
    <3>3. HostInv(t) /\ PackageInv(t)
      BY DEF DropInv, ArtifactInv
    <3> QED BY <3>1, <3>2, <3>3 DEF HostInv, PackageInv, ListingInv, Top, Dropped
  <2>4. t \in Pages
    BY DEF Types, Pages
  <2> QED BY <1>2, <2>1, <2>2, <2>3, <2>4
<1> QED BY <1>2, <1>3, <1>4

(* A listing that another repository fetches is the host's.                    *)
LEMMA OthersCrawlDrop == ASSUME CrawlTypeOK, DropInv, NEW p \in Pages, OthersCrawl(p) PROVE DropInv'
<1>1. UNCHANGED <<host, gaps, pkgs, step, crawl>> /\ step = "idle" /\ listing' = Fetched(p)
  BY DEF OthersCrawl, Quiet, hostVars, pkgVars, crawlVars
<1>2. \A t \in Types : HostInv(t)' /\ PackageInv(t)' /\ ListingInv(t)'
  BY <1>1, FetchedListing
<1>3. TodoInv' /\ \A t \in Types : SeenInv(t)'
  BY <1>1 DEF DropInv, TodoInv, SeenInv, Seen
<1> QED BY <1>2, <1>3 DEF DropInv, ArtifactInv

(* What the crawl knows after it has read a listing, and what of versions.             *)
LEMMA NoteMeta ==
  ASSUME CrawlTypeOK, NEW p \in Pages \ {"versions"}, NEW v \in Nat, Note(p, v)
  PROVE  /\ p \in Types
         /\ crawl'.infos[p].meta = v /\ crawl'.infos[p].tags = crawl.infos[p].tags
         /\ crawl'.todo = crawl.todo /\ crawl'.fresh = crawl.fresh
         /\ \A t \in Types \ {p} : crawl'.infos[t] = crawl.infos[t]
<1>1. p \in Types /\ crawl' = [crawl EXCEPT !.infos[p].meta = v]
  BY DEF Note, Pages, Types
<1>2. crawl \in Crawlings
  BY Typed
<1> QED BY <1>1, <1>2, MetaNoted

(* The same, of the versions of the image.                                     *)
LEMMA NoteTags ==
  ASSUME CrawlTypeOK, NEW v \in Nat, Note("versions", v)
  PROVE  /\ crawl'.infos["image"].tags = v
         /\ crawl'.infos["image"].meta = crawl.infos["image"].meta
         /\ crawl'.todo = crawl.todo /\ crawl'.fresh = crawl.fresh
         /\ \A t \in Types \ {"image"} : crawl'.infos[t] = crawl.infos[t]
<1>1. "image" \in Types /\ crawl' = [crawl EXCEPT !.infos["image"].tags = v]
  BY DEF Note, Types
<1>2. crawl \in Crawlings
  BY Typed
<1> QED BY <1>1, <1>2, TagsNoted

(* What is read of a listing: the value and the listing agree, and the value is 0   *)
(* only if the artifact was dropped.                                             *)
LEMMA ReadsDrop ==
  ASSUME CrawlTypeOK, DropInv, NEW p \in Pages, step = p, UNCHANGED <<host, gaps, pkgs>>,
         NEW v \in Nat, Note(p, v), step' = After(p, v),
         \/ listing' = listing /\ listing[p].age < TTL /\ v = listing[p].val
         \/ listing' = Fetched(p) /\ v = host[Of(p)]
  PROVE  DropInv'
<1>1. /\ \A t \in Types : HostInv(t)' /\ PackageInv(t)' /\ ListingInv(t)'
      /\ \A q \in Pages \ {p} : listing'[q] = listing[q]
  BY FetchedListing
<1>2. listing'[p].val = v /\ listing'[p].age < TTL
  BY FetchedListing, Numbers
<1>3. crawl \in Crawlings /\ crawl.todo = {} /\ "image" \in Types
  BY Typed DEF DropInv, TodoInv, Pages, Types
<1>4. CASE p = "versions"
  <2>1. step' = "library"
    BY <1>4 DEF After
  <2>2. crawl'.todo = {} /\ crawl'.infos["image"].meta = crawl.infos["image"].meta
    BY <1>3, <1>4, NoteTags
  <2>3. TodoInv'
    BY <2>1, <2>2 DEF TodoInv
  <2>4. SeenInv("image")
    BY <1>3 DEF DropInv, ArtifactInv
  <2>5. Seen("image") /\ ~Seen("library")'
    BY <1>4, <2>1 DEF Seen
  <2>6. listing'["image"] = listing["image"]
    BY <1>1, <1>4 DEF Pages
  <2>7. SeenInv("image")'
    BY <2>2, <2>4, <2>5, <2>6 DEF SeenInv, Top, Dropped
  <2>8. \A t \in Types : SeenInv(t)'
    BY <2>5, <2>7 DEF SeenInv, Types
  <2> QED BY <1>1, <2>3, <2>8 DEF DropInv, ArtifactInv
<1>5. CASE p # "versions"
  <2>1. step' \in {"versions", "library", "list"}
    BY <1>5 DEF After, Pages
  <2>2. /\ p \in Types /\ crawl'.todo = {} /\ crawl'.infos[p].meta = v
        /\ \A t \in Types \ {p} : crawl'.infos[t] = crawl.infos[t]
    BY <1>3, <1>5, NoteMeta
  <2>3. TodoInv'
    BY <2>1, <2>2 DEF TodoInv
  <2>4. SeenInv(p)'
    BY <1>1, <1>2, <2>1, <2>2 DEF SeenInv, ListingInv
  <2>5. ASSUME NEW t \in Types, t # p PROVE SeenInv(t)'
    <3>1. Seen(t)' => Seen(t)
      BY <1>5, <2>5, <2>1 DEF Seen, Types, Pages, After
    <3>2. listing'[t] = listing[t] /\ crawl'.infos[t] = crawl.infos[t]
      BY <1>1, <2>2, <2>5 DEF Types, Pages
    <3>3. SeenInv(t)
      BY DEF DropInv, ArtifactInv
    <3> QED BY <3>1, <3>2, <3>3 DEF SeenInv, Top, Dropped
  <2> QED BY <1>1, <2>3, <2>4, <2>5 DEF DropInv, ArtifactInv
<1> QED BY <1>4, <1>5

(* Reading a listing, served or fetched, or failing to, keeps DropInv.         *)
LEMMA ReadListingDrop == ASSUME CrawlTypeOK, DropInv, NEW p \in Pages, ReadListing(p) PROVE DropInv'
<1>1. step = p /\ UNCHANGED <<host, gaps, pkgs>>
  BY DEF ReadListing, hostVars, pkgVars
<1>2. listing[p].val \in Nat /\ host[Of(p)] \in Nat
  BY Typed DEF Of, Types
<1>3. CASE Served(p) /\ Note(p, listing[p].val) /\ Goes(After(p, listing[p].val)) /\ UNCHANGED listing
  BY <1>1, <1>2, <1>3, ReadsDrop DEF Served, Goes
<1>4. CASE listing' = Fetched(p) /\ Note(p, host[Of(p)]) /\ Goes(After(p, host[Of(p)]))
  BY <1>1, <1>2, <1>4, ReadsDrop DEF Goes
<1>5. CASE ListingFails(p) \/ VersionsMissing(p)
  BY <1>1, <1>5, EndsDrop DEF ListingFails, VersionsMissing, Refused, Fails, Ends
<1> QED BY <1>3, <1>4, <1>5 DEF ReadListing

(* Publishing and removing raise what the host has had and has dropped.        *)
LEMMA PublishDrop == ASSUME CrawlTypeOK, DropInv, NEW u \in Types, Publish(u) \/ Unpublish(u) PROVE DropInv'
<1>1. UNCHANGED <<pkgs, listing, step, crawl>>
  BY DEF Publish, Unpublish, pkgVars, cacheVars, crawlVars
<1>2. host \in [Types -> Nat] /\ gaps \in [Types -> Nat]
  BY Parts DEF HostOK, Versions
<1>3. \A t \in Types \ {u} : host'[t] = host[t] /\ gaps'[t] = gaps[t]
  BY <1>2 DEF Publish, Unpublish
<1>4. \/ host'[u] = Top(u) + 1 /\ gaps'[u] = gaps[u]
      \/ host[u] > 0 /\ host'[u] = 0 /\ gaps'[u] = host[u]
  BY <1>2 DEF Publish, Unpublish, Top
<1>5. TodoInv'
  BY <1>1 DEF DropInv, TodoInv
<1>6. ASSUME NEW t \in Types \ {u} PROVE ArtifactInv(t)'
  BY <1>1, <1>3 DEF DropInv, ArtifactInv, HostInv, PackageInv, ListingInv, SeenInv, Seen, Top, Dropped
<1>7. ArtifactInv(u)'
  <2>1. ArtifactInv(u)
    BY DEF DropInv
  <2>2. host[u] \in Nat /\ gaps[u] \in Nat /\ pkgs[u].meta \in Nat /\ listing[u].val \in Nat
          /\ crawl.infos[u].meta \in Nat
    BY Typed, CrawlFields
  <2>3. HostInv(u)' /\ Top(u)' >= Top(u) /\ gaps'[u] >= gaps[u]
    BY <1>4, <2>1, <2>2 DEF ArtifactInv, HostInv, Top
  <2>4. Top(u) \in Nat /\ Top(u)' \in Nat /\ gaps'[u] \in Nat
    BY <1>4, <2>2 DEF Top
  <2>5. PackageInv(u)'
    BY <1>1, <2>1, <2>2, <2>3, <2>4 DEF ArtifactInv, PackageInv
  <2>6. Dropped(u) => Dropped(u)'
    BY <1>1, <2>2, <2>3, <2>4 DEF Dropped
  <2>7. ListingInv(u)'
    BY <1>1, <2>1, <2>2, <2>3, <2>4, <2>6 DEF ArtifactInv, ListingInv
  <2>8. SeenInv(u)'
    BY <1>1, <2>1, <2>2, <2>3, <2>4, <2>6 DEF ArtifactInv, SeenInv, Seen
  <2> QED BY <2>3, <2>5, <2>7, <2>8 DEF ArtifactInv
<1> QED BY <1>5, <1>6, <1>7 DEF DropInv

(* Every step keeps DropInv.                                                   *)
LEMMA NextDrop == ASSUME CrawlTypeOK, DropInv, [CrawlNext]_crawlerVars PROVE DropInv'
<1>1. CASE UNCHANGED crawlerVars
  <2>1. UNCHANGED <<pkgs, host, gaps, listing, step, crawl>>
    BY <1>1 DEF crawlerVars, pkgVars, hostVars, cacheVars, crawlVars
  <2> QED BY <2>1, DropQuiet
<1>2. CASE Crawls
  BY <1>2, ApartDrop, ListOwnedDrop, DeleteStaleDrop, ReadListingDrop, CreateDrop, UpdateStatusDrop
  DEF Crawls, Apart
<1>3. CASE Rotate \/ Restart \/ Tick \/ Stall
  BY <1>3, ForgetDrop, TimeDrop DEF Tick, Stall
<1>4. CASE \E p \in Pages : OthersCrawl(p)
  BY <1>4, OthersCrawlDrop
<1>5. CASE \E t \in Types : Collect(t) \/ Publish(t) \/ Unpublish(t)
  BY <1>5, CollectDrop, PublishDrop
<1>6. CASE Apart
  BY <1>6, ApartDrop
<1> QED BY <1>1, <1>2, <1>3, <1>4, <1>5, <1>6 DEF CrawlNext, Apart

(* DropInv holds in every behaviour.                                           *)
LEMMA DropInvariant == CrawlSpec => [](CrawlTypeOK /\ DropInv)
<1>1. CrawlInit => CrawlTypeOK /\ DropInv
  BY InitTyped, InitDrop
<1>2. CrawlTypeOK /\ DropInv /\ [CrawlNext]_crawlerVars => (CrawlTypeOK /\ DropInv)'
  BY NextTyped, NextDrop
<1> QED BY <1>1, <1>2, PTL DEF CrawlSpec

(* What NoFalseDelete says of a step.                                           *)
NoDrop == \A t \in Types : pkgs[t] # NoPackage /\ pkgs'[t] = NoPackage /\ ~Orphan(t)
                        => gaps[t] > 0 /\ gaps[t] >= pkgs[t].meta

(* A step takes away only a Package whose version the host has dropped.        *)
LEMMA StepNoDrop == ASSUME CrawlTypeOK, DropInv, [CrawlNext]_crawlerVars PROVE NoDrop
<1> SUFFICES ASSUME NEW t \in Types, pkgs[t] # NoPackage, pkgs'[t] = NoPackage, ~Orphan(t)
             PROVE  gaps[t] > 0 /\ gaps[t] >= pkgs[t].meta
  BY DEF NoDrop
<1>1. pkgs \in [Types -> Packages] /\ gaps[t] \in Nat /\ pkgs[t].meta \in Nat
  BY Typed, Parts DEF PackagesOK
<1>2. pkgs' # pkgs
  OBVIOUS
<1>3. \A u \in Types : ~Create(u)
  <2>1. crawl \in Crawlings
    BY Typed
  <2>2. [NoPackage EXCEPT !.owner = crawl.uid] # NoPackage
    BY <2>1, CrawlFields, PackagesTyped
  <2> QED BY <1>1, <1>2, <2>2 DEF Create, PutPackage, pkgVars
<1>4. \A u \in Types : ~UpdateStatus(u)
  <2>1. \A u \in Types : pkgs[u] # NoPackage => pkgs[u].owner # 0
    BY <1>1, PackagesTyped DEF Uids
  <2>2. NoPackage.owner = 0
    BY DEF NoPackage
  <2> QED BY <1>1, <1>2, <2>1, <2>2 DEF UpdateStatus, PutPackage, Outdated, pkgVars
<1>5. \A u \in Types : ~Collect(u)
  BY <1>1 DEF Collect, PutPackage
<1>6. DeleteStale
  <2>1. pkgs' # pkgs => ~UNCHANGED crawlerVars
    BY DEF crawlerVars, pkgVars
  <2>2. CrawlNext
    BY <1>2, <2>1
  <2>3. ~(\/ Start \/ Classify \/ ListOwned \/ Finish \/ \E p \in Pages : ReadListing(p) \/ OthersCrawl(p))
    BY <1>2 DEF Start, Classify, ListOwned, Finish, ReadListing, OthersCrawl, pkgVars
  <2>4. ~(\/ CrawlFails \/ Fire \/ SyncRepo \/ \E u \in Types : SyncPackage(u) \/ Publish(u) \/ Unpublish(u))
    BY <1>2 DEF CrawlFails, Fire, SyncRepo, SyncPackage, Publish, Unpublish, pkgVars
  <2>5. ~(DeleteRepo \/ ReleaseRepo \/ RecreateRepo \/ CommitSucceeds \/ LimitBegins \/ Rotate \/ Restart
          \/ Tick \/ Stall \/ Reclassify)
    BY <1>2 DEF DeleteRepo, ReleaseRepo, RecreateRepo, CommitSucceeds, LimitBegins, Rotate, Restart,
                Tick, Stall, TimePasses, Reclassify, pkgVars
  <2> QED BY <1>3, <1>4, <1>5, <2>2, <2>3, <2>4, <2>5 DEF CrawlNext, Crawls
<1>7. t \in Stale /\ step = "delete"
  BY <1>1, <1>2, <1>6 DEF DeleteStale, PutPackage, pkgVars, Stale
<1>8. Seen(t) /\ SeenInv(t) /\ crawl.infos[t].meta \in Nat
  BY <1>7, Typed, CrawlFields DEF Seen, DropInv, ArtifactInv
<1>9. crawl.infos[t].meta = 0
  BY <1>7, <1>8 DEF Stale, Listed
<1> QED BY <1>1, <1>8, <1>9 DEF SeenInv, Dropped

(* CrawlDropsNothing: whatever fails, stalls, is limited or is read from an old*)
(* listing or cache, a crawl deletes no Package unless the host has dropped the*)
(* artifact since it published what the Package shows (packages/controller.go, *)
(* sync; ListPackages, cachedPackageListing). The argument is DropInv: where a *)
(* listing still served, or what a crawl has read, lacks the artifact, the host*)
(* has dropped what the Package shows.                                         *)
THEOREM CrawlDropsNothing == CrawlSpec => NoFalseDelete
<1>1. CrawlTypeOK /\ DropInv /\ [CrawlNext]_crawlerVars
        => [NoDrop]_crawlerVars
  BY StepNoDrop
<1>2. CrawlSpec => [][NoDrop]_crawlerVars
  BY <1>1, DropInvariant, PTL DEF CrawlSpec
<1> QED BY <1>2 DEF NoFalseDelete, NoDrop

(* As long as nothing has failed, the host answers and the Repository is there.     *)
SteadyInv == smooth => limit = 0 /\ repo.phase = "live" /\ rcached.phase = "live"

(* A cached Package that is not behind is the Package.                             *)
LagInv == \A t \in Types : t \notin lag => cpkgs[t] = pkgs[t]

(* A listing that is still served is right, or older than the last change.            *)
AgeInv == \A p \in Pages : listing[p].age < TTL =>
             listing[p].val = host[Of(p)] \/ since[Of(p)] <= listing[p].age

(* A crawl that nothing has asked to repeat knows of the last commit.                *)
RecentInv == step # "idle" /\ ~queued /\ Recent => crawl.fresh

(* How long ago the change may be that a crawl has not read.                        *)
Slack(t) == IF t = "image" /\ crawl.fresh THEN 0 ELSE TTL - 1
(* What a crawl has read is right, or the change is younger than that.               *)
MetaRead(t) == crawl.infos[t].meta = host[t] \/ since[t] <= Slack(t)
TagsRead == crawl.infos["image"].tags = host["image"] \/ since["image"] <= Slack("image")
ReadInv ==
  /\ \A t \in Types : Seen(t) => MetaRead(t)
  /\ IF Tagged THEN TagsRead ELSE crawl.infos["image"].tags = 0

(* A crawl that nothing has asked to repeat has written nothing: what it read of the  *)
(* Packages is still so, and what it has dealt with agrees with the listings.         *)
Matches(t) ==
  IF crawl.infos[t].meta > 0
  THEN t \notin crawl.todo => /\ pkgs[t] # NoPackage
                              /\ pkgs[t].meta = crawl.infos[t].meta
                              /\ pkgs[t].tags = crawl.infos[t].tags
  ELSE pkgs[t] = NoPackage
WriteInv ==
  ~queued /\ lag = {} =>
    /\ step \in {"delete", "write"} => crawl.existing = pkgs
    /\ step = "write" => \A t \in Types : Matches(t)

(* Between two crawls, the next one is due before a change can be overdue.            *)
WaitInv ==
  step = "idle" /\ ~queued =>
    /\ timer <= Interval
    /\ Recent => timer <= Fast
    /\ lag = {} =>
         /\ \A t \in Types : Shows(t) \/ since[t] + timer <= Interval + TTL - 1
         /\ Recent => Shows("image") \/ since["image"] + timer <= Fast

(* The inductive invariant behind Fresh.                                         *)
FreshInv ==
  /\ SteadyInv /\ LagInv /\ AgeInv /\ RecentInv
  /\ smooth => ReadInv /\ WriteInv /\ WaitInv

(* FreshInv holds at first: a crawl is queued.                                 *)
LEMMA InitFresh == CrawlInit => FreshInv
<1> SUFFICES ASSUME CrawlInit PROVE FreshInv
  OBVIOUS
<1>1. SteadyInv /\ LagInv
  BY DEF CrawlInit, SteadyInv, LagInv
<1>2. AgeInv
  BY Numbers DEF CrawlInit, AgeInv, NoListing
<1>3. RecentInv /\ WriteInv /\ WaitInv
  BY DEF CrawlInit, RecentInv, WriteInv, WaitInv
<1>4. ReadInv
  BY DEF CrawlInit, ReadInv, Seen, Tagged, Idle, Nothing, Types
<1> QED BY <1>1, <1>2, <1>3, <1>4 DEF FreshInv

(* The faults, which a smooth run does without.                                  *)
Faults == CrawlFails \/ DeleteRepo \/ LimitBegins \/ Rotate \/ Restart \/ Stall \/ Reclassify

(* A fault is noted.                                                           *)
LEMMA FaultsShow == Faults => ~smooth'
BY DEF Faults, CrawlFails, DeleteRepo, LimitBegins, Rotate, Restart, Stall, Reclassify, Fault

(* Once something has failed, it has.                                          *)
LEMMA SmoothBefore == ASSUME CrawlTypeOK, [CrawlNext]_crawlerVars, smooth' PROVE smooth
<1>1. ~Faults
  BY FaultsShow
<1>2. CASE UNCHANGED crawlerVars
  BY <1>2 DEF crawlerVars, boundVars
<1>3. CASE Crawls
  BY <1>3 DEF Crawls, Start, Classify, ListOwned, DeleteStale, Finish, ReadListing, ListingFails,
              VersionsMissing, Create, UpdateStatus, Fails, boundVars
<1>4. CASE CrawlNext /\ ~Crawls
  BY <1>1, <1>4 DEF CrawlNext, Faults, Fire, SyncRepo, SyncPackage, Collect, Publish, Unpublish, OthersCrawl,
              ReleaseRepo, RecreateRepo, CommitSucceeds, Change, Tick, boundVars
<1> QED BY <1>2, <1>3, <1>4

(* Every step keeps SteadyInv.                                                 *)
LEMMA NextSteady ==
  ASSUME CrawlTypeOK, SteadyInv, [CrawlNext]_crawlerVars PROVE SteadyInv'
<1> SUFFICES ASSUME smooth' PROVE limit' = 0 /\ repo'.phase = "live" /\ rcached'.phase = "live"
  BY DEF SteadyInv
<1>1. ~Faults
  BY FaultsShow
<1>2. limit = 0 /\ repo.phase = "live" /\ rcached.phase = "live"
  BY SmoothBefore DEF SteadyInv
<1>3. CASE UNCHANGED crawlerVars
  BY <1>2, <1>3 DEF crawlerVars, repoVars
<1>4. CASE Crawls
  BY <1>2, <1>4 DEF Crawls, Start, Classify, ListOwned, DeleteStale, Finish, ReadListing, Create,
              UpdateStatus, repoVars
<1>5. CASE CrawlNext /\ ~Crawls
  <2>1. ~ReleaseRepo /\ ~RecreateRepo
    BY <1>2 DEF ReleaseRepo, RecreateRepo
  <2> QED BY <1>1, <1>2, <1>5, <2>1 DEF CrawlNext, Faults, Fire, SyncRepo, SyncPackage, Collect, Publish,
              Unpublish, OthersCrawl, CommitSucceeds, Tick, TimePasses, repoVars
<1> QED BY <1>3, <1>4, <1>5

(* Every step keeps LagInv: each write marks the cached Package as behind.     *)
LEMMA NextLag == ASSUME CrawlTypeOK, LagInv, [CrawlNext]_crawlerVars PROVE LagInv'
<1>1. pkgs \in [Types -> Packages] /\ cpkgs \in [Types -> Packages] /\ lag \subseteq Types
  BY Parts DEF PackagesOK
<1>2. ASSUME UNCHANGED pkgVars PROVE LagInv'
  BY <1>2 DEF LagInv, pkgVars
<1>3. ASSUME NEW u \in Types, NEW q, PutPackage(u, q) PROVE LagInv'
  BY <1>1, <1>3 DEF LagInv, PutPackage
<1>4. CASE UNCHANGED crawlerVars
  BY <1>2, <1>4 DEF crawlerVars
<1>5. CASE Crawls
  <2>1. CASE Start \/ Classify \/ ListOwned \/ Finish \/ \E p \in Pages : ReadListing(p)
    BY <1>2, <2>1 DEF Start, Classify, ListOwned, Finish, ReadListing
  <2>2. CASE DeleteStale
    <3>1. \/ UNCHANGED pkgVars
          \/ \E u \in Types : PutPackage(u, NoPackage)
      BY <2>2 DEF DeleteStale, Stale
    <3> QED BY <1>2, <1>3, <3>1
  <2>3. CASE \E u \in Types : Create(u)
    <3>1. \/ UNCHANGED pkgVars
          \/ \E u \in Types : PutPackage(u, [NoPackage EXCEPT !.owner = crawl.uid])
      BY <2>3 DEF Create
    <3> QED BY <1>2, <1>3, <3>1
  <2>4. CASE \E u \in Types : UpdateStatus(u)
    <3>1. \/ UNCHANGED pkgVars
          \/ \E u \in Types : PutPackage(u, [owner |-> pkgs[u].owner, meta |-> crawl.infos[u].meta,
                          tags |-> crawl.infos[u].tags])
      BY <2>4 DEF UpdateStatus
    <3> QED BY <1>2, <1>3, <3>1
  <2> QED BY <1>5, <2>1, <2>2, <2>3, <2>4 DEF Crawls
<1>6. CASE Restart \/ \E u \in Types : SyncPackage(u)
  BY <1>1, <1>6 DEF Restart, SyncPackage, LagInv
<1>7. CASE \E u \in Types : Collect(u)
  BY <1>3, <1>7 DEF Collect
<1>8. CASE CrawlNext /\ ~Crawls /\ ~Restart /\ ~(\E u \in Types : SyncPackage(u) \/ Collect(u))
  <2>1. UNCHANGED pkgVars
    BY <1>8 DEF CrawlNext, CrawlFails, Fire, SyncRepo, Publish, Unpublish, OthersCrawl, DeleteRepo,
           ReleaseRepo, RecreateRepo, CommitSucceeds, LimitBegins, Rotate, Tick, Stall, TimePasses,
           Reclassify
  <2> QED BY <1>2, <2>1
<1> QED BY <1>4, <1>5, <1>6, <1>7, <1>8

(* The listings age at the pace at which changes do.                                *)
LEMMA TimeAges ==
  ASSUME CrawlTypeOK, AgeInv, TimePasses PROVE AgeInv'
<1> SUFFICES ASSUME NEW p \in Pages, listing'[p].age < TTL
             PROVE  listing'[p].val = host'[Of(p)] \/ since'[Of(p)] <= listing'[p].age
  BY DEF AgeInv
<1>1. listing[p] \in [val : Versions, age : 0..TTL] /\ Of(p) \in Types
  BY Parts DEF ListingsOK, Of, Types
<1>2. listing'[p] = IF listing[p].age + 1 >= TTL THEN NoListing
                    ELSE [listing[p] EXCEPT !.age = @ + 1]
  BY DEF TimePasses
<1>3. NoListing.age = TTL
  BY DEF NoListing
<1>4. listing[p].age + 1 < TTL
  BY <1>1, <1>2, <1>3, Numbers
<1>5. listing'[p].val = listing[p].val /\ listing'[p].age = listing[p].age + 1
  BY <1>1, <1>2, <1>4, Numbers
<1>6. listing[p].val = host[Of(p)] \/ since[Of(p)] <= listing[p].age
  BY <1>1, <1>4, Numbers DEF AgeInv
<1>7. since[Of(p)] \in 0..OldAge /\ host' = host
  BY <1>1, Parts DEF HostOK, TimePasses
<1>8. since'[Of(p)] \in Nat /\ since'[Of(p)] <= since[Of(p)] + 1
  <2>1. since'[Of(p)] = IF smooth THEN Older(since[Of(p)], OldAge) ELSE 0
    BY <1>1 DEF TimePasses
  <2> QED BY <1>7, <2>1, Numbers DEF Older, Lesser
<1>9. listing[p].age \in Nat /\ since[Of(p)] \in Nat
  BY <1>1, <1>7, Numbers
<1> QED BY <1>5, <1>6, <1>7, <1>8, <1>9

(* Every step keeps AgeInv: a listing is right when fetched, and ages with the *)
(* last change.                                                                *)
LEMMA NextAge == ASSUME CrawlTypeOK, AgeInv, [CrawlNext]_crawlerVars PROVE AgeInv'
<1>1. listing \in [Pages -> [val : Versions, age : 0..TTL]]
  BY Parts DEF ListingsOK
<1>2. ASSUME UNCHANGED <<listing, host, since>> PROVE AgeInv'
  BY <1>2 DEF AgeInv
<1>3. ASSUME NEW p \in Pages, listing' = Fetched(p), UNCHANGED <<host, since>> PROVE AgeInv'
  <2>1. \A q \in Pages \ {p} : listing'[q] = listing[q]
    BY <1>1, <1>3 DEF Fetched
  <2>2. listing'[p].val = host[Of(p)]
    BY <1>1, <1>3 DEF Fetched
  <2> QED BY <1>3, <2>1, <2>2 DEF AgeInv
<1>4. ASSUME listing' = [p \in Pages |-> NoListing] PROVE AgeInv'
  BY <1>4, Numbers DEF AgeInv, NoListing
<1>5. CASE UNCHANGED crawlerVars
  BY <1>2, <1>5 DEF crawlerVars, cacheVars, hostVars
<1>6. CASE Crawls
  <2>1. CASE \E p \in Pages : ReadListing(p)
    <3>1. PICK p \in Pages : ReadListing(p)
      BY <2>1
    <3>2. UNCHANGED <<host, since>> /\ (listing' = Fetched(p) \/ UNCHANGED listing)
      BY <3>1 DEF ReadListing, ListingFails, VersionsMissing, hostVars
    <3> QED BY <1>2, <1>3, <3>2
  <2>2. CASE Crawls /\ ~(\E p \in Pages : ReadListing(p))
    <3>1. UNCHANGED <<listing, host, since>>
      BY <2>2 DEF Crawls, Start, Classify, ListOwned, DeleteStale, Finish, Create, UpdateStatus,
             cacheVars, hostVars
    <3> QED BY <1>2, <3>1
  <2> QED BY <1>6, <2>1, <2>2
<1>7. CASE \E p \in Pages : OthersCrawl(p)
  BY <1>3, <1>7 DEF OthersCrawl, hostVars
<1>8. CASE Rotate \/ Restart
  BY <1>4, <1>8 DEF Rotate, Restart
<1>9. CASE Tick \/ Stall
  BY <1>9, TimeAges DEF Tick, Stall
<1>10. CASE \E u \in Types : Publish(u) \/ Unpublish(u)
  <2>1. PICK u \in Types : Publish(u) \/ Unpublish(u)
    BY <1>10
  <2>2. host \in [Types -> Versions] /\ since \in [Types -> 0..OldAge]
    BY Parts DEF HostOK
  <2>3. since'[u] = 0 /\ listing' = listing
    BY <2>1, <2>2 DEF Publish, Unpublish, cacheVars
  <2>4. \A t \in Types \ {u} : since'[t] = since[t] /\ host'[t] = host[t]
    BY <2>1, <2>2 DEF Publish, Unpublish
  <2>5. \A p \in Pages : listing[p].age \in Nat /\ Of(p) \in Types
    BY Typed DEF Of, Types
  <2> QED BY <2>3, <2>4, <2>5 DEF AgeInv
<1>11. CASE /\ CrawlNext /\ ~Crawls /\ ~Rotate /\ ~Restart /\ ~Tick /\ ~Stall
            /\ ~(\E p \in Pages : OthersCrawl(p)) /\ ~(\E u \in Types : Publish(u) \/ Unpublish(u))
  <2>1. UNCHANGED <<listing, host, since>>
    BY <1>11 DEF CrawlNext, CrawlFails, Fire, SyncRepo, SyncPackage, Collect, DeleteRepo,
           ReleaseRepo, RecreateRepo, CommitSucceeds, LimitBegins, Reclassify, cacheVars, hostVars
  <2> QED BY <1>2, <2>1
<1> QED BY <1>5, <1>6, <1>7, <1>8, <1>9, <1>10, <1>11

(* A crawl that goes on keeps to what it was started with.                         *)
LEMMA KeepsFresh ==
  ASSUME CrawlTypeOK,
         \/ \E p \in Pages : ReadListing(p)
         \/ ListOwned \/ DeleteStale
         \/ \E u \in Types : Create(u) \/ UpdateStatus(u)
  PROVE  /\ step # "idle" /\ queued' = queued /\ committed' = committed
         /\ step' = "idle" \/ crawl'.fresh = crawl.fresh
<1>1. step # "idle" /\ committed' = committed
  BY DEF ReadListing, ListOwned, DeleteStale, Create, UpdateStatus, Pages, hostVars
<1>2. queued' = queued
  BY DEF ReadListing, ListingFails, VersionsMissing, Refused, Fails, Ends, Goes, ListOwned, DeleteStale,
         Create, UpdateStatus, queueVars
<1>3. crawl \in Crawlings
  BY Typed
<1>4. CASE \E p \in Pages : ReadListing(p)
  <2>1. PICK p \in Pages : ReadListing(p)
    BY <1>4
  <2>2. step' = "idle" \/ \E v \in Nat : Note(p, v)
    <3>1. listing[p].val \in Nat /\ host[Of(p)] \in Nat
      BY Typed DEF Of, Types
    <3> QED BY <2>1, <3>1 DEF ReadListing, ListingFails, VersionsMissing, Refused, Fails, Ends
  <2>3. ASSUME NEW v \in Nat, Note(p, v) PROVE crawl'.fresh = crawl.fresh
    BY <1>3, <2>3 DEF Note, Crawlings
  <2> QED BY <1>1, <1>2, <2>2, <2>3
<1>5. CASE ListOwned
  BY <1>1, <1>2, <1>3, <1>5 DEF ListOwned, Crawlings
<1>6. CASE DeleteStale
  <2>1. \/ crawl' = [crawl EXCEPT !.todo = {t \in Types : Listed(t)}]
        \/ \E t \in Types : crawl' = [crawl EXCEPT !.existing[t] = NoPackage]
    BY <1>6 DEF DeleteStale, Stale
  <2>2. crawl'.fresh = crawl.fresh
    BY <1>3, <2>1 DEF Crawlings
  <2> QED BY <1>1, <1>2, <2>2
<1>7. CASE \E u \in Types : Create(u)
  <2>1. step' = "idle" \/ \E u \in Types : \E q, s : crawl' = [crawl EXCEPT !.existing[u] = q, !.stale = s]
    BY <1>7 DEF Create, Hold, Fails, Ends
  <2>2. step' = "idle" \/ crawl'.fresh = crawl.fresh
    BY <1>3, <2>1 DEF Crawlings
  <2> QED BY <1>1, <1>2, <2>2
<1>8. CASE \E u \in Types : UpdateStatus(u)
  <2>1. step' = "idle" \/ \E u \in Types : Written(u)
    BY <1>8 DEF UpdateStatus, Fails, Ends
  <2>2. step' = "idle" \/ crawl'.fresh = crawl.fresh
    BY <1>3, <2>1 DEF Crawlings, Written
  <2> QED BY <1>1, <1>2, <2>2
<1> QED BY <1>4, <1>5, <1>6, <1>7, <1>8

(* Every step keeps RecentInv: a commit enqueues the Repository.               *)
LEMMA NextRecent == ASSUME CrawlTypeOK, RecentInv, [CrawlNext]_crawlerVars PROVE RecentInv'
<1>1. committed \in 0..Window /\ Window \in Nat
  BY Parts, Numbers DEF HostOK
<1>2. ASSUME UNCHANGED <<step, queued, crawl, committed>> PROVE RecentInv'
  BY <1>2 DEF RecentInv, Recent
<1>3. ASSUME step' = "idle" \/ queued' PROVE RecentInv'
  BY <1>3 DEF RecentInv
<1>4. ASSUME TimePasses PROVE RecentInv'
  <2>1. UNCHANGED <<step, queued, crawl>> /\ committed' = Older(committed, Window)
    BY <1>4 DEF TimePasses, crawlVars
  <2>2. Recent' => Recent
    BY <1>1, <2>1 DEF Recent, Older, Lesser
  <2> QED BY <2>1, <2>2 DEF RecentInv
<1>5. CASE UNCHANGED crawlerVars
  BY <1>2, <1>5 DEF crawlerVars, queueVars, crawlVars, hostVars
<1>6. CASE Start
  <2>1. committed' = committed /\ step = "idle"
    BY <1>6 DEF Start, hostVars
  <2>2. CASE step' = "account" /\ crawl' = [Idle EXCEPT !.uid = rcached.uid, !.fresh = Recent]
    <3>1. crawl'.fresh = Recent
      BY <2>2 DEF Idle
    <3> QED BY <2>1, <3>1 DEF RecentInv, Recent
  <2>3. CASE UNCHANGED crawlVars
    BY <1>3, <2>1, <2>3 DEF crawlVars
  <2> QED BY <1>6, <2>2, <2>3 DEF Start
<1>7. CASE Classify
  <2>1. committed' = committed /\ step = "account" /\ (step' = "idle" \/ (UNCHANGED <<crawl, queued>>))
    BY <1>7 DEF Classify, Goes, Refused, Ends, hostVars, queueVars
  <2> QED BY <2>1 DEF RecentInv, Recent
<1>8. CASE Finish \/ CrawlFails \/ Restart
  BY <1>3, <1>8 DEF Finish, CrawlFails, Restart, Ends
<1>9. CASE \/ \E p \in Pages : ReadListing(p)
           \/ ListOwned \/ DeleteStale
           \/ \E u \in Types : Create(u) \/ UpdateStatus(u)
  <2>1. /\ step # "idle" /\ queued' = queued /\ committed' = committed
        /\ step' = "idle" \/ crawl'.fresh = crawl.fresh
    BY <1>9, KeepsFresh
  <2> QED BY <2>1 DEF RecentInv, Recent
<1>10. CASE Fire \/ SyncRepo \/ CommitSucceeds \/ \E u \in Types : SyncPackage(u)
  BY <1>3, <1>10 DEF Fire, SyncRepo, CommitSucceeds, SyncPackage
<1>11. CASE Tick \/ Stall
  BY <1>4, <1>11 DEF Tick, Stall
<1>12. CASE Rotate
  BY <1>3, <1>12 DEF Rotate, crawlVars
<1>13. CASE \/ \E u \in Types : Collect(u) \/ Publish(u) \/ Unpublish(u)
            \/ \E p \in Pages : OthersCrawl(p)
            \/ DeleteRepo \/ ReleaseRepo \/ RecreateRepo \/ LimitBegins \/ Reclassify
  <2>1. UNCHANGED <<step, queued, crawl, committed>>
    BY <1>13 DEF Collect, Publish, Unpublish, OthersCrawl, DeleteRepo, ReleaseRepo, RecreateRepo,
           LimitBegins, Reclassify, crawlVars, queueVars, hostVars
  <2> QED BY <1>2, <2>1
<1> QED BY <1>5, <1>6, <1>7, <1>8, <1>9, <1>10, <1>11, <1>12, <1>13 DEF CrawlNext, Crawls

(* What a crawl reads.  In a smooth run no time passes while it is under way.        *)
LEMMA IdleRead == ASSUME step' \in {"idle", "account"}, crawl'.infos = Idle.infos PROVE ReadInv'
<1>1. Idle.infos["image"].tags = 0
  BY DEF Idle, Nothing, Types
<1> QED BY <1>1 DEF ReadInv, Seen, Tagged

(* A step of the crawl that reads no listing, while the host stays as it is.   *)
LEMMA SameRead ==
  ASSUME ReadInv, crawl'.infos = crawl.infos, crawl'.fresh = crawl.fresh, UNCHANGED <<host, since>>,
         Tagged' = Tagged, \A t \in Types : Seen(t)' => Seen(t)
  PROVE  ReadInv'
<1>1. \A t \in Types : MetaRead(t)' = MetaRead(t)
  BY DEF MetaRead, Slack
<1>2. TagsRead' = TagsRead
  BY DEF TagsRead, Slack
<1>3. \A t \in Types : Seen(t)' => MetaRead(t)'
  BY <1>1 DEF ReadInv
<1>4. IF Tagged' THEN TagsRead' ELSE crawl'.infos["image"].tags = 0
  BY <1>2 DEF ReadInv
<1> QED BY <1>3, <1>4 DEF ReadInv

(* A listing that the crawl takes is right, or not older than the change it misses.     *)
LEMMA TakenListing ==
  ASSUME CrawlTypeOK, AgeInv, NEW p \in Pages, NEW v \in Nat, UNCHANGED <<host, since>>,
         \/ Served(p) /\ v = listing[p].val
         \/ v = host[Of(p)]
  PROVE  v = host[Of(p)] \/ since[Of(p)] <= Slack(Of(p))
<1>1. CASE Served(p) /\ v = listing[p].val
  <2>1. listing[p].age < TTL /\ (v = host[Of(p)] \/ since[Of(p)] <= listing[p].age)
    BY <1>1 DEF AgeInv, Served
  <2>2. Slack(Of(p)) = TTL - 1
    BY <1>1 DEF Served, Slack, Of
  <2>3. listing[p].age \in Nat /\ since[Of(p)] \in Nat
    BY Typed DEF Of, Types
  <2> QED BY <2>1, <2>2, <2>3, Numbers
<1> QED BY <1>1

(* Reading a listing: what is served is at most as old as listings live, and   *)
(* for an image after a commit it is fetched.                                  *)
LEMMA ReadsRead ==
  ASSUME CrawlTypeOK, AgeInv, ReadInv, NEW p \in Pages, NEW v \in Nat, step = p,
         UNCHANGED <<host, since>>, Note(p, v), step' = After(p, v),
         \/ Served(p) /\ v = listing[p].val
         \/ v = host[Of(p)]
  PROVE  ReadInv'
<1>1. v = host[Of(p)] \/ since[Of(p)] <= Slack(Of(p))
  BY TakenListing
<1>2. crawl \in Crawlings /\ "image" \in Types
  BY Typed DEF Types
<1>3. CASE p = "versions"
  <2>1. step' = "library"
    BY <1>3 DEF After
  <2>2. /\ crawl'.infos["image"].meta = crawl.infos["image"].meta
        /\ crawl'.infos["image"].tags = v /\ crawl'.fresh = crawl.fresh
    BY <1>3, NoteTags
  <2>3. Seen("image") /\ ~Seen("library")' /\ Tagged'
    BY <1>3, <2>1 DEF Seen, Tagged
  <2>4. MetaRead("image")
    BY <1>2, <2>3 DEF ReadInv
  <2>5. MetaRead("image")'
    BY <2>2, <2>4 DEF MetaRead, Slack
  <2>6. TagsRead'
    BY <1>1, <1>3, <2>2 DEF TagsRead, Slack, Of
  <2> QED BY <2>3, <2>5, <2>6 DEF ReadInv, Types
<1>4. CASE p # "versions"
  <2>1. p \in Types /\ Of(p) = p
    BY <1>4 DEF Pages, Types, Of
  <2>2. /\ crawl'.infos[p].meta = v /\ crawl'.infos[p].tags = crawl.infos[p].tags
        /\ crawl'.fresh = crawl.fresh
        /\ \A t \in Types \ {p} : crawl'.infos[t] = crawl.infos[t]
    BY <1>4, NoteMeta
  <2>3. MetaRead(p)'
    BY <1>1, <2>1, <2>2 DEF MetaRead, Slack
  <2>4. crawl'.infos["image"].tags = crawl.infos["image"].tags
    BY <1>2, <2>2
  <2>5. CASE p = "image"
    <3>1. crawl.infos["image"].tags = 0
      BY <2>5 DEF ReadInv, Tagged
    <3>2. CASE v > 0
      <4>1. step' = "versions"
        BY <2>5, <3>2 DEF After
      <4> QED BY <2>3, <2>4, <2>5, <3>1, <4>1 DEF ReadInv, Seen, Tagged, Types
    <3>3. CASE v = 0
      <4>1. step' = "library"
        BY <2>5, <3>3 DEF After
      <4>2. TagsRead'
        BY <1>1, <2>1, <2>2, <2>4, <2>5, <3>1, <3>3 DEF TagsRead, Slack
      <4> QED BY <2>3, <2>5, <4>1, <4>2 DEF ReadInv, Seen, Tagged, Types
    <3> QED BY <3>2, <3>3
  <2>6. CASE p = "library"
    <3>1. step' = "list"
      BY <2>6 DEF After
    <3>2. MetaRead("image") /\ TagsRead
      BY <2>6, <1>2 DEF ReadInv, Seen, Tagged
    <3>3. MetaRead("image")' /\ TagsRead'
      BY <1>2, <2>2, <2>4, <2>6, <3>2 DEF MetaRead, TagsRead, Slack
    <3> QED BY <2>3, <2>6, <3>1, <3>3 DEF ReadInv, Tagged, Types
  <2> QED BY <1>4, <2>5, <2>6 DEF Pages
<1> QED BY <1>3, <1>4

(* The steps of sync leave what was read alone.                                   *)
Syncs == ListOwned \/ DeleteStale \/ \E u \in Types : Create(u) \/ UpdateStatus(u)
(* sync leaves what the crawl has read as it is.                               *)
LEMMA SyncKeeps ==
  ASSUME CrawlTypeOK, Syncs, smooth'
  PROVE  /\ step \in {"list", "delete", "write"} /\ step' \in {"delete", "write"}
         /\ crawl'.infos = crawl.infos /\ crawl'.fresh = crawl.fresh
         /\ UNCHANGED <<host, since>>
<1>1. crawl \in Crawlings
  BY Typed
<1>2. UNCHANGED <<host, since>>
  BY DEF Syncs, ListOwned, DeleteStale, Create, UpdateStatus, hostVars
<1>3. step \in {"list", "delete", "write"} /\ step' \in {"delete", "write"}
  BY DEF Syncs, ListOwned, DeleteStale, Create, UpdateStatus, Goes, Fails
<1>4. CASE ListOwned
  <2>1. crawl'.infos = crawl.infos /\ crawl'.fresh = crawl.fresh
    BY <1>1, <1>4 DEF ListOwned, Crawlings
  <2> QED BY <1>2, <1>3, <2>1
<1>5. CASE DeleteStale
  <2>1. \/ crawl' = [crawl EXCEPT !.todo = {t \in Types : Listed(t)}]
        \/ \E t \in Types : crawl' = [crawl EXCEPT !.existing[t] = NoPackage]
    BY <1>5 DEF DeleteStale, Stale
  <2>2. crawl'.infos = crawl.infos /\ crawl'.fresh = crawl.fresh
    BY <1>1, <2>1 DEF Crawlings
  <2> QED BY <1>2, <1>3, <2>2
<1>6. CASE \E u \in Types : Create(u)
  <2>1. \E u \in Types : \E q, s : crawl' = [crawl EXCEPT !.existing[u] = q, !.stale = s]
    BY <1>6 DEF Create, Hold, Fails
  <2>2. crawl'.infos = crawl.infos /\ crawl'.fresh = crawl.fresh
    BY <1>1, <2>1 DEF Crawlings
  <2> QED BY <1>2, <1>3, <2>2
<1>7. CASE \E u \in Types : UpdateStatus(u)
  <2>1. \E u \in Types : Written(u)
    BY <1>7 DEF UpdateStatus, Fails
  <2>2. crawl'.infos = crawl.infos /\ crawl'.fresh = crawl.fresh
    BY <1>1, <2>1 DEF Crawlings, Written
  <2> QED BY <1>2, <1>3, <2>2
<1> QED BY <1>4, <1>5, <1>6, <1>7 DEF Syncs

(* A smooth step, by what it is about.                                           *)
Outside == \/ Fire \/ SyncRepo \/ CommitSucceeds
           \/ \E u \in Types : SyncPackage(u) \/ Collect(u)
           \/ \E p \in Pages : OthersCrawl(p)
(* The steps of a system in which nothing has failed.                          *)
LEMMA SmoothSteps ==
  ASSUME CrawlTypeOK, SteadyInv, [CrawlNext]_crawlerVars, smooth'
  PROVE  /\ smooth /\ limit = 0 /\ rcached.phase = "live"
         /\ \/ UNCHANGED crawlerVars
            \/ Start \/ Classify \/ Syncs \/ Finish
            \/ \E p \in Pages : ReadListing(p)
            \/ \E u \in Types : Publish(u) \/ Unpublish(u)
            \/ Outside \/ Tick
<1>1. smooth /\ limit = 0 /\ repo.phase = "live" /\ rcached.phase = "live"
  BY SmoothBefore DEF SteadyInv
<1>2. ~ReleaseRepo /\ ~RecreateRepo
  BY <1>1 DEF ReleaseRepo, RecreateRepo
<1> QED BY <1>1, <1>2, FaultsShow DEF CrawlNext, Crawls, Faults, Syncs, Outside

(* Every step keeps ReadInv.                                                   *)
LEMMA NextRead ==
  ASSUME CrawlTypeOK, SteadyInv, AgeInv, ReadInv, [CrawlNext]_crawlerVars, smooth'
  PROVE  ReadInv'
<1>0. crawl \in Crawlings
  BY Typed
<1>1. smooth /\ limit = 0 /\ rcached.phase = "live"
  BY SmoothSteps
<1>2. ASSUME UNCHANGED <<step, crawl, host, since>> PROVE ReadInv'
  BY <1>2, SameRead DEF Tagged, Seen
<1>3. CASE UNCHANGED crawlerVars
  BY <1>2, <1>3 DEF crawlerVars, crawlVars, hostVars
<1>4. CASE Start
  <2>1. step' = "account" /\ crawl' = [Idle EXCEPT !.uid = rcached.uid, !.fresh = Recent]
    BY <1>1, <1>4 DEF Start
  <2>2. crawl'.infos = Idle.infos
    BY <2>1 DEF Idle
  <2> QED BY <2>1, <2>2, IdleRead
<1>5. CASE Classify
  <2>1. step = "account" /\ step' = "image" /\ crawl' = crawl /\ UNCHANGED <<host, since>>
    BY <1>1, <1>5 DEF Classify, Goes, Refused, hostVars
  <2> QED BY <2>1, SameRead DEF Tagged, Seen
<1>6. CASE Syncs
  <2>1. /\ step \in {"list", "delete", "write"} /\ step' \in {"delete", "write"}
        /\ crawl'.infos = crawl.infos /\ crawl'.fresh = crawl.fresh
        /\ UNCHANGED <<host, since>>
    BY <1>6, SyncKeeps
  <2> QED BY <2>1, SameRead DEF Tagged, Seen
<1>7. CASE Finish
  BY <1>7, IdleRead DEF Finish, Ends
<1>8. CASE \E p \in Pages : ReadListing(p)
  <2>1. PICK p \in Pages : ReadListing(p)
    BY <1>8
  <2>2. step = p /\ UNCHANGED <<host, since>>
    BY <2>1 DEF ReadListing, hostVars
  <2>3. listing[p].val \in Nat /\ host[Of(p)] \in Nat
    BY Typed DEF Of, Types
  <2>4. CASE Served(p) /\ Note(p, listing[p].val) /\ Goes(After(p, listing[p].val))
    BY <2>2, <2>3, <2>4, ReadsRead DEF Goes
  <2>5. CASE Note(p, host[Of(p)]) /\ Goes(After(p, host[Of(p)]))
    BY <2>2, <2>3, <2>5, ReadsRead DEF Goes
  <2>6. ~ListingFails(p) /\ ~VersionsMissing(p)
    BY <1>1 DEF ListingFails, VersionsMissing, Refused, Fails
  <2> QED BY <2>1, <2>4, <2>5, <2>6 DEF ReadListing
<1>9. ASSUME NEW u \in Types, Publish(u) \/ Unpublish(u) PROVE ReadInv'
  <2>1. host \in [Types -> Versions] /\ since \in [Types -> 0..OldAge]
    BY Parts DEF HostOK
  <2>2. UNCHANGED <<step, crawl>> /\ since'[u] = 0
    BY <1>9, <2>1 DEF Publish, Unpublish, crawlVars
  <2>3. \A t \in Types \ {u} : since'[t] = since[t] /\ host'[t] = host[t]
    BY <1>9, <2>1 DEF Publish, Unpublish
  <2>4. \A t \in Types : Slack(t)' = Slack(t) /\ 0 <= Slack(t)
    BY <2>2, Numbers DEF Slack
  <2>5. \A t \in Types : MetaRead(t) => MetaRead(t)'
    BY <2>2, <2>3, <2>4 DEF MetaRead
  <2>6. TagsRead => TagsRead'
    BY <2>2, <2>3, <2>4 DEF TagsRead, Types
  <2>7. Tagged' = Tagged /\ \A t \in Types : Seen(t)' = Seen(t)
    BY <2>2 DEF Tagged, Seen
  <2> QED BY <2>2, <2>5, <2>6, <2>7 DEF ReadInv
<1>10. CASE Outside
  <2>1. UNCHANGED <<step, crawl, host, since>>
    BY <1>10 DEF Outside, Fire, SyncRepo, CommitSucceeds, SyncPackage, Collect, OthersCrawl, crawlVars,
                 hostVars
  <2> QED BY <1>2, <2>1
<1>11. CASE Tick
  <2>1. step = "idle" /\ UNCHANGED <<step, crawl>>
    BY <1>11 DEF Tick, Quiet, TimePasses, crawlVars
  <2>2. crawl.infos["image"].tags = 0
    BY <2>1 DEF ReadInv, Tagged
  <2> QED BY <2>1, <2>2 DEF ReadInv, Seen, Tagged
<1> QED BY <1>3, <1>4, <1>5, <1>6, <1>7, <1>8, <1>9, <1>10, <1>11, SmoothSteps

(* What a crawl writes.                                                         *)
LEMMA NextWrite ==
  ASSUME CrawlTypeOK, DropInv, SteadyInv, LagInv, WriteInv, [CrawlNext]_crawlerVars, smooth'
  PROVE  WriteInv'
<1>0. crawl \in Crawlings /\ pkgs \in [Types -> Packages] /\ cpkgs \in [Types -> Packages]
      /\ lag \subseteq Types
  BY Typed, Parts DEF PackagesOK
<1>1. smooth /\ limit = 0 /\ rcached.phase = "live"
  BY SmoothSteps
<1>2. ASSUME UNCHANGED <<queued, lag, step, crawl, pkgs>> PROVE WriteInv'
  BY <1>2 DEF WriteInv, Matches
<1>3. ASSUME queued' \/ lag' # {} \/ step' \notin {"delete", "write"} PROVE WriteInv'
  BY <1>3 DEF WriteInv
<1>4. CASE UNCHANGED crawlerVars
  BY <1>2, <1>4 DEF crawlerVars, crawlVars, queueVars, pkgVars
<1>5. CASE Start \/ Classify \/ Finish
  BY <1>1, <1>3, <1>5 DEF Start, Classify, Finish, Goes, Refused, Ends
<1>6. CASE \E p \in Pages : ReadListing(p)
  <2>1. PICK p \in Pages : ReadListing(p)
    BY <1>6
  <2>2. \A v \in Nat : After(p, v) \in {"versions", "library", "list"}
    BY DEF After, Pages
  <2>3. listing[p].val \in Nat /\ host[Of(p)] \in Nat
    BY Typed DEF Of, Types
  <2>4. step' \notin {"delete", "write"}
    BY <2>1, <2>2, <2>3 DEF ReadListing, ListingFails, VersionsMissing, Refused, Fails, Goes, Ends
  <2> QED BY <1>3, <2>4
<1>7. CASE ListOwned
  <2>1. crawl' = [crawl EXCEPT !.existing = cpkgs, !.stale = lag] /\ step' = "delete"
        /\ UNCHANGED <<queued, lag, pkgs>>
    BY <1>7 DEF ListOwned, Goes, queueVars, pkgVars
  <2>2. crawl'.existing = cpkgs
    BY <1>0, <2>1 DEF Crawlings
  <2>3. lag = {} => cpkgs = pkgs
    BY <1>0 DEF LagInv
  <2> QED BY <2>1, <2>2, <2>3 DEF WriteInv
<1>8. CASE DeleteStale
  <2>1. step = "delete" /\ queued' = queued
    BY <1>8 DEF DeleteStale, Goes, queueVars
  <2>2. CASE /\ Stale = {} /\ Goes("write") /\ UNCHANGED pkgVars
             /\ crawl' = [crawl EXCEPT !.todo = {t \in Types : Listed(t)}]
    <3>1. step' = "write" /\ pkgs' = pkgs /\ lag' = lag
      BY <2>2 DEF Goes, pkgVars
    <3>2. {t \in Types : Listed(t)} \in SUBSET Types
      OBVIOUS
    <3>3. /\ crawl'.todo = {t \in Types : Listed(t)} /\ crawl'.existing = crawl.existing
          /\ crawl'.infos = crawl.infos
      BY <1>0, <2>2, <3>2, Planned
    <3>4. ASSUME ~queued, lag = {} PROVE crawl'.existing = pkgs' /\ \A t \in Types : Matches(t)'
      <4>1. crawl.existing = pkgs
        BY <2>1, <3>4 DEF WriteInv
      <4>2. ASSUME NEW t \in Types PROVE Matches(t)'
        <5>1. ~(crawl.infos[t].meta > 0) => pkgs[t] = NoPackage
          BY <2>2, <4>1 DEF Stale, Listed
        <5>2. crawl.infos[t].meta > 0 => t \in crawl'.todo
          BY <3>3 DEF Listed
        <5> QED BY <3>1, <3>3, <5>1, <5>2 DEF Matches
      <4> QED BY <3>1, <3>3, <4>1, <4>2
    <3> QED BY <2>1, <3>1, <3>4 DEF WriteInv
  <2>3. ASSUME NEW t \in Stale,
               crawl' = [crawl EXCEPT !.existing[t] = NoPackage],
               IF pkgs[t] = NoPackage THEN UNCHANGED pkgVars ELSE PutPackage(t, NoPackage)
        PROVE  WriteInv'
    <3>1. CASE pkgs[t] # NoPackage
      BY <1>3, <2>3, <3>1 DEF PutPackage
    <3>2. CASE pkgs[t] = NoPackage
      <4>1. crawl.existing[t] # NoPackage
        BY DEF Stale
      <4>2. queued \/ lag # {}
        BY <2>1, <3>2, <4>1 DEF WriteInv
      <4> QED BY <1>3, <2>1, <2>3, <3>2, <4>2 DEF pkgVars
    <3> QED BY <3>1, <3>2
  <2> QED BY <1>8, <2>2, <2>3 DEF DeleteStale
<1>9. ASSUME NEW u \in Types, Create(u) PROVE WriteInv'
  <2>1. queued' = queued /\ step = "write" /\ crawl.existing[u] = NoPackage
    BY <1>9 DEF Create, Goes, Fails, queueVars
  <2>2. CASE pkgs[u] = NoPackage
    BY <1>3, <1>9, <2>2 DEF Create, PutPackage
  <2>3. CASE pkgs[u] # NoPackage
    <3>1. queued \/ lag # {}
      BY <2>1, <2>3 DEF WriteInv
    <3> QED BY <1>3, <1>9, <2>1, <2>3, <3>1 DEF Create, pkgVars
  <2> QED BY <2>2, <2>3
<1>10. ASSUME NEW u \in Types, UpdateStatus(u) PROVE WriteInv'
  <2>1. queued' = queued /\ step = "write" /\ crawl.existing[u] # NoPackage /\ u \in crawl.todo
    BY <1>10 DEF UpdateStatus, Goes, Fails, queueVars
  <2>2. CASE StatusEqual(u) /\ Written(u) /\ Goes("write") /\ UNCHANGED pkgVars
    <3>1. step' = "write" /\ pkgs' = pkgs /\ lag' = lag
      BY <2>2 DEF Goes, pkgVars
    <3>2. crawl' = [crawl EXCEPT !.todo = crawl.todo \ {u}] /\ crawl.todo \ {u} \in SUBSET Types
      BY <1>0, <2>2, CrawlFields DEF Written
    <3>3. /\ crawl'.todo = crawl.todo \ {u} /\ crawl'.existing = crawl.existing
          /\ crawl'.infos = crawl.infos
      BY <1>0, <3>2, Planned
    <3>4. ASSUME ~queued, lag = {} PROVE crawl'.existing = pkgs' /\ \A t \in Types : Matches(t)'
      <4>1. crawl.existing = pkgs /\ \A t \in Types : Matches(t)
        BY <2>1, <3>4 DEF WriteInv
      <4>2. ASSUME NEW t \in Types, t # u PROVE Matches(t)'
        BY <3>1, <3>3, <4>1, <4>2 DEF Matches
      <4>3. pkgs[u].meta = crawl.infos[u].meta /\ pkgs[u].tags = crawl.infos[u].tags
        <5>1. [meta |-> pkgs[u].meta, tags |-> pkgs[u].tags] = crawl.infos[u]
          BY <2>2, <4>1 DEF StatusEqual, Status
        <5> QED BY <5>1
      <4>4. crawl.infos[u].meta > 0
        BY <2>1 DEF DropInv, TodoInv
      <4>5. Matches(u)'
        BY <2>1, <3>1, <3>3, <4>1, <4>3, <4>4 DEF Matches
      <4> QED BY <3>1, <3>3, <4>1, <4>2, <4>5
    <3> QED BY <2>1, <3>1, <3>4 DEF WriteInv
  <2>3. CASE \E q : PutPackage(u, q)
    BY <1>3, <2>3 DEF PutPackage
  <2>4. ~Fails
    BY DEF Fails
  <2> QED BY <1>10, <2>2, <2>3, <2>4 DEF UpdateStatus
<1>11. CASE Syncs
  BY <1>7, <1>8, <1>9, <1>10, <1>11 DEF Syncs
<1>12. CASE Tick \/ \E u \in Types : Publish(u) \/ Unpublish(u)
  BY <1>2, <1>12 DEF Tick, TimePasses, Publish, Unpublish, pkgVars, queueVars, crawlVars
<1>13. CASE Outside
  <2>1. CASE Fire \/ SyncRepo \/ CommitSucceeds \/ \E u \in Types : SyncPackage(u)
    BY <1>3, <2>1 DEF Fire, SyncRepo, CommitSucceeds, SyncPackage
  <2>2. CASE \E u \in Types : Collect(u)
    BY <1>3, <2>2 DEF Collect, PutPackage
  <2>3. CASE \E p \in Pages : OthersCrawl(p)
    BY <1>2, <2>3 DEF OthersCrawl, pkgVars, queueVars, crawlVars
  <2> QED BY <1>13, <2>1, <2>2, <2>3 DEF Outside
<1> QED BY <1>4, <1>5, <1>6, <1>11, <1>12, <1>13, SmoothSteps

(* A crawl that has written nothing and has nothing left to write ends with Packages  *)
(* that show what it read.                                                     *)
LEMMA FinishShows ==
  ASSUME CrawlTypeOK, ReadInv, step = "write", crawl.todo = {}, NEW t \in Types, Matches(t)
  PROVE  Shows(t) \/ since[t] <= Slack(t)
<1>1. MetaRead(t) /\ TagsRead
  BY DEF ReadInv, Seen, Tagged
<1>2. crawl.infos[t].meta \in Nat /\ host[t] \in Nat
  BY Typed, CrawlFields
<1>3. NoPackage.meta = 0 /\ NoPackage.tags = 0
  BY DEF NoPackage
<1>4. CASE crawl.infos[t].meta > 0
  <2>1. /\ pkgs[t] # NoPackage /\ pkgs[t].meta = crawl.infos[t].meta
        /\ pkgs[t].tags = crawl.infos[t].tags
    BY <1>4 DEF Matches
  <2> QED BY <1>1, <1>2, <1>4, <2>1 DEF Shows, MetaRead, TagsRead
<1>5. CASE crawl.infos[t].meta = 0
  <2>1. pkgs[t] = NoPackage
    BY <1>5 DEF Matches
  <2> QED BY <1>1, <1>2, <1>3, <1>5, <2>1 DEF Shows, MetaRead
<1> QED BY <1>2, <1>4, <1>5

(* A crawl that ends has either shown what it read, or is asked to be repeated.*)
LEMMA FinishWait ==
  ASSUME CrawlTypeOK, DropInv, RecentInv, ReadInv, WriteInv, Finish PROVE WaitInv'
<1> SUFFICES ASSUME ~queued' PROVE
         /\ timer' <= Interval
         /\ Recent' => timer' <= Fast
         /\ lag' = {} =>
              /\ \A t \in Types : Shows(t)' \/ since'[t] + timer' <= Interval + TTL - 1
              /\ Recent' => Shows("image")' \/ since'["image"] + timer' <= Fast
  BY DEF WaitInv
<1>1. /\ step = "write" /\ crawl.todo = {} /\ timer' = Lesser(timer, NextCrawl) /\ ~queued
      /\ UNCHANGED <<pkgs, lag, host, since, committed>>
  BY DEF Finish, Ends, pkgVars, hostVars
<1>2. timer \in Nat
  BY Parts, Numbers DEF CountersOK
<1>3. timer' \in Nat /\ timer' <= Interval /\ (crawl.fresh => timer' <= Fast)
  BY <1>1, <1>2, Numbers DEF Lesser, NextCrawl
<1>4. Recent' => crawl.fresh
  BY <1>1 DEF RecentInv, Recent
<1>5. Recent' => timer' <= Fast
  BY <1>3, <1>4
<1>6. ASSUME lag = {}, NEW t \in Types PROVE Shows(t)' \/ since'[t] <= Slack(t)
  <2>1. Matches(t)
    BY <1>1, <1>6 DEF WriteInv
  <2>2. Shows(t) \/ since[t] <= Slack(t)
    BY <1>1, <2>1, FinishShows
  <2>3. Shows(t)' = Shows(t)
    BY <1>1 DEF Shows
  <2> QED BY <1>1, <2>2, <2>3
<1>7. \A t \in Types : since'[t] \in Nat
  BY <1>1, Typed
<1>8. ASSUME lag' = {}, NEW t \in Types PROVE Shows(t)' \/ since'[t] + timer' <= Interval + TTL - 1
  <2>1. Slack(t) <= TTL - 1 /\ Slack(t) \in Nat
    BY Numbers DEF Slack
  <2> QED BY <1>1, <1>3, <1>6, <1>7, <1>8, <2>1, Numbers
<1>9. ASSUME lag' = {}, Recent' PROVE Shows("image")' \/ since'["image"] + timer' <= Fast
  <2>1. Slack("image") = 0 /\ "image" \in Types
    BY <1>4, <1>9 DEF Slack, Types
  <2> QED BY <1>1, <1>3, <1>4, <1>6, <1>7, <1>9, <2>1, Numbers
<1> QED BY <1>3, <1>5, <1>8, <1>9

(* A tick takes as much from the timer as it adds to the age of a change.      *)
LEMMA TickWait == ASSUME CrawlTypeOK, WaitInv, Tick, smooth PROVE WaitInv'
<1>1. step = "idle" /\ ~queued /\ timer # 0 /\ lag = {}
  BY DEF Tick, Quiet
<1>2. timer \in Nat /\ timer <= Interval /\ (Recent => timer <= Fast)
  BY <1>1, Parts, Numbers DEF WaitInv, CountersOK
<1>3. timer' = timer - 1
  BY <1>1, <1>2, Numbers DEF Tick, TimePasses
<1>4. UNCHANGED <<pkgs, host, lag>> /\ committed' = Older(committed, Window)
  BY DEF Tick, TimePasses, pkgVars
<1>5. committed \in 0..Window
  BY Parts DEF HostOK
<1>6. Recent' => Recent
  BY <1>4, <1>5, Numbers DEF Recent, Older, Lesser
<1>7. \A t \in Types : Shows(t)' = Shows(t)
  BY <1>4 DEF Shows
<1>8. \A t \in Types : since[t] \in Nat /\ since'[t] \in Nat /\ since'[t] <= since[t] + 1
  <2>1. since \in [Types -> 0..OldAge]
    BY Parts DEF HostOK
  <2>2. \A t \in Types : since'[t] = Older(since[t], OldAge)
    BY DEF Tick, TimePasses
  <2> QED BY <2>1, <2>2, Numbers DEF Older, Lesser
<1>9. timer' <= Interval /\ (Recent' => timer' <= Fast)
  BY <1>2, <1>3, <1>6, Numbers
<1>10. ASSUME NEW t \in Types PROVE Shows(t)' \/ since'[t] + timer' <= Interval + TTL - 1
  <2>1. Shows(t) \/ since[t] + timer <= Interval + TTL - 1
    BY <1>1 DEF WaitInv
  <2> QED BY <1>2, <1>3, <1>7, <1>8, <2>1, Numbers
<1>11. ASSUME Recent' PROVE Shows("image")' \/ since'["image"] + timer' <= Fast
  <2>1. Shows("image") \/ since["image"] + timer <= Fast
    BY <1>1, <1>6, <1>11 DEF WaitInv
  <2> QED BY <1>2, <1>3, <1>7, <1>8, <2>1, Numbers DEF Types
<1> QED BY <1>9, <1>10, <1>11 DEF WaitInv

(* A change begins a new wait.                                                 *)
LEMMA PublishWait ==
  ASSUME CrawlTypeOK, WaitInv, NEW u \in Types, Publish(u) \/ Unpublish(u) PROVE WaitInv'
<1>1. UNCHANGED <<step, queued, timer, lag, pkgs, committed>>
  BY DEF Publish, Unpublish, crawlVars, queueVars, pkgVars
<1>2. host \in [Types -> Versions] /\ since \in [Types -> 0..OldAge]
  BY Parts DEF HostOK
<1>3. since'[u] = 0 /\ \A t \in Types \ {u} : since'[t] = since[t] /\ host'[t] = host[t]
  BY <1>2 DEF Publish, Unpublish
<1>4. timer \in Nat
  BY Parts, Numbers DEF CountersOK
<1>5. \A t \in Types \ {u} : Shows(t)' = Shows(t)
  BY <1>1, <1>3 DEF Shows
<1> SUFFICES ASSUME step = "idle", ~queued
             PROVE  /\ timer <= Interval /\ (Recent => timer <= Fast)
                    /\ lag = {} =>
                        /\ \A t \in Types : Shows(t)' \/ since'[t] + timer <= Interval + TTL - 1
                        /\ Recent => Shows("image")' \/ since'["image"] + timer <= Fast
  BY <1>1 DEF WaitInv, Recent
<1>6. timer <= Interval /\ (Recent => timer <= Fast)
  BY DEF WaitInv
<1>7. ASSUME lag = {}, NEW t \in Types PROVE Shows(t)' \/ since'[t] + timer <= Interval + TTL - 1
  <2>1. CASE t = u
    BY <1>3, <1>4, <1>6, <2>1, Numbers
  <2>2. CASE t # u
    BY <1>3, <1>5, <1>7, <2>2 DEF WaitInv
  <2> QED BY <2>1, <2>2
<1>8. ASSUME lag = {}, Recent PROVE Shows("image")' \/ since'["image"] + timer <= Fast
  <2>1. CASE "image" = u
    BY <1>3, <1>4, <1>6, <1>8, <2>1, Numbers
  <2>2. CASE "image" # u
    BY <1>3, <1>5, <1>8, <2>2 DEF WaitInv, Types
  <2> QED BY <2>1, <2>2
<1> QED BY <1>6, <1>7, <1>8

(* Every step keeps WaitInv.                                                   *)
LEMMA NextWait ==
  ASSUME CrawlTypeOK, DropInv, SteadyInv, RecentInv, ReadInv, WriteInv, WaitInv,
         [CrawlNext]_crawlerVars, smooth'
  PROVE  WaitInv'
<1>1. smooth /\ limit = 0 /\ rcached.phase = "live"
  BY SmoothSteps
<1>2. ASSUME step' # "idle" \/ queued' PROVE WaitInv'
  BY <1>2 DEF WaitInv
<1>3. ASSUME UNCHANGED <<step, queued, timer, lag, pkgs, committed, host, since>> PROVE WaitInv'
  BY <1>3 DEF WaitInv, Recent, Shows
<1>4. CASE UNCHANGED crawlerVars
  BY <1>3, <1>4 DEF crawlerVars, crawlVars, queueVars, pkgVars, hostVars
<1>5. CASE Start \/ Classify
  BY <1>1, <1>2, <1>5 DEF Start, Classify, Goes, Refused
<1>6. CASE \E p \in Pages : ReadListing(p)
  <2>1. PICK p \in Pages : ReadListing(p)
    BY <1>6
  <2>2. \A v \in Nat : After(p, v) \in {"versions", "library", "list"}
    BY DEF After, Pages
  <2>3. listing[p].val \in Nat /\ host[Of(p)] \in Nat
    BY Typed DEF Of, Types
  <2>4. step' # "idle"
    BY <1>1, <2>1, <2>2, <2>3 DEF ReadListing, ListingFails, VersionsMissing, Refused, Fails, Goes
  <2> QED BY <1>2, <2>4
<1>7. CASE Syncs
  BY <1>2, <1>7, SyncKeeps
<1>8. CASE Finish
  BY <1>8, FinishWait
<1>9. CASE Tick
  BY <1>1, <1>9, TickWait
<1>10. CASE \E u \in Types : Publish(u) \/ Unpublish(u)
  BY <1>10, PublishWait
<1>11. CASE Outside
  <2>1. CASE Fire \/ SyncRepo \/ CommitSucceeds \/ \E u \in Types : SyncPackage(u)
    BY <1>2, <2>1 DEF Fire, SyncRepo, CommitSucceeds, SyncPackage
  <2>2. CASE \E u \in Types : Collect(u)
    <3>1. lag' # {} /\ UNCHANGED <<step, queued, timer, committed>>
      BY <2>2 DEF Collect, PutPackage, crawlVars, queueVars, hostVars
    <3> QED BY <3>1 DEF WaitInv, Recent
  <2>3. CASE \E p \in Pages : OthersCrawl(p)
    BY <1>3, <2>3 DEF OthersCrawl, pkgVars, queueVars, crawlVars, hostVars
  <2> QED BY <1>11, <2>1, <2>2, <2>3 DEF Outside
<1> QED BY <1>4, <1>5, <1>6, <1>7, <1>8, <1>9, <1>10, <1>11, SmoothSteps

(* Every step keeps FreshInv.                                                  *)
LEMMA NextFresh ==
  ASSUME CrawlTypeOK, DropInv, FreshInv, [CrawlNext]_crawlerVars PROVE FreshInv'
<1>1. SteadyInv' /\ LagInv' /\ AgeInv' /\ RecentInv'
  BY NextSteady, NextLag, NextAge, NextRecent DEF FreshInv
<1>2. ASSUME smooth' PROVE ReadInv' /\ WriteInv' /\ WaitInv'
  <2>1. smooth
    BY <1>2, SmoothBefore
  <2>2. ReadInv /\ WriteInv /\ WaitInv /\ SteadyInv /\ LagInv /\ AgeInv /\ RecentInv
    BY <2>1 DEF FreshInv
  <2> QED BY <1>2, <2>2, NextRead, NextWrite, NextWait
<1> QED BY <1>1, <1>2 DEF FreshInv

(* FreshInv says that artifacts show in time.                                  *)
LEMMA InvFresh == ASSUME CrawlTypeOK, FreshInv PROVE Fresh
<1> SUFFICES ASSUME smooth, Quiet
             PROVE  /\ \A t \in Types : since[t] >= Interval + TTL - 1 => Shows(t)
                    /\ Recent /\ since["image"] >= Fast => Shows("image")
  BY DEF Fresh
<1>1. timer \in Nat /\ timer # 0 /\ step = "idle" /\ ~queued /\ lag = {}
  BY Parts, Numbers DEF Quiet, CountersOK
<1>2. \A t \in Types : Shows(t) \/ since[t] + timer <= Interval + TTL - 1
  BY <1>1 DEF FreshInv, WaitInv
<1>3. Recent => Shows("image") \/ since["image"] + timer <= Fast
  BY <1>1 DEF FreshInv, WaitInv
<1>4. since["image"] \in Nat /\ \A t \in Types : since[t] \in Nat
  BY Typed DEF Types
<1> QED BY <1>1, <1>2, <1>3, <1>4, Numbers

(* CrawlInvariant: what the two results on deletions and on freshness rest on  *)
(* holds in every behaviour of the crawler, for any intervals                  *)
(* (packages/controller.go, Reconcile and its requeue).                        *)
THEOREM CrawlInvariant == CrawlSpec => [](CrawlTypeOK /\ DropInv /\ FreshInv)
<1>1. CrawlInit => CrawlTypeOK /\ DropInv /\ FreshInv
  BY InitTyped, InitDrop, InitFresh
<1>2. CrawlTypeOK /\ DropInv /\ FreshInv /\ [CrawlNext]_crawlerVars
        => (CrawlTypeOK /\ DropInv /\ FreshInv)'
  BY NextTyped, NextDrop, NextFresh
<1> QED BY <1>1, <1>2, PTL DEF CrawlSpec

(* ArtifactsShowInTime: while nothing fails, every change of an artifact shows *)
(* within one crawl interval and the lifetime of a shared listing, and in the  *)
(* window after a commit an image, with its tags, shows within the short       *)
(* interval: for all intervals, whoever else refreshes the listings            *)
(* (packages/controller.go, Reconcile; backend.go, ListPackages;               *)
(* package_cache.go, cachedPackageListing).                                    *)
THEOREM ArtifactsShowInTime == CrawlSpec => []Fresh
<1>1. CrawlTypeOK /\ DropInv /\ FreshInv => Fresh
  BY InvFresh
<1> QED BY <1>1, CrawlInvariant, PTL

(* A crawl that is over, or that has just begun, has nothing that could disagree.      *)
LEMMA IdleAgrees ==
  ASSUME step' \in {"idle", "account"}, crawl'.infos = Idle.infos, crawl'.todo = {}
  PROVE  CrawlAgrees'
<1>1. Idle.infos["image"].tags = 0 /\ Idle.infos["library"].tags = 0
  BY DEF Idle, Nothing, Types
<1> QED BY <1>1 DEF CrawlAgrees, Seen, Tagged

(* What has been read agrees as long as neither it nor the host changes.               *)
LEMMA SameAgrees ==
  ASSUME CrawlAgrees, UNCHANGED <<step, crawl, host, pkgs>> PROVE CrawlAgrees'
BY DEF CrawlAgrees, Seen, Tagged

(* The Packages and caches agree with the host after a step that changes       *)
(* neither.                                                                    *)
LEMMA SameStore ==
  ASSUME StoreAgrees, UNCHANGED <<repo, rcached, pkgs, cpkgs, lag, host>> PROVE StoreAgrees'
BY DEF StoreAgrees, Live, Shows, Orphan

(* Time makes no listing wrong.                                                  *)
LEMMA TimeAgrees ==
  ASSUME CrawlTypeOK, ListingsAgree, TimePasses PROVE ListingsAgree'
<1> SUFFICES ASSUME NEW p \in Pages, listing'[p].age < TTL
             PROVE  listing'[p].val = host'[Of(p)]
  BY DEF ListingsAgree
<1>1. listing[p] \in [val : Versions, age : 0..TTL]
  BY Parts DEF ListingsOK
<1>2. listing'[p] = IF listing[p].age + 1 >= TTL THEN NoListing
                    ELSE [listing[p] EXCEPT !.age = @ + 1]
  BY DEF TimePasses
<1>3. NoListing.age = TTL
  BY DEF NoListing
<1>4. listing[p].age + 1 < TTL
  BY <1>1, <1>2, <1>3, Numbers
<1>5. listing'[p].val = listing[p].val /\ listing[p].age < TTL
  BY <1>1, <1>2, <1>4, Numbers
<1> QED BY <1>5 DEF ListingsAgree, TimePasses

(* A listing that is fetched agrees with the host.                             *)
LEMMA FetchAgrees ==
  ASSUME CrawlTypeOK, ListingsAgree, NEW p \in Pages, UNCHANGED host,
         listing' = listing \/ listing' = Fetched(p)
  PROVE  ListingsAgree'
<1>1. listing \in [Pages -> [val : Versions, age : 0..TTL]]
  BY Parts DEF ListingsOK
<1>2. \A q \in Pages \ {p} : listing'[q] = listing[q]
  BY <1>1 DEF Fetched
<1>3. listing' = Fetched(p) => listing'[p].val = host[Of(p)]
  BY <1>1 DEF Fetched
<1> QED BY <1>2, <1>3 DEF ListingsAgree

(* A listing that is read, from the cache or from the host.                           *)
LEMMA ReadAgrees ==
  ASSUME CrawlTypeOK, CrawlAgrees, NEW p \in Pages, step = p, UNCHANGED <<host, pkgs>>,
         NEW v \in Nat, v = host[Of(p)], Note(p, v), step' = After(p, v)
  PROVE  CrawlAgrees'
<1>1. crawl \in Crawlings /\ "image" \in Types /\ "library" \in Types /\ host[Of(p)] \in Nat
  BY Typed DEF Types, Of
<1>2. CASE p = "versions"
  <2>1. step' = "library" /\ v = host["image"]
    BY <1>2 DEF After, Of
  <2>2. /\ crawl'.infos["image"].meta = crawl.infos["image"].meta
        /\ crawl'.infos["image"].tags = host["image"]
        /\ crawl'.infos["library"] = crawl.infos["library"] /\ crawl'.todo = crawl.todo
    <3>1. /\ crawl'.infos["image"].meta = crawl.infos["image"].meta
          /\ crawl'.infos["image"].tags = v /\ crawl'.todo = crawl.todo
          /\ \A t \in Types \ {"image"} : crawl'.infos[t] = crawl.infos[t]
      BY <1>2, NoteTags
    <3> QED BY <1>1, <2>1, <3>1
  <2>3. crawl.infos["image"].meta = host["image"]
    BY <1>1, <1>2 DEF CrawlAgrees, Seen
  <2> QED BY <2>1, <2>2, <2>3 DEF CrawlAgrees, Seen, Tagged, Types
<1>3. CASE p # "versions"
  <2>1. p \in Types /\ v = host[p]
    BY <1>3 DEF Pages, Types, Of
  <2>2. /\ crawl'.infos[p].meta = v /\ crawl'.infos[p].tags = crawl.infos[p].tags
        /\ crawl'.todo = crawl.todo
        /\ \A t \in Types \ {p} : crawl'.infos[t] = crawl.infos[t]
    BY <1>3, NoteMeta
  <2>3. /\ crawl'.infos["image"].tags = crawl.infos["image"].tags
        /\ crawl'.infos["library"].tags = crawl.infos["library"].tags
    BY <1>1, <2>2
  <2>4. CASE p = "image"
    <3>1. crawl.infos["image"].tags = 0
      BY <2>4 DEF CrawlAgrees, Tagged
    <3>2. \/ host["image"] > 0 /\ step' = "versions"
          \/ host["image"] = 0 /\ step' = "library"
      BY <1>1, <2>1, <2>4 DEF After
    <3> QED BY <2>1, <2>2, <2>3, <2>4, <3>1, <3>2 DEF CrawlAgrees, Seen, Tagged, Types
  <2>5. CASE p = "library"
    <3>1. step' = "list"
      BY <2>5 DEF After
    <3>2. crawl.infos["image"].meta = host["image"] /\ crawl.infos["image"].tags = host["image"]
      BY <1>1, <2>5 DEF CrawlAgrees, Seen, Tagged
    <3>3. crawl'.infos["image"] = crawl.infos["image"]
      BY <1>1, <2>2, <2>5
    <3> QED BY <2>1, <2>2, <2>3, <2>5, <3>1, <3>2, <3>3 DEF CrawlAgrees, Tagged, Types
  <2> QED BY <1>3, <2>4, <2>5 DEF Pages
<1> QED BY <1>2, <1>3

(* The steps of sync find nothing to do.                                            *)
LEMMA SyncAgrees ==
  ASSUME CrawlTypeOK, Agrees, Syncs
  PROVE  UNCHANGED pkgVars /\ CrawlAgrees'
<1>0. /\ crawl \in Crawlings /\ pkgs \in [Types -> Packages] /\ cpkgs \in [Types -> Packages]
      /\ UNCHANGED host
  BY Typed, Parts DEF PackagesOK, Syncs, ListOwned, DeleteStale, Create, UpdateStatus, hostVars
<1>1. CASE ListOwned
  <2>1. /\ UNCHANGED pkgVars /\ step = "list" /\ step' = "delete"
        /\ crawl' = [crawl EXCEPT !.existing = cpkgs, !.stale = lag]
    BY <1>1 DEF ListOwned, Goes
  <2>2. crawl'.existing = pkgs /\ crawl'.infos = crawl.infos /\ crawl'.todo = crawl.todo
    BY <1>0, <2>1 DEF Crawlings, Agrees, StoreAgrees
  <2> QED BY <1>0, <2>1, <2>2 DEF Agrees, CrawlAgrees, Seen, Tagged, pkgVars
<1>2. CASE DeleteStale
  <2>1. step = "delete" /\ crawl.existing = pkgs /\ \A t \in Types : crawl.infos[t].meta = host[t]
    BY <1>2 DEF DeleteStale, Agrees, CrawlAgrees, Seen
  <2>2. Stale = {}
    <3>1. ASSUME NEW t \in Types, pkgs[t] # NoPackage PROVE host[t] > 0
      BY <3>1 DEF Agrees, StoreAgrees, Shows
    <3> QED BY <2>1, <3>1 DEF Stale, Listed
  <2>3. /\ UNCHANGED pkgVars /\ step' = "write"
        /\ crawl' = [crawl EXCEPT !.todo = {t \in Types : Listed(t)}]
    BY <1>2, <2>2 DEF DeleteStale, Goes
  <2>4. {t \in Types : Listed(t)} \in SUBSET Types
    OBVIOUS
  <2>5. /\ crawl'.todo = {t \in Types : Listed(t)} /\ crawl'.existing = crawl.existing
        /\ crawl'.infos = crawl.infos
    BY <1>0, <2>3, <2>4, Planned
  <2>6. \A t \in crawl'.todo : host[t] > 0
    BY <2>1, <2>5 DEF Listed
  <2> QED BY <1>0, <2>1, <2>3, <2>5, <2>6 DEF Agrees, CrawlAgrees, Seen, Tagged, pkgVars
<1>3. ASSUME NEW u \in Types, Create(u) PROVE FALSE
  <2>1. crawl.existing = pkgs /\ crawl.existing[u] = NoPackage /\ host[u] > 0
    BY <1>3 DEF Create, Agrees, CrawlAgrees
  <2> QED BY <2>1 DEF Agrees, StoreAgrees, Shows
<1>4. ASSUME NEW u \in Types, UpdateStatus(u) PROVE UNCHANGED pkgVars /\ CrawlAgrees'
  <2>1. /\ step = "write" /\ crawl.existing = pkgs /\ u \in crawl.todo
        /\ \A t \in Types : crawl.infos[t].meta = host[t]
        /\ crawl.infos["image"].tags = host["image"] /\ crawl.infos["library"].tags = 0
    BY <1>4 DEF UpdateStatus, Agrees, CrawlAgrees, Seen, Tagged
  <2>2. pkgs[u].meta = host[u] /\ pkgs[u].tags = crawl.infos[u].tags
    BY <2>1 DEF Agrees, StoreAgrees, Shows, Types
  <2>3. crawl.infos[u] \in Infos
    BY <1>0, CrawlFields
  <2>4. crawl.infos[u] = [meta |-> pkgs[u].meta, tags |-> pkgs[u].tags]
    BY <2>1, <2>2, <2>3 DEF Infos
  <2>5. StatusEqual(u)
    BY <2>1, <2>4 DEF StatusEqual, Status
  <2>6. UNCHANGED pkgVars /\ step' = "write" /\ crawl' = [crawl EXCEPT !.todo = crawl.todo \ {u}]
    BY <1>4, <2>5 DEF UpdateStatus, Goes, Written
  <2>7. crawl.todo \ {u} \in SUBSET Types
    BY <1>0, CrawlFields
  <2>8. /\ crawl'.todo = crawl.todo \ {u} /\ crawl'.existing = crawl.existing
        /\ crawl'.infos = crawl.infos
    BY <1>0, <2>6, <2>7, Planned
  <2> QED BY <1>0, <2>1, <2>6, <2>8 DEF Agrees, CrawlAgrees, Seen, Tagged, pkgVars
<1> QED BY <1>1, <1>2, <1>3, <1>4 DEF Syncs

(* What MirrorStays says of a step.                                             *)
Stays == Agrees /\ UNCHANGED <<host, repo>> => Agrees' /\ pkgs' = pkgs

(* No step undoes the agreement while host and Repository stay.                *)
LEMMA StepStays == ASSUME CrawlTypeOK, [CrawlNext]_crawlerVars PROVE Stays
<1> SUFFICES ASSUME Agrees, UNCHANGED <<host, repo>> PROVE Agrees' /\ pkgs' = pkgs
  BY DEF Stays
<1>0. StoreAgrees /\ ListingsAgree /\ CrawlAgrees /\ crawl \in Crawlings
  BY Typed DEF Agrees
<1>1. ASSUME UNCHANGED <<rcached, pkgs, cpkgs, lag, listing>>, CrawlAgrees'
      PROVE  Agrees' /\ pkgs' = pkgs
  BY <1>0, <1>1, SameStore DEF Agrees, ListingsAgree
<1>2. ASSUME UNCHANGED <<rcached, pkgs, cpkgs, lag, listing, step, crawl>>
      PROVE  Agrees' /\ pkgs' = pkgs
  BY <1>0, <1>1, <1>2, SameAgrees
<1>3. ASSUME step' = "idle", crawl' = Idle PROVE CrawlAgrees'
  BY <1>3, IdleTodo, IdleAgrees
<1>4. CASE UNCHANGED crawlerVars
  BY <1>2, <1>4 DEF crawlerVars, repoVars, pkgVars, cacheVars, crawlVars
<1>5. CASE Start
  <2>1. UNCHANGED <<rcached, pkgs, cpkgs, lag, listing>>
    BY <1>5 DEF Start, repoVars, pkgVars, cacheVars
  <2>2. CASE step' = "account" /\ crawl' = [Idle EXCEPT !.uid = rcached.uid, !.fresh = Recent]
    <3>1. crawl'.infos = Idle.infos /\ crawl'.todo = {}
      BY <2>2 DEF Idle
    <3> QED BY <1>1, <2>1, <2>2, <3>1, IdleAgrees
  <2>3. CASE UNCHANGED crawlVars
    BY <1>2, <2>1, <2>3 DEF crawlVars
  <2> QED BY <1>5, <2>2, <2>3 DEF Start
<1>6. CASE Classify
  <2>1. UNCHANGED <<rcached, pkgs, cpkgs, lag, listing>> /\ step = "account"
    BY <1>6 DEF Classify, repoVars, pkgVars
  <2>2. CASE step' = "image" /\ crawl' = crawl
    <3>1. CrawlAgrees'
      BY <1>0, <2>1, <2>2 DEF CrawlAgrees, Seen, Tagged
    <3> QED BY <1>1, <2>1, <3>1
  <2>3. CASE step' = "idle" /\ crawl' = Idle
    BY <1>1, <1>3, <2>1, <2>3
  <2> QED BY <1>6, <2>2, <2>3 DEF Classify, Goes, Refused, Ends
<1>7. ASSUME NEW p \in Pages, ReadListing(p) PROVE Agrees' /\ pkgs' = pkgs
  <2>1. UNCHANGED <<rcached, pkgs, cpkgs, lag>> /\ step = p
    BY <1>7 DEF ReadListing, repoVars, pkgVars
  <2>2. listing' = listing \/ listing' = Fetched(p)
    BY <1>7 DEF ReadListing, ListingFails, VersionsMissing
  <2>3. StoreAgrees' /\ ListingsAgree'
    BY <1>0, <2>1, <2>2, SameStore, FetchAgrees
  <2>4. Served(p) => listing[p].val = host[Of(p)]
    BY <1>0 DEF Served, ListingsAgree
  <2>5. \/ Note(p, host[Of(p)]) /\ step' = After(p, host[Of(p)])
        \/ step' = "idle" /\ crawl' = Idle
    BY <1>7, <2>4 DEF ReadListing, Goes, ListingFails, VersionsMissing, Refused, Fails, Ends
  <2>6. host[Of(p)] \in Nat
    BY Typed DEF Of, Types
  <2>7. CrawlAgrees'
    BY <1>0, <1>3, <2>1, <2>5, <2>6, ReadAgrees
  <2> QED BY <2>1, <2>3, <2>7 DEF Agrees
<1>8. CASE Syncs
  <2>1. UNCHANGED pkgVars /\ CrawlAgrees'
    BY <1>8, SyncAgrees
  <2>2. UNCHANGED <<rcached, listing>>
    BY <1>8 DEF Syncs, ListOwned, DeleteStale, Create, UpdateStatus, repoVars, cacheVars
  <2> QED BY <1>1, <2>1, <2>2 DEF pkgVars
<1>9. CASE Finish \/ CrawlFails
  BY <1>1, <1>3, <1>9 DEF Finish, CrawlFails, Ends, repoVars, pkgVars, cacheVars
<1>10. CASE Fire \/ CommitSucceeds \/ LimitBegins \/ Reclassify
  BY <1>2, <1>10 DEF Fire, CommitSucceeds, LimitBegins, Reclassify, repoVars, pkgVars, cacheVars, crawlVars
<1>11. ~SyncRepo /\ \A t \in Types : ~SyncPackage(t) /\ ~Collect(t)
  BY <1>0 DEF SyncRepo, SyncPackage, Collect, StoreAgrees
<1>12. ~DeleteRepo /\ ~ReleaseRepo /\ ~RecreateRepo
  BY <1>0 DEF DeleteRepo, ReleaseRepo, RecreateRepo, StoreAgrees, Live
<1>13. ASSUME NEW t \in Types PROVE ~Publish(t) /\ ~Unpublish(t)
  <2>1. host \in [Types -> Nat] /\ gaps[t] \in Nat
    BY Typed, Parts DEF HostOK, Versions
  <2> QED BY <2>1 DEF Publish, Unpublish
<1>14. ASSUME NEW p \in Pages, OthersCrawl(p) PROVE Agrees' /\ pkgs' = pkgs
  <2>1. UNCHANGED <<rcached, pkgs, cpkgs, lag, step, crawl>> /\ listing' = Fetched(p)
    BY <1>14 DEF OthersCrawl, repoVars, pkgVars, crawlVars
  <2> QED BY <1>0, <2>1, SameStore, SameAgrees, FetchAgrees DEF Agrees
<1>15. CASE Rotate
  <2>1. UNCHANGED <<rcached, pkgs, cpkgs, lag, step, crawl>> /\ listing' = [p \in Pages |-> NoListing]
    BY <1>15 DEF Rotate, repoVars, pkgVars, crawlVars
  <2>2. ListingsAgree'
    BY <2>1, Numbers DEF ListingsAgree, NoListing
  <2> QED BY <1>0, <2>1, <2>2, SameStore, SameAgrees DEF Agrees
<1>16. CASE Restart
  <2>1. /\ rcached' = repo /\ pkgs' = pkgs /\ cpkgs' = pkgs /\ lag' = {} /\ step' = "idle" /\ crawl' = Idle
        /\ listing' = [p \in Pages |-> NoListing]
    BY <1>16 DEF Restart
  <2>2. UNCHANGED <<rcached, pkgs, cpkgs, lag>>
    BY <1>0, <2>1 DEF StoreAgrees
  <2>3. ListingsAgree'
    BY <2>1, Numbers DEF ListingsAgree, NoListing
  <2> QED BY <1>0, <1>3, <2>1, <2>2, <2>3, SameStore DEF Agrees
<1>17. CASE Tick \/ Stall
  <2>1. TimePasses
    BY <1>17 DEF Tick, Stall
  <2>2. UNCHANGED <<rcached, pkgs, cpkgs, lag, step, crawl>>
    BY <2>1 DEF TimePasses, repoVars, pkgVars, crawlVars
  <2> QED BY <1>0, <2>1, <2>2, SameStore, SameAgrees, TimeAgrees DEF Agrees
<1>18. CASE Crawls
  BY <1>5, <1>6, <1>7, <1>8, <1>9, <1>18 DEF Crawls, Syncs
<1>19. CASE CrawlNext /\ ~Crawls
  BY <1>9, <1>10, <1>11, <1>12, <1>13, <1>14, <1>15, <1>16, <1>17, <1>19 DEF CrawlNext
<1> QED BY <1>4, <1>18, <1>19

(* MirrorIsStable: a mirror that agrees with the host is left alone by every   *)
(* crawl, failure, limit, stall, new token and restart until an artifact or the*)
(* Repository changes: packageStatusEqual (packages/controller.go) skips every *)
(* write, so the events of the crawler's own writes cannot keep it writing.    *)
THEOREM MirrorIsStable == CrawlSpec => MirrorStays
<1>1. CrawlTypeOK /\ [CrawlNext]_crawlerVars => [Stays]_crawlerVars
  BY StepStays
<1>2. CrawlSpec => [][Stays]_crawlerVars
  BY <1>1, CrawlTypeCorrect, PTL DEF CrawlSpec
<1> QED BY <1>2 DEF MirrorStays, Stays
==============================================================================
