---------------------------- MODULE ActionsServer ----------------------------
(***************************************************************************)
(* The provider Actions server: concurrent calls (ActionCalls) over the staged   *)
(* snapshots (SnapshotStore) and the host (Collaboration), with crashes.         *)
(***************************************************************************)
EXTENDS SnapshotStore, Collaboration

vars == <<callVars, worldVars, storeVars, hostVars>>

TypeOK == CallsTypeOK /\ StoreTypeOK /\ HostTypeOK

Init ==
  /\ CallsInit /\ StoreInit
  /\ \E s \in Scenarios :
       req = s.requests /\ events = s.events /\ kinds = s.kinds /\ HostInit(s.pulls)

(* A step of ServeHTTP, of the store, of the backend.                             *)
Serves(c) ==
  /\ Authorize(c) \/ AdmitSnapshot(c) \/ ReadActionRequest(c) \/ Resolve(c) \/ Deadline(c)
  /\ UNCHANGED <<worldVars, storeVars, hostVars>>
Stores(c) ==
  /\ Stage(c) \/ Rename(c) \/ StoreFails(c) \/ Load(c)
  /\ UNCHANGED <<worldVars, hostVars>>
Collaborates(c) ==
  \/ Reads(c) /\ UNCHANGED <<worldVars, storeVars, hostVars>>
  \/ Send(c) /\ UNCHANGED <<worldVars, storeVars, host, did, moves, restores, astray>>
Works(c) == Serves(c) \/ Stores(c) \/ Collaborates(c)

Arrives(c) == Arrive(c) /\ UNCHANGED <<worldVars, storeVars, hostVars>>
Delivers(c) == Deliver(c) /\ UNCHANGED <<worldVars, storeVars>>

(* A request to the host is lost.                                              *)
Drop(c) ==
  /\ c \in sent /\ sent' = sent \ {c} /\ Event("drop")
  /\ UNCHANGED <<callVars, obj, storeVars, host, did, moves, restores, astray>>

(* The process ends: its calls get no answer, its files stay.                       *)
Crash ==
  /\ Event("crash")
  /\ call' = [c \in Calls |-> IF call[c].step \in {"new", "done"} THEN call[c]
                              ELSE [NewCall EXCEPT !.step = "done", !.known = call[c].known]]
  /\ slots' = 0 /\ snapshotSlots' = 0
  /\ UNCHANGED <<obj, storeVars, hostVars>>

OthersAct ==
  /\ \/ /\ Event("branch") /\ \E h \in {"none", "base", "other"} : MoveBranch(h)
        /\ UNCHANGED callVars
     \/ Event("pull") /\ ClosePull /\ UNCHANGED <<callVars, restores>>
     \/ /\ Event("checks") /\ (AddCheck \/ \E i \in DOMAIN host.checks : Rerun(i))
        /\ UNCHANGED <<callVars, restores>>
     \/ Event("replace") /\ Replace /\ UNCHANGED <<slots, snapshotSlots, restores>>
  /\ UNCHANGED <<obj, storeVars, sent, did, moves, astray>>
TenantActs ==
  (EditObject \/ RecreateObject) /\ UNCHANGED <<callVars, storeVars, hostVars>>
TimePasses == Tick /\ UNCHANGED <<callVars, worldVars, hostVars>>

Next ==
  \/ \E c \in Calls : Arrives(c) \/ Works(c) \/ Delivers(c) \/ Drop(c)
  \/ Crash \/ OthersAct \/ TenantActs \/ TimePasses

Spec == Init /\ [][Next]_vars

(* A call that was admitted goes on: what it waits for has a deadline, except git.       *)
FairSpec == Spec /\ \A c \in Calls : WF_vars(Works(c) /\ ~InGit(c))

-----------------------------------------------------------------------------
(* Properties.                                                               *)

Told(c, acts) == req[c].act \in acts /\ call[c].answer = "ok"

(* SlotsReturned: whatever ends the calls (refusals, bodies that never arrive, a host that *)
(* does not answer, a crash), no slot of either kind stays taken but those of the calls    *)
(* that git keeps ("Keep it until completion, including any Git subprocess", server.go:104; *)
(* "Each provider process admits eight actions, with at most one snapshot action", README). *)
HeldByGit == Cardinality({c \in Calls : InGit(c)})
SlotsReturned == <>[](slots = HeldByGit /\ snapshotSlots = HeldByGit)

(* Quota: the files of a tenant, of all its callers and those a crash left behind         *)
(* included, stay within both quotas ("quotas bound each tenant to 16 artifacts and      *)
(* 256 MiB", README).                                                        *)
Quota == Cardinality(files) <= MaxCount /\ Bytes(files) <= MaxBytes

(* PublishesStaged: the branch gets a snapshot only by the call of a caller who staged it  *)
(* under the same token, and only one that is what it says it is.                   *)
PublishesStaged ==
  [][\A s \in Snaps : host'.head = s /\ host.head # s =>
       /\ s \in Sound
       /\ \E c \in sent \ sent' : req[c].snap = s /\ <<req[c].scope, s>> \in staged]_vars

(* LandsOnce: a snapshot is put on the branch once, however often it is published after     *)
(* lost answers and late pushes, unless others put the branch back in between.          *)
LandsOnce == \A s \in Snaps : moves[s] <= 1 + restores

(* FeedbackComplete: feedback that is answered lacks no check there was, although checks      *)
(* run again and new ones start while its pages are read, unless it shows two runs of one    *)
(* check (pages that shift twice can give the run before and the one after, and hide         *)
(* another check).                                                          *)
NameOf(id) == ((id - 1) % 4) + 1
TwoRunsOfOne(ids) == \E i, j \in ids : i # j /\ NameOf(i) = NameOf(j)
FeedbackComplete ==
  \A c \in Calls : Told(c, {"feedback"}) =>
    \/ {1, 2, 3} \subseteq {NameOf(id) : id \in call[c].got}
    \/ TwoRunsOfOne(call[c].got)

(* ActsAsBound: a call changes a repository other than its own only if that one took the     *)
(* name after the call's last identity check, and a caller told that its pull request was    *)
(* created or updated has one with the commit it named, although the branch may move         *)
(* between the checks and the write.                                             *)
ActsAsBound ==
  /\ astray = {}
  /\ \A c \in Calls : Told(c, {"create", "update"}) => did[c] = req[c].at
=============================================================================
