---------------------------- MODULE ActionCalls ----------------------------
(***************************************************************************)
(* A call of the provider's repository actions (actions/server.go): admitted   *)
(* by one of the process's slots, and by a slot of its own if it handles a      *)
(* snapshot; authorised for the Repository its caller sees; read within a       *)
(* deadline; bound to the same Repository as the provider sees it; then          *)
(* performed, by SnapshotStore and Collaboration.  A scenario says which calls  *)
(* are made; they arrive in any order.                                         *)
(***************************************************************************)
EXTENDS Naturals, Sequences, FiniteSets

CONSTANTS Calls,
          Slots, SnapshotSlots,  \* of the process
          Snaps, Sound,          \* uploads; those that are what they say they are
          Scenarios              \* bounds: a request per call, the pull requests there
                                 \* are, how many events may happen, and of which kinds

Scopes == {"alice", "bob"}       \* callers of one tenant, each with a token
Commits == {"none", "base", "other"} \cup Snaps   \* heads of the branch
EventKinds == {"crash", "drop", "branch", "pull", "checks", "replace", "object"}
Acts == {"none", "stage", "prepare", "publish", "head", "find", "create", "update", "feedback",
         "comment"}

(* at: the head a publication expects, the commit a pull request is to have.          *)
Requests == [act : Acts, scope : Scopes, snap : Snaps, at : Commits]

ASSUME ActionCallsAssumption ==
  /\ {Slots, SnapshotSlots} \subseteq Nat \ {0}
  /\ IsFiniteSet(Calls) /\ "final" \notin Calls
  /\ Sound \subseteq Snaps /\ Snaps \cap {"none", "base", "other"} = {}
  /\ Scenarios \subseteq [requests : [Calls -> Requests], pulls : Nat, events : Nat,
                          kinds : SUBSET EventKinds]

Answers == {"none", "ok", "capacity", "forbidden", "invalid", "unavailable", "conflict",
            "unconfirmed"}

VARIABLES req,                   \* the requests
          call,
          slots, snapshotSlots,  \* in use
          obj,                   \* the tenant's Repository: [uid, spec]; uid 0: gone
          events, kinds          \* left: changes by others, failures, restarts

callVars == <<call, slots, snapshotSlots>>
worldVars == <<req, obj, events, kinds>>

HostSteps == {"verify", "check", "wait", "head", "find", "create", "read", "edit", "before",
              "checks", "reviews", "after", "push", "comment"}
Steps == {"new", "authorize", "admit", "body", "resolve", "perform", "store", "done"} \cup HostSteps

(* next: the step after the identity check.  vis: the Repository at authorisation.      *)
(* known: whether the call has checked the repository's identity, and whether the host  *)
(* replaced the repository since.                                              *)
(* pull, open: the pull request as first read.  got, total: checks collected.          *)
NewCall == [step |-> "new", next |-> "new", vis |-> [uid |-> 0, spec |-> 0], held |-> FALSE,
            known |-> "unchecked", pull |-> "none", open |-> FALSE, got |-> {}, total |-> 0,
            answer |-> "none"]

CallRecords ==
  [step : Steps, next : Steps, vis : [uid : 0..2, spec : 0..4], held : BOOLEAN,
   known : {"unchecked", "checked", "overtaken"},
   pull : Commits, open : BOOLEAN, got : SUBSET Nat, total : Nat, answer : Answers]

CallsTypeOK ==
  /\ req \in [Calls -> Requests] /\ call \in [Calls -> CallRecords]
  /\ slots \in 0..Slots /\ snapshotSlots \in 0..SnapshotSlots
  /\ obj \in [uid : 0..2, spec : 1..4] /\ events \in Nat /\ kinds \subseteq EventKinds

CallsInit ==
  /\ call = [c \in Calls |-> NewCall]
  /\ slots = 0 /\ snapshotSlots = 0
  /\ obj = [uid |-> 1, spec |-> 1]

Event(k) == k \in kinds /\ events > 0 /\ events' = events - 1 /\ UNCHANGED <<req, kinds>>

Goes(c, s) == call' = [call EXCEPT ![c].step = s] /\ UNCHANGED <<slots, snapshotSlots>>

(* Every return gives the slots back.                                           *)
EndsTwice(c, a) ==
  /\ call' = [call EXCEPT ![c].step = "done", ![c].answer = a, ![c].held = FALSE]
  /\ slots' = slots - 1 /\ snapshotSlots' = snapshotSlots - 1
Ends(c, a) ==
  /\ call' = [call EXCEPT ![c] = [NewCall EXCEPT !.step = "done", !.answer = a,
                                                !.known = call[c].known, !.got = call[c].got]]
  /\ slots' = slots - 1
  /\ snapshotSlots' = IF call[c].held THEN snapshotSlots - 1 ELSE snapshotSlots

-----------------------------------------------------------------------------
(* ServeHTTP.                                                                *)

Arrive(c) ==
  /\ call[c].step = "new" /\ req[c].act # "none"
  /\ IF slots < Slots
     THEN /\ slots' = slots + 1 /\ call' = [call EXCEPT ![c].step = "authorize"]
     ELSE /\ call' = [call EXCEPT ![c].step = "done", ![c].answer = "capacity"]
          /\ UNCHANGED slots
  /\ UNCHANGED snapshotSlots

Authorize(c) ==
  /\ call[c].step = "authorize"
  /\ \/ /\ obj.uid # 0
        /\ call' = [call EXCEPT ![c].vis = obj, ![c].step = "admit"]
        /\ UNCHANGED <<slots, snapshotSlots>>
     \/ obj.uid = 0 /\ Ends(c, "forbidden")

Snapshotting(c) == req[c].act \in {"stage", "prepare", "publish"}
RefuseSnapshotKeeps(c) ==
  /\ call' = [call EXCEPT ![c].step = "done", ![c].answer = "capacity"]
  /\ UNCHANGED <<slots, snapshotSlots>>
RefuseSnapshot(c) == Ends(c, "capacity")
AdmitSnapshot(c) ==
  /\ call[c].step = "admit"
  /\ \/ ~Snapshotting(c) /\ Goes(c, "body")
     \/ /\ Snapshotting(c) /\ snapshotSlots < SnapshotSlots
        /\ snapshotSlots' = snapshotSlots + 1
        /\ call' = [call EXCEPT ![c].held = TRUE, ![c].step = "body"]
        /\ UNCHANGED slots
     \/ Snapshotting(c) /\ snapshotSlots = SnapshotSlots /\ RefuseSnapshot(c)

(* readActionRequest: the body arrives within its deadline, or the call ends.          *)
ReadActionRequest(c) ==
  call[c].step = "body" /\ (Goes(c, "resolve") \/ Ends(c, "invalid"))

(* The callers know the first Repository; it is the same one that was authorised.       *)
Resolve(c) ==
  /\ call[c].step = "resolve"
  /\ IF call[c].vis.uid = 1 /\ obj = call[c].vis
     THEN Goes(c, "perform") ELSE Ends(c, "forbidden")

(* A call to the host fails or outlasts the deadline: the outcome is left open.  Of a git   *)
(* that runs on the network only the process itself is killed; what it started may keep   *)
(* the call waiting for as long as the host is silent.                                *)
InGit(c) ==
  \/ call[c].step = "verify"
  \/ call[c].step = "wait" /\ req[c].act = "publish"
Deadline(c) == call[c].step \in HostSteps /\ Ends(c, "unconfirmed")

(* The tenant edits, deletes or recreates the Repository.                            *)
EditObject ==
  /\ Event("object")
  /\ obj' \in {[obj EXCEPT !.spec = @ + 1], [obj EXCEPT !.uid = 0]}
  /\ obj.uid # 0 /\ obj.spec < 4
RecreateObject == Event("object") /\ obj.uid = 0 /\ obj' = [obj EXCEPT !.uid = 2]
=============================================================================
