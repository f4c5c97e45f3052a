--------------------------- MODULE OneShotRequest ---------------------------
(***************************************************************************)
(* The transient requests: RepositoryCheckout, which hands a tree to the       *)
(* checkout_repository tool through a bundle, and RepositoryBuildStatus, which   *)
(* reads a workflow run or dispatches a rerun.  A tool creates the object,       *)
(* waits for its controller to record a terminal status, and deletes the object. *)
(* The tools are mcpserver/tools_checkout.go and tools_buildstatus.go, the       *)
(* controllers controller/repositorycheckout and controller/repositorybuildstatus. *)
(*                                                                         *)
(* Each kind has one controller with one worker.  It reads through an informer    *)
(* cache and writes with the version of the cached copy, as in CommitFlow, but    *)
(* any failure is final and nothing on the host tells a repeated request from a    *)
(* first one.                                                                *)
(***************************************************************************)
EXTENDS BundleStore

CONSTANTS Requests,
          KindChoices,   \* the kinds requests may have: functions from requests to Kinds
          Scope,         \* the logical cluster of the requests
          MaxCrashes     \* bound: restarts of the provider

Kinds == {"checkout", "status", "rerun"}

ASSUME OneShotAssumption ==
  /\ KindChoices \subseteq [Requests -> Kinds]
  /\ Scope \in Scopes /\ None \notin Requests /\ None \notin Contents
  /\ MaxCrashes \in Nat

VARIABLES kind,        \* per request: what it asks for
          call,        \* per request: where the tool's call is
          told,        \* per request: the call's answer
          got,         \* per request: the bundle the tool reads and returns
          cr,          \* per request: the object in the API server
          cached,      \* per request: the controller's cached copy
          synced,      \* per request: the cached copy is the current version
          queue,       \* the controller's workqueue
          cur,         \* the request being reconciled, or None
          step,        \* where Reconcile is
          tree,        \* the tree Reconcile has read
          fetched,     \* per request: the trees read for it
          dispatched,  \* per request: workflow dispatches (2: two or more)
          crashes

toolVars == <<call, told, got>>
apiVars == <<cr, cached, synced>>
workVars == <<cur, step, tree>>
hostVars == <<fetched, dispatched>>
vars == <<kind, storeVars, toolVars, apiVars, queue, workVars, hostVars, crashes>>

(* status.phase and status.bundleRef.                                         *)
Statuses == [phase : {"none", "Running", "Succeeded", "Failed"}, bundle : Contents \cup {None}]
Status(phase, c) == [phase |-> phase, bundle |-> c]
CRs == [live : BOOLEAN, status : Statuses]
NoCR == [live |-> FALSE, status |-> Status("none", None)]
Calls == {"create", "wait", "read", "reclaim", "drop", "done"}
Steps == {"idle", "start", "host", "put", "success", "reclaim", "fail"}

TypeOK ==
  /\ StoreTypeOK
  /\ kind \in [Requests -> Kinds]
  /\ call \in [Requests -> Calls]
  /\ told \in [Requests -> {"none", "ok", "error"}]
  /\ got \in [Requests -> Contents \cup {None}]
  /\ cr \in [Requests -> CRs] /\ cached \in [Requests -> CRs]
  /\ synced \in [Requests -> BOOLEAN]
  /\ queue \subseteq Requests
  /\ cur \in Requests \cup {None} /\ step \in Steps /\ tree \in Contents \cup {None}
  /\ fetched \in [Requests -> SUBSET Contents] /\ dispatched \in [Requests -> 0..2]
  /\ crashes \in 0..MaxCrashes

Init ==
  /\ StoreInit
  /\ kind \in KindChoices
  /\ call = [r \in Requests |-> "create"]
  /\ told = [r \in Requests |-> "none"]
  /\ got = [r \in Requests |-> None]
  /\ cr = [r \in Requests |-> NoCR] /\ cached = [r \in Requests |-> NoCR]
  /\ synced = [r \in Requests |-> TRUE]
  /\ queue = {} /\ cur = None /\ step = "idle" /\ tree = None
  /\ fetched = [r \in Requests |-> {}] /\ dispatched = [r \in Requests |-> 0]
  /\ crashes = 0

isTerminal(status) == status.phase \in {"Succeeded", "Failed"}

-----------------------------------------------------------------------------
(* The tool: checkoutRepository, runBuildStatusRequest.                        *)

Move(r, s) == call' = [call EXCEPT ![r] = s]
Answer(r, a, s) == told' = [told EXCEPT ![r] = a] /\ Move(r, s) /\ UNCHANGED got
ToolLeaves == <<kind, judged, cached, queue, workVars, hostVars, crashes>>

AddCR(r) ==
  /\ cr' = [cr EXCEPT ![r].live = TRUE]
  /\ synced' = [synced EXCEPT ![r] = FALSE]

RemoveCR(r) ==
  /\ cr' = [cr EXCEPT ![r].live = FALSE]
  /\ synced' = [synced EXCEPT ![r] = FALSE]

(* A call that fails before the object exists, or whose Create took effect with    *)
(* the answer lost, ends without the deferred deletion.                        *)
Create(r) ==
  /\ call[r] = "create"
  /\ \/ AddCR(r) /\ Move(r, "wait") /\ UNCHANGED <<told, got>>
     \/ AddCR(r) /\ Answer(r, "error", "done")
     \/ Answer(r, "error", "done") /\ UNCHANGED <<cr, synced>>
  /\ UNCHANGED <<bundles, ToolLeaves>>

(* waitRepositoryCheckout, waitRepositoryBuildStatus: a poll sees a terminal phase.  *)
SeeResult(r) ==
  /\ call[r] = "wait" /\ cr[r].live /\ isTerminal(cr[r].status)
  /\ \/ /\ cr[r].status.phase = "Succeeded" /\ kind[r] = "checkout"
        /\ got' = [got EXCEPT ![r] = cr[r].status.bundle]
        /\ Move(r, "read") /\ UNCHANGED told
     \/ cr[r].status.phase = "Succeeded" /\ kind[r] # "checkout" /\ Answer(r, "ok", "drop")
     \/ cr[r].status.phase = "Failed" /\ Answer(r, "error", "drop")
  /\ UNCHANGED <<bundles, cr, synced, ToolLeaves>>

(* The object is gone, a poll or the bundle's read fails, the wait times out or the  *)
(* caller goes away.                                                         *)
GiveUp(r) ==
  /\ call[r] \in {"wait", "read"}
  /\ told' = [told EXCEPT ![r] = "error"] /\ Move(r, "drop")
  /\ got' = [got EXCEPT ![r] = None]
  /\ UNCHANGED <<bundles, cr, synced, ToolLeaves>>

ReadBundle(r) ==
  /\ call[r] = "read" /\ Stored(Scope, got[r])
  /\ Answer(r, "ok", "reclaim")
  /\ UNCHANGED <<bundles, cr, synced, ToolLeaves>>

(* The deferred deletions, the bundle's first; their errors are ignored.          *)
ReclaimBundle(r) ==
  /\ call[r] = "reclaim"
  /\ Delete(Scope, got[r]) \/ UNCHANGED bundles
  /\ Move(r, "drop")
  /\ UNCHANGED <<told, got, cr, synced, ToolLeaves>>

DropRequest(r) ==
  /\ call[r] = "drop"
  /\ RemoveCR(r) \/ UNCHANGED <<cr, synced>>
  /\ Move(r, "done")
  /\ UNCHANGED <<told, got, bundles, ToolLeaves>>

-----------------------------------------------------------------------------
(* Reconcile.                                                                *)

Proceed(s) == step' = s /\ UNCHANGED <<cur, tree>>
Idle == cur' = None /\ step' = "idle" /\ tree' = None
Retry == Idle /\ queue' = queue \cup {cur}
WorkLeaves == <<kind, toolVars, judged, crashes>>

Running == Status("Running", None)

(* updateStatusIfChanged: a second cached read; no write if the status is there (a   *)
(* terminal one never is: CompletedAt is new), else a write with that version.       *)
Current(st) == cached[cur].live /\ cached[cur].status = st /\ ~isTerminal(st)
Accepted(st) == cached[cur].live /\ ~Current(st) /\ synced[cur]
Updated(st) ==
  \/ /\ Accepted(st)
     /\ cr' = [cr EXCEPT ![cur].status = st]
     /\ synced' = [synced EXCEPT ![cur] = FALSE]
     /\ UNCHANGED cached
  \/ Current(st) /\ UNCHANGED apiVars
Rejected(st) == ~Accepted(st) /\ ~Current(st) /\ UNCHANGED apiVars

(* A request that is gone or terminal in the cache is done.  (Mutant: and so is one    *)
(* that is Running, as if another worker had it.)                              *)
ReconcileNew(r) ==
  /\ cur = None /\ r \in queue
  /\ queue' = queue \ {r}
  /\ IF cached[r].live /\ cached[r].status.phase = "none"
     THEN cur' = r /\ step' = "start" /\ tree' = None
     ELSE UNCHANGED workVars
  /\ UNCHANGED <<WorkLeaves, bundles, apiVars, hostVars>>

Reconcile(r) ==
  /\ cur = None /\ r \in queue
  /\ queue' = queue \ {r}
  /\ IF cached[r].live /\ ~isTerminal(cached[r].status)
     THEN cur' = r /\ step' = "start" /\ tree' = None
     ELSE UNCHANGED workVars
  /\ UNCHANGED <<WorkLeaves, bundles, apiVars, hostVars>>

MarkRunning ==
  /\ step = "start"
  /\ \/ Updated(Running) /\ Proceed("host") /\ UNCHANGED queue
     \/ Rejected(Running) /\ Retry
  /\ UNCHANGED <<WorkLeaves, bundles, hostVars>>

(* The repository, connection, backend or credential does not resolve, or the host   *)
(* call fails without effect.                                                 *)
HostFails ==
  /\ step = "host"
  /\ Proceed("fail")
  /\ UNCHANGED <<WorkLeaves, bundles, apiVars, queue, hostVars>>

(* The branch may be anywhere.                                               *)
CheckoutFiles(c) ==
  /\ step = "host" /\ kind[cur] = "checkout"
  /\ tree' = c /\ step' = "put" /\ UNCHANGED cur
  /\ fetched' = [fetched EXCEPT ![cur] = @ \cup {c}]
  /\ UNCHANGED <<WorkLeaves, bundles, apiVars, queue, dispatched>>

(* The dispatch may have happened when its answer is an error.  (Mutant: its error is  *)
(* dropped.)                                                                 *)
Dispatch == dispatched' = [dispatched EXCEPT ![cur] = IF @ = 2 THEN 2 ELSE @ + 1]

DispatchUnchecked ==
  /\ step = "host" /\ kind[cur] = "rerun"
  /\ Dispatch \/ UNCHANGED dispatched
  /\ Proceed("success")
  /\ UNCHANGED <<WorkLeaves, bundles, apiVars, queue, fetched>>

DispatchWorkflow ==
  /\ step = "host" /\ kind[cur] = "rerun"
  /\ Dispatch
  /\ Proceed("success") \/ Proceed("fail")
  /\ UNCHANGED <<WorkLeaves, bundles, apiVars, queue, fetched>>

LatestWorkflowRun ==
  /\ step = "host" /\ kind[cur] = "status"
  /\ Proceed("success")
  /\ UNCHANGED <<WorkLeaves, bundles, apiVars, queue, hostVars>>

PutBundle ==
  /\ step = "put"
  /\ \/ Put(Scope, tree) /\ Proceed("success")
     \/ Proceed("fail") /\ UNCHANGED bundles
  /\ UNCHANGED <<WorkLeaves, apiVars, queue, hostVars>>

RecordSuccess ==
  /\ step = "success"
  /\ \/ Updated(Status("Succeeded", tree)) /\ Idle /\ UNCHANGED queue
     \/ /\ Rejected(Status("Succeeded", tree))
        /\ IF kind[cur] = "checkout" THEN Proceed("reclaim") /\ UNCHANGED queue ELSE Retry
  /\ UNCHANGED <<WorkLeaves, bundles, hostVars>>

(* The bundle whose reference could not be recorded goes; an error is ignored.      *)
DropBundle ==
  /\ step = "reclaim"
  /\ Delete(Scope, tree) \/ UNCHANGED bundles
  /\ Retry
  /\ UNCHANGED <<WorkLeaves, apiVars, hostVars>>

fail ==
  /\ step = "fail"
  /\ \/ Updated(Status("Failed", None)) /\ Idle /\ UNCHANGED queue
     \/ Rejected(Status("Failed", None)) /\ Retry
  /\ UNCHANGED <<WorkLeaves, bundles, hostVars>>

-----------------------------------------------------------------------------
(* The informer, the sweeper, the clock and restarts.                         *)

Sync(r) ==
  /\ ~synced[r]
  /\ cached' = [cached EXCEPT ![r] = cr[r]]
  /\ synced' = [synced EXCEPT ![r] = TRUE]
  /\ queue' = queue \cup {r}
  /\ UNCHANGED <<WorkLeaves, bundles, cr, workVars, hostVars>>

SweepBundle ==
  /\ SweepRemove \/ \E c \in Contents : SweepJudge(Scope, c)
  /\ UNCHANGED <<kind, toolVars, apiVars, queue, workVars, hostVars, crashes>>

Tick ==
  /\ AgeBundles
  /\ UNCHANGED <<WorkLeaves, apiVars, queue, workVars, hostVars>>

(* Calls in progress are gone; the new controller lists every request.           *)
Crash ==
  /\ crashes < MaxCrashes /\ crashes' = crashes + 1
  /\ call' = [r \in Requests |-> IF call[r] = "create" THEN "create" ELSE "done"]
  /\ cached' = cr /\ synced' = [r \in Requests |-> TRUE]
  /\ queue' = {r \in Requests : cr[r].live}
  /\ Idle /\ judged' = None
  /\ UNCHANGED <<kind, told, got, bundles, cr, hostVars>>

-----------------------------------------------------------------------------
Tool(r) ==
  \/ Create(r) \/ SeeResult(r) \/ GiveUp(r) \/ ReadBundle(r)
  \/ ReclaimBundle(r) \/ DropRequest(r)

Worker ==
  \/ \E r \in Requests : Reconcile(r)
  \/ \E c \in Contents : CheckoutFiles(c)
  \/ MarkRunning \/ HostFails \/ DispatchWorkflow \/ LatestWorkflowRun
  \/ PutBundle \/ RecordSuccess \/ DropBundle \/ fail

Next ==
  \/ \E r \in Requests : Tool(r) \/ Sync(r)
  \/ Worker \/ SweepBundle \/ Tick \/ Crash

Spec == Init /\ [][Next]_vars

(* The informer, the worker, the sweeper and the clock go on.  Nothing is assumed of      *)
(* callers or of the host.                                                     *)
Fairness ==
  /\ \A r \in Requests : WF_vars(Sync(r))
  /\ WF_vars(Worker) /\ WF_vars(SweepBundle) /\ WF_vars(Tick)

FairSpec == Spec /\ Fairness

-----------------------------------------------------------------------------
(* Properties.                                                               *)

(* HonestAnswer: a caller told that its rerun was dispatched has had one, and a        *)
(* caller that gets files gets a tree read from the host for its own request,         *)
(* although bundles are shared by content and statuses are overwritten.          *)
HonestAnswer ==
  \A r \in Requests :
    told[r] = "ok" => CASE kind[r] = "rerun" -> dispatched[r] > 0
                        [] kind[r] = "checkout" -> got[r] \in fetched[r]
                        [] OTHER -> TRUE

(* Settles: every request reaches a terminal status or is deleted, whatever writes     *)
(* are lost to a stale cache.                                                 *)
Settles == \A r \in Requests : cr[r].live ~> (isTerminal(cr[r].status) \/ ~cr[r].live)

(* DispatchedOnce: "Reconcile performs the request once and records the terminal        *)
(* result" (repositorybuildstatus/controller.go:52).                            *)
DispatchedOnce == \A r \in Requests : dispatched[r] <= 1
=============================================================================
