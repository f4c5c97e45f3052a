----------------------------- MODULE CommitFlow -----------------------------
(***************************************************************************)
(* A commit_files call from the tool to the host: the MCP tool stores a       *)
(* bundle and creates a RepositoryCommit (mcpserver/tools_write.go), the      *)
(* RepositoryCommit controller commits the bundle and records the result      *)
(* (controller/repositorycommit/controller.go), and the bundle store sits     *)
(* between them.                                                             *)
(*                                                                         *)
(* The controller reads through an informer cache that lags behind the API   *)
(* server and writes with the resource version of the cached object, so a     *)
(* write is accepted when the cached copy is the current one ("synced").      *)
(* One worker reconciles one request at a time.  Times are ages that saturate *)
(* beyond the last value the code tells apart.                               *)
(***************************************************************************)
EXTENDS BundleStore

CONSTANTS Requests,
          ContentOf,      \* the content each request commits
          TenantScope,    \* the scope the hub names in X-Railgrid-Tenant
          StorageScope,   \* the logical cluster of the RepositoryCommit
          Arrival,        \* bundleArrivalTimeout
          Window,         \* RepositoryCommitRateLimitWindow
          RetryDelays,    \* waits a rate limit asks for
          Keyed,          \* requests whose commit message takes the idempotency trailer
          MaxCommits,     \* bound: the counts of commits saturate here
          MaxCrashes      \* bound: restarts of the provider

ASSUME FlowAssumption ==
  /\ ContentOf \in [Requests -> Contents]
  /\ TenantScope \in Scopes /\ StorageScope \in Scopes
  /\ None \notin Requests
  /\ Arrival \in Nat \ {0} /\ Window \in Nat \ {0}
  /\ RetryDelays \subseteq Nat \ {0} /\ MaxCrashes \in Nat
  /\ Keyed \subseteq Requests /\ MaxCommits \in Nat

VARIABLES tool,      \* per request: where its commit_files call is
          told,      \* per request: the call's answer
          cr,        \* per request: the RepositoryCommit in the API server
          cached,    \* per request: the controller's cached copy of it
          synced,    \* per request: the cached copy is the current version
          queue,     \* the controller's workqueue
          timer,     \* per request: None or the time left to a delayed requeue
          cur,       \* the request being reconciled, or None
          step,      \* where Reconcile is
          loc,       \* Reconcile's own copy of the status
          delay,     \* the wait Reconcile is about to record
          commits,   \* per request: the commits made for it on the branch
          applied,   \* requests whose changes the branch has had
          findable,  \* requests with a commit, and their key, among the newest of the branch
          finished,  \* history: requests that have had a terminal status
          crashes

toolVars == <<tool, told>>
apiVars == <<cr, cached, synced, finished>>
workVars == <<cur, step, loc, delay>>
branchVars == <<commits, applied, findable>>
vars == <<storeVars, toolVars, apiVars, queue, timer, workVars, branchVars, crashes>>

AgeCap == Arrival + Window

Phases == {"none", "Running", "Succeeded", "Failed"}
Conditions == {"none", "reconciling", "limited", "ready", "error"}
Statuses == [phase : Phases, cond : Conditions, age : (0..AgeCap) \cup {None}]
NoStatus == [phase |-> "none", cond |-> "none", age |-> None]
CRs == [live : BOOLEAN, status : Statuses]
NoCR == [live |-> FALSE, status |-> NoStatus]

ToolSteps == {"put", "create", "store", "unstage", "wait", "done"}
Steps == {"idle", "start", "ensure", "bundle", "commit", "push", "limit", "success", "fail", "cleanup"}
Answers == {"succeeded", "failed", "unfinished", "error"}

TypeOK ==
  /\ StoreTypeOK
  /\ tool \in [Requests -> ToolSteps]
  /\ told \in [Requests -> Answers \cup {"none"}]
  /\ cr \in [Requests -> CRs]
  /\ cached \in [Requests -> CRs]
  /\ synced \in [Requests -> BOOLEAN]
  /\ queue \subseteq Requests
  /\ timer \in [Requests -> Nat \cup {None}]
  /\ cur \in Requests \cup {None}
  /\ step \in Steps
  /\ loc \in Statuses
  /\ delay \in Nat
  /\ commits \in [Requests -> 0..MaxCommits]
  /\ applied \subseteq Requests /\ findable \subseteq Requests
  /\ finished \subseteq Requests
  /\ crashes \in Nat

Init ==
  /\ StoreInit
  /\ tool = [r \in Requests |-> "put"]
  /\ told = [r \in Requests |-> "none"]
  /\ cr = [r \in Requests |-> NoCR]
  /\ cached = [r \in Requests |-> NoCR]
  /\ synced = [r \in Requests |-> TRUE]
  /\ queue = {}
  /\ timer = [r \in Requests |-> None]
  /\ cur = None /\ step = "idle" /\ loc = NoStatus /\ delay = 0
  /\ commits = [r \in Requests |-> 0] /\ applied = {} /\ findable = {}
  /\ finished = {}
  /\ crashes = 0

Terminal(status) == status.phase \in {"Succeeded", "Failed"}

-----------------------------------------------------------------------------
(* commitFiles, the tool.                                                    *)

Answer(r, a) ==
  /\ tool' = [tool EXCEPT ![r] = "done"]
  /\ told' = [told EXCEPT ![r] = a]

Goto(r, t) == tool' = [tool EXCEPT ![r] = t] /\ UNCHANGED told

ToolLeaves == <<judged, queue, timer, workVars, branchVars, finished, crashes>>

(* The bundle is staged under the tenant scope; invalid input and a failed      *)
(* write answer with an error and store nothing.                             *)
StageBundle(r) ==
  /\ tool[r] = "put"
  /\ \/ Put(TenantScope, ContentOf[r]) /\ Goto(r, "create")
     \/ Answer(r, "error") /\ UNCHANGED bundles
  /\ UNCHANGED <<cr, cached, synced, ToolLeaves>>

CreateCommit(r) ==
  /\ tool[r] = "create"
  /\ cr' = [cr EXCEPT ![r].live = TRUE]
  /\ synced' = [synced EXCEPT ![r] = FALSE]
  /\ Goto(r, "store")
  /\ UNCHANGED <<bundles, cached, ToolLeaves>>

(* The create answers with an error, which it may do after it took effect.       *)
CreateFails(r) ==
  /\ tool[r] = "create"
  /\ \/ cr' = [cr EXCEPT ![r].live = TRUE] /\ synced' = [synced EXCEPT ![r] = FALSE]
     \/ UNCHANGED <<cr, synced>>
  /\ Delete(TenantScope, ContentOf[r])
  /\ Answer(r, "error")
  /\ UNCHANGED <<cached, ToolLeaves>>

(* The bundle is stored where the controller looks for it.                    *)
StoreBundle(r) ==
  /\ tool[r] = "store"
  /\ Put(StorageScope, ContentOf[r])
  /\ Goto(r, "unstage")
  /\ UNCHANGED <<cr, cached, synced, ToolLeaves>>

RemoveCR(r) ==
  /\ cr' = [cr EXCEPT ![r].live = FALSE]
  /\ synced' = [synced EXCEPT ![r] = FALSE]

(* The cluster is unknown or the write fails: the request is withdrawn, by a        *)
(* delete whose error nobody looks at.                                       *)
StoreFails(r) ==
  /\ tool[r] = "store"
  /\ RemoveCR(r) \/ UNCHANGED <<cr, synced>>
  /\ Delete(TenantScope, ContentOf[r])
  /\ Answer(r, "error")
  /\ UNCHANGED <<cached, ToolLeaves>>

(* Mutant: the staging copy is deleted even when it is the only copy.            *)
UnstageAlways(r) ==
  /\ tool[r] = "unstage"
  /\ Delete(TenantScope, ContentOf[r])
  /\ Goto(r, "wait")
  /\ UNCHANGED <<cr, cached, synced, ToolLeaves>>

Unstage(r) ==
  /\ tool[r] = "unstage"
  /\ IF TenantScope # StorageScope THEN Delete(TenantScope, ContentOf[r]) ELSE UNCHANGED bundles
  /\ Goto(r, "wait")
  /\ UNCHANGED <<cr, cached, synced, ToolLeaves>>

(* waitRepositoryCommit polls the API server until a terminal phase ...         *)
SeeResult(r) ==
  /\ tool[r] = "wait"
  /\ IF cr[r].live
     THEN /\ Terminal(cr[r].status)
          /\ Answer(r, IF cr[r].status.phase = "Succeeded" THEN "succeeded" ELSE "failed")
     ELSE Answer(r, "error")
  /\ UNCHANGED <<bundles, cr, cached, synced, ToolLeaves>>

(* ... or commitWaitTimeout.                                                 *)
WaitTimesOut(r) ==
  /\ tool[r] = "wait" /\ cr[r].live /\ ~Terminal(cr[r].status)
  /\ Answer(r, "unfinished")
  /\ UNCHANGED <<bundles, cr, cached, synced, ToolLeaves>>

(* The caller goes away: the call's context is cancelled and nothing more that   *)
(* takes the context has an effect.                                          *)
Abandon(r) ==
  /\ tool[r] \in {"create", "store", "unstage", "wait"}
  /\ Goto(r, "done")
  /\ UNCHANGED <<bundles, cr, cached, synced, ToolLeaves>>

(* Somebody deletes the RepositoryCommit, or its Repository's deletion does.   *)
DeleteCommit(r) ==
  /\ cr[r].live /\ tool[r] \in {"wait", "done"}
  /\ RemoveCR(r)
  /\ UNCHANGED <<bundles, cached, toolVars, ToolLeaves>>

-----------------------------------------------------------------------------
(* The controller's machinery: informer, workqueue, clock.                   *)

Sync(r) ==
  /\ ~synced[r]
  /\ cached' = [cached EXCEPT ![r] = cr[r]]
  /\ synced' = [synced EXCEPT ![r] = TRUE]
  /\ queue' = queue \cup {r}
  /\ UNCHANGED <<storeVars, toolVars, cr, finished, timer, workVars, branchVars, crashes>>

TimerFires(r) ==
  /\ timer[r] = 0
  /\ timer' = [timer EXCEPT ![r] = None]
  /\ queue' = queue \cup {r}
  /\ UNCHANGED <<storeVars, toolVars, apiVars, workVars, branchVars, crashes>>

SweepBundle ==
  /\ SweepRemove \/ \E s \in Scopes, c \in Contents : SweepJudge(s, c)
  /\ UNCHANGED <<toolVars, apiVars, queue, timer, workVars, branchVars, crashes>>

(* A tool call gets from one Put to the next in far less than DefaultSweepMaxAge. *)
ToolPrompt ==
  \A r \in Requests :
    tool[r] \in {"create", "store"} /\ Stored(TenantScope, ContentOf[r])
      => bundles[TenantScope][ContentOf[r]] + 1 < MaxAge

AgeStatus(st) == [st EXCEPT !.age = IF @ = None \/ @ = AgeCap THEN @ ELSE @ + 1]

Tick ==
  /\ ToolPrompt
  /\ \A r \in Requests : timer[r] # 0
  /\ AgeBundles
  /\ cr' = [r \in Requests |-> [cr[r] EXCEPT !.status = AgeStatus(@)]]
  /\ cached' = [r \in Requests |-> [cached[r] EXCEPT !.status = AgeStatus(@)]]
  /\ loc' = AgeStatus(loc)
  /\ timer' = [r \in Requests |-> IF timer[r] = None THEN None ELSE timer[r] - 1]
  /\ UNCHANGED <<judged, toolVars, synced, finished, queue, cur, step, delay, branchVars, crashes>>

(* The provider restarts: calls in progress are gone, bundles and objects are    *)
(* not, and the new controller lists every RepositoryCommit.                  *)
Crash ==
  /\ crashes < MaxCrashes
  /\ crashes' = crashes + 1
  /\ tool' = [r \in Requests |-> IF tool[r] = "put" THEN "put" ELSE "done"]
  /\ cached' = cr
  /\ synced' = [r \in Requests |-> TRUE]
  /\ queue' = {r \in Requests : cr[r].live}
  /\ timer' = [r \in Requests |-> None]
  /\ cur' = None /\ step' = "idle" /\ loc' = NoStatus /\ delay' = 0
  /\ judged' = None
  /\ UNCHANGED <<bundles, told, cr, finished, branchVars>>

-----------------------------------------------------------------------------
(* Reconcile.                                                                *)

Idle == cur' = None /\ step' = "idle" /\ loc' = NoStatus /\ delay' = 0

Proceed(s) == step' = s /\ UNCHANGED <<cur, loc, delay>>

(* An error: the workqueue gives the request back.                            *)
Retry == Idle /\ queue' = queue \cup {cur}

RequeueAfter(d) ==
  /\ timer' = [timer EXCEPT ![cur] = IF @ = None \/ d < @ THEN d ELSE @]
  /\ Idle

(* updateStatusIfChanged: a second cached read, no write when it already has     *)
(* the status (a terminal one never does: CompletedAt is new), else a write      *)
(* with the version of that read.                                            *)
Current(st) == cached[cur].live /\ cached[cur].status = st /\ ~Terminal(st)
Accepted(st) == cached[cur].live /\ ~Current(st) /\ synced[cur]

WriteStatus(st) ==
  /\ cr' = [cr EXCEPT ![cur].status = st]
  /\ synced' = [synced EXCEPT ![cur] = FALSE]
  /\ finished' = finished \cup (IF Terminal(st) THEN {cur} ELSE {})
  /\ UNCHANGED cached

Updated(st) == \/ Accepted(st) /\ WriteStatus(st)
               \/ Current(st) /\ UNCHANGED apiVars
Rejected(st) == ~Accepted(st) /\ ~Current(st) /\ UNCHANGED apiVars

Running(st) == [phase |-> "Running", cond |-> "reconciling",
                age |-> IF st.age = None THEN 0 ELSE st.age]
Waiting == [loc EXCEPT !.cond = "limited"]
Success == [loc EXCEPT !.phase = "Succeeded", !.cond = "ready"]
Failure == [loc EXCEPT !.phase = "Failed", !.cond = "error"]

(* The first cached read: a request that is gone or terminal is done.           *)
Reconcile(r) ==
  /\ cur = None /\ r \in queue
  /\ queue' = queue \ {r}
  /\ IF cached[r].live /\ ~Terminal(cached[r].status)
     THEN cur' = r /\ step' = "start" /\ loc' = Running(cached[r].status) /\ delay' = 0
     ELSE UNCHANGED workVars
  /\ UNCHANGED <<storeVars, toolVars, apiVars, timer, branchVars, crashes>>

MarkRunning ==
  /\ step = "start"
  /\ \/ Updated(loc) /\ Proceed("ensure") /\ UNCHANGED queue
     \/ Rejected(loc) /\ Retry
  /\ UNCHANGED <<storeVars, toolVars, timer, branchVars, crashes>>

(* rateLimitRetry: wait as long as the host asks, within the window.            *)
RateLimited(d) ==
  IF loc.age + d <= Window
  THEN step' = "limit" /\ delay' = d /\ UNCHANGED <<cur, loc>>
  ELSE Proceed("fail")

(* A rate limit or another error of the host.                                 *)
CallFails == Proceed("fail") \/ \E d \in RetryDelays : RateLimited(d)

HostUnchanged == <<storeVars, toolVars, apiVars, queue, timer, crashes>>

(* Resolving the repository, connection and credential, then EnsureRepository.   *)
EnsureRepository ==
  /\ step = "ensure"
  /\ Proceed("bundle") \/ CallFails
  /\ UNCHANGED <<HostUnchanged, branchVars>>

(* Mutant: the controller waits for ever.                                       *)
ArrivalNeverTimesOut == FALSE

BundleArrivalTimedOut == loc.age >= Arrival

GetBundle ==
  /\ step = "bundle"
  /\ \/ /\ Stored(StorageScope, ContentOf[cur]) /\ UNCHANGED timer
        /\ Proceed("commit") \/ Proceed("fail")   \* read, or stored but unreadable
     \/ ~Stored(StorageScope, ContentOf[cur]) /\ ~BundleArrivalTimedOut /\ RequeueAfter(1)
     \/ ~Stored(StorageScope, ContentOf[cur]) /\ BundleArrivalTimedOut /\ Proceed("fail") /\ UNCHANGED timer
  /\ UNCHANGED <<storeVars, toolVars, apiVars, queue, branchVars, crashes>>

(* CommitFiles first looks for the request's key in the newest commits of the branch. *)
(* GitCommit has the details.  (Mutant: no look for the key.)                   *)
NoLook(r) == FALSE

KeyFound(r) == r \in findable

LookForKey ==
  /\ step = "commit"
  /\ \/ KeyFound(cur) /\ Proceed("success")
     \/ ~KeyFound(cur) /\ Proceed("push")
     \/ CallFails
  /\ UNCHANGED <<HostUnchanged, branchVars>>

(* A commit for r; it can be found again if its message takes the key.            *)
Land(r) ==
  /\ commits' = [commits EXCEPT ![r] = IF @ = MaxCommits THEN @ ELSE @ + 1]
  /\ applied' = applied \cup {r}
  /\ findable' = findable \cup ({r} \cap Keyed)

(* The branch has what the request asks for already.                          *)
NothingToChange(r) == applied' = applied \cup {r} /\ UNCHANGED <<commits, findable>>

(* The rest of CommitFiles; its commit may have landed when it ends in a rate limit   *)
(* or an error.  (Mutant: its error is dropped.)                               *)
CommitFilesUnchecked ==
  /\ step = "push"
  /\ Land(cur) \/ NothingToChange(cur) \/ UNCHANGED branchVars
  /\ Proceed("success")
  /\ UNCHANGED HostUnchanged

CommitFiles ==
  /\ step = "push"
  /\ \/ (Land(cur) \/ NothingToChange(cur)) /\ Proceed("success")
     \/ (Land(cur) \/ UNCHANGED branchVars) /\ CallFails
  /\ UNCHANGED HostUnchanged

(* Others push until the request's commit is not among those that are searched.    *)
Bury(r) ==
  /\ r \in findable
  /\ findable' = findable \ {r}
  /\ UNCHANGED <<HostUnchanged, workVars, commits, applied>>

RecordWait ==
  /\ step = "limit"
  /\ \/ Updated(Waiting) /\ RequeueAfter(delay) /\ UNCHANGED queue
     \/ Rejected(Waiting) /\ Retry /\ UNCHANGED timer
  /\ UNCHANGED <<storeVars, toolVars, branchVars, crashes>>

RecordResult(st) ==
  /\ \/ Updated(st) /\ Proceed("cleanup") /\ UNCHANGED queue
     \/ Rejected(st) /\ Retry
  /\ UNCHANGED <<storeVars, toolVars, timer, branchVars, crashes>>

RecordSuccess == step = "success" /\ RecordResult(Success)
RecordFailure == step = "fail" /\ RecordResult(Failure)

(* The bundle goes once the result is on record.                              *)
Cleanup ==
  /\ step = "cleanup"
  /\ Delete(StorageScope, ContentOf[cur])
  /\ Idle
  /\ UNCHANGED <<judged, toolVars, apiVars, queue, timer, branchVars, crashes>>

-----------------------------------------------------------------------------
Tool(r) ==
  \/ StageBundle(r) \/ CreateCommit(r) \/ CreateFails(r) \/ StoreBundle(r) \/ StoreFails(r)
  \/ Unstage(r) \/ SeeResult(r) \/ WaitTimesOut(r)

Worker ==
  \/ \E r \in Requests : Reconcile(r)
  \/ MarkRunning \/ EnsureRepository \/ GetBundle \/ LookForKey \/ CommitFiles
  \/ RecordWait \/ RecordSuccess \/ RecordFailure \/ Cleanup

Next ==
  \/ \E r \in Requests :
       Tool(r) \/ Abandon(r) \/ DeleteCommit(r) \/ Bury(r) \/ Sync(r) \/ TimerFires(r)
  \/ Worker \/ SweepBundle \/ Tick \/ Crash

Spec == Init /\ [][Next]_vars

(* The tool, the informer, the workqueue's worker, its timers, the sweeper and    *)
(* the clock all go on; callers, other writers, deletions and crashes need not    *)
(* happen.                                                                  *)
Fairness ==
  /\ \A r \in Requests : WF_vars(Tool(r)) /\ WF_vars(Sync(r)) /\ WF_vars(TimerFires(r))
  /\ WF_vars(Worker) /\ WF_vars(SweepBundle) /\ WF_vars(Tick)

FairSpec == Spec /\ Fairness

-----------------------------------------------------------------------------
(* Properties.                                                               *)

(* Promise: the flow implements CommitPromise: across retries, rate limits and      *)
(* restarts a request is committed again only when its commit cannot be found any    *)
(* more, and a caller that is told "succeeded" has its changes on the branch.      *)
Promise == INSTANCE CommitPromise
ImplementsPromise == Promise!Spec

(* HonestSuccess: a status Succeeded is never on record, nor about to be, for a    *)
(* request whose changes have not been on the branch.                         *)
HonestSuccess ==
  /\ \A r \in Requests : cr[r].status.phase = "Succeeded" => r \in applied
  /\ step = "success" => cur \in applied

(* A request the controller may still have to serve from its bundle, and whose caller *)
(* has not been told that it could not be made.                               *)
Needs(r) == cr[r].live /\ r \notin finished /\ told[r] # "error"

(* BundleNotLost: the bundle of a pending request goes only because it is as old   *)
(* as the sweeper's limit, never because of another request or a retry.        *)
BundleNotLost ==
  [][\A r \in Requests :
       LET s == StorageScope
           c == ContentOf[r] IN
       Needs(r) /\ Needs(r)' /\ Stored(s, c) /\ ~Stored(s, c)' => bundles[s][c] = MaxAge]_vars

(* KeptUntilCommitted: "this store owns the scoped bytes until the controller commits  *)
(* them" (commitbundle/store.go:19): once every call has stored its bundle and none   *)
(* has failed, a pending request loses its bundle to its age only.               *)
KeptUntilCommitted ==
  [][\A r \in Requests :
       LET s == StorageScope
           c == ContentOf[r] IN
       /\ Needs(r) /\ Needs(r)'
       /\ \A q \in Requests : tool[q] \in {"unstage", "wait", "done"} /\ told'[q] # "error"
       /\ Stored(s, c) /\ ~Stored(s, c)'
       => bundles[s][c] = MaxAge]_vars

(* Settles: every RepositoryCommit reaches a terminal status or is deleted.      *)
Settles ==
  \A r \in Requests : cr[r].live ~> (Terminal(cr[r].status) \/ ~cr[r].live)

(* Reclaimed: no bundle stays on disk for ever, whatever was abandoned, deleted    *)
(* or interrupted by a restart.                                              *)
Reclaimed ==
  \A s \in Scopes, c \in Contents : Stored(s, c) ~> ~Stored(s, c)
=============================================================================
