-------------------------- MODULE CommitFlowProofs --------------------------
(***************************************************************************)
(* Proofs about CommitFlow, for every number of requests, every assignment   *)
(* of contents and scopes, and every value of the time bounds.               *)
(***************************************************************************)
EXTENDS CommitFlow, TLAPS

-----------------------------------------------------------------------------
(* Statuses stay statuses.                                                   *)

(* AgedStatus: the passing of time keeps a status a status, and its phase.     *)
LEMMA AgedStatus ==
  ASSUME NEW st \in Statuses
  PROVE  /\ AgeStatus(st) \in Statuses
         /\ AgeStatus(st).phase = st.phase
  BY FlowAssumption, StoreAssumption DEF AgeStatus, Statuses, AgeCap

(* RunningStatus: what Reconcile starts from is a Running status with a start time. *)
LEMMA RunningStatus ==
  ASSUME NEW st \in Statuses
  PROVE  Running(st) \in Statuses /\ Running(st).phase = "Running"
  BY FlowAssumption, StoreAssumption DEF Running, Statuses, Phases, Conditions, AgeCap

(* ResultStatuses: the three statuses a Reconcile may end with are statuses.      *)
LEMMA ResultStatuses ==
  ASSUME loc \in Statuses
  PROVE  /\ Waiting \in Statuses /\ Waiting.phase = loc.phase
         /\ Success \in Statuses /\ Success.phase = "Succeeded"
         /\ Failure \in Statuses /\ Failure.phase = "Failed"
  BY DEF Waiting, Success, Failure, Statuses, Phases, Conditions

(* StoreSteps: the store's operations keep its type.                           *)
LEMMA StoreSteps ==
  ASSUME StoreTypeOK, NEW s \in Scopes, NEW c \in Contents
  PROVE  /\ Put(s, c) => bundles' \in [Scopes -> [Contents -> (0..MaxAge) \cup {None}]]
         /\ Delete(s, c) => bundles' \in [Scopes -> [Contents -> (0..MaxAge) \cup {None}]]
  BY StoreAssumption DEF StoreTypeOK, Put, Delete

LEMMA StoreAges ==
  ASSUME StoreTypeOK, AgeBundles
  PROVE  bundles' \in [Scopes -> [Contents -> (0..MaxAge) \cup {None}]]
<1>1. \A a \in (0..MaxAge) \cup {None} : Older(a) \in (0..MaxAge) \cup {None}
  BY StoreAssumption DEF Older
<1> QED BY <1>1 DEF StoreTypeOK, AgeBundles

-----------------------------------------------------------------------------
(* Type correctness.                                                         *)

LEMMA InitTyped == Init => TypeOK
  BY FlowAssumption, StoreAssumption
  DEF Init, StoreInit, TypeOK, StoreTypeOK, NoCR, NoStatus, CRs, Statuses, Phases, Conditions,
      ToolSteps, Steps, Answers

(* RemovedTyped: a deletion leaves a typed API server.                          *)
LEMMA RemovedTyped ==
  ASSUME TypeOK, NEW r \in Requests, RemoveCR(r)
  PROVE  cr' \in [Requests -> CRs] /\ synced' \in [Requests -> BOOLEAN]
<1>1. [cr[r] EXCEPT !.live = FALSE] \in CRs
  BY DEF TypeOK, CRs
<1>2. cr' = [cr EXCEPT ![r] = [cr[r] EXCEPT !.live = FALSE]]
  BY DEF RemoveCR, TypeOK
<1>3. cr \in [Requests -> CRs] /\ synced \in [Requests -> BOOLEAN]
  BY DEF TypeOK
<1> QED BY <1>1, <1>2, <1>3 DEF RemoveCR

LEMMA CreatedTyped ==
  ASSUME TypeOK, NEW r \in Requests, cr' = [cr EXCEPT ![r].live = TRUE]
  PROVE  cr' \in [Requests -> CRs]
<1>1. [cr[r] EXCEPT !.live = TRUE] \in CRs
  BY DEF TypeOK, CRs
<1>2. cr' = [cr EXCEPT ![r] = [cr[r] EXCEPT !.live = TRUE]]
  BY DEF TypeOK
<1>3. cr \in [Requests -> CRs] BY DEF TypeOK
<1> QED BY <1>1, <1>2, <1>3

(* ToolTyped: the steps of a commit_files call.                                *)
LEMMA ToolTyped ==
  ASSUME TypeOK, NEW r \in Requests, Tool(r) \/ Abandon(r) \/ DeleteCommit(r)
  PROVE  TypeOK'
<1> USE FlowAssumption DEF Goto, Answer, ToolLeaves, workVars, branchVars, toolVars, ToolSteps, Answers
<1>1. /\ ContentOf[r] \in Contents /\ TenantScope \in Scopes /\ StorageScope \in Scopes
      /\ StoreTypeOK
  BY DEF TypeOK
<1>2. CASE StageBundle(r)
  <2>1. StoreTypeOK' BY <1>1, <1>2, StoreSteps DEF StageBundle, StoreTypeOK
  <2> QED BY <1>2, <2>1 DEF StageBundle, TypeOK
<1>3. CASE CreateCommit(r)
  BY <1>3 DEF CreateCommit, TypeOK, StoreTypeOK, CRs
<1>4. CASE CreateFails(r)
  <2>1. cr' \in [Requests -> CRs] /\ synced' \in [Requests -> BOOLEAN]
    <3>1. CASE cr' = [cr EXCEPT ![r].live = TRUE] /\ synced' = [synced EXCEPT ![r] = FALSE]
      BY <3>1, CreatedTyped DEF TypeOK
    <3>2. CASE UNCHANGED <<cr, synced>> BY <3>2 DEF TypeOK
    <3> QED BY <1>4, <3>1, <3>2 DEF CreateFails
  <2> QED BY <1>1, <1>4, <2>1, StoreSteps DEF CreateFails, TypeOK, StoreTypeOK
<1>5. CASE StoreBundle(r)
  BY <1>1, <1>5, StoreSteps DEF StoreBundle, TypeOK, StoreTypeOK
<1>6. CASE StoreFails(r)
  <2>1. cr' \in [Requests -> CRs] /\ synced' \in [Requests -> BOOLEAN]
    BY <1>6, RemovedTyped DEF StoreFails, TypeOK
  <2> QED BY <1>1, <1>6, <2>1, StoreSteps DEF StoreFails, TypeOK, StoreTypeOK
<1>7. CASE Unstage(r)
  BY <1>1, <1>7, StoreSteps DEF Unstage, TypeOK, StoreTypeOK
<1>8. CASE SeeResult(r)
  BY <1>8 DEF SeeResult, TypeOK, StoreTypeOK
<1>9. CASE WaitTimesOut(r)
  BY <1>9 DEF WaitTimesOut, TypeOK, StoreTypeOK
<1>10. CASE Abandon(r)
  BY <1>10 DEF Abandon, TypeOK, StoreTypeOK
<1>11. CASE DeleteCommit(r)
  <2>1. cr' \in [Requests -> CRs] /\ synced' \in [Requests -> BOOLEAN]
    BY <1>11, RemovedTyped DEF DeleteCommit
  <2> QED BY <1>11, <2>1 DEF DeleteCommit, TypeOK, StoreTypeOK
<1> QED
  BY <1>2, <1>3, <1>4, <1>5, <1>6, <1>7, <1>8, <1>9, <1>10, <1>11 DEF Tool

(* MachineTyped: informer, timers, sweeper, clock and restarts.                 *)
LEMMA MachineTyped ==
  ASSUME TypeOK,
         (\E r \in Requests : Bury(r) \/ Sync(r) \/ TimerFires(r)) \/ SweepBundle \/ Tick \/ Crash
  PROVE  TypeOK'
<1> USE FlowAssumption, StoreAssumption DEF storeVars, toolVars, apiVars, workVars, branchVars
<1>0. ASSUME NEW r \in Requests, Bury(r) PROVE TypeOK'
  BY <1>0 DEF Bury, HostUnchanged, TypeOK, StoreTypeOK
<1>1. ASSUME NEW r \in Requests, Sync(r) PROVE TypeOK'
  BY <1>1 DEF Sync, TypeOK, StoreTypeOK
<1>2. ASSUME NEW r \in Requests, TimerFires(r) PROVE TypeOK'
  BY <1>2 DEF TimerFires, TypeOK, StoreTypeOK
<1>3. CASE SweepBundle
  <2>1. ASSUME NEW s \in Scopes, NEW c \in Contents, SweepJudge(s, c) PROVE StoreTypeOK'
    BY <2>1 DEF SweepJudge, TypeOK, StoreTypeOK
  <2>2. ASSUME SweepRemove PROVE StoreTypeOK'
    <3>1. judged[1] \in Scopes /\ judged[2] \in Contents /\ StoreTypeOK
      BY <2>2 DEF SweepRemove, TypeOK, StoreTypeOK
    <3> QED BY <2>2, <3>1, StoreSteps DEF SweepRemove, StoreTypeOK
  <2> QED BY <1>3, <2>1, <2>2 DEF SweepBundle, TypeOK
<1>4. CASE Tick
  <2>1. StoreTypeOK' BY <1>4, StoreAges DEF Tick, TypeOK, StoreTypeOK
  <2>2. loc' \in Statuses BY <1>4, AgedStatus DEF Tick, TypeOK
  <2>3. \A x \in CRs : [x EXCEPT !.status = AgeStatus(@)] \in CRs
    BY AgedStatus DEF CRs
  <2>4. cr' \in [Requests -> CRs] /\ cached' \in [Requests -> CRs]
    BY <1>4, <2>3 DEF Tick, TypeOK
  <2>5. timer' \in [Requests -> Nat \cup {None}]
    <3>1. /\ timer' = [r \in Requests |-> IF timer[r] = None THEN None ELSE timer[r] - 1]
          /\ \A r \in Requests : timer[r] # 0
      BY <1>4 DEF Tick
    <3>2. \A r \in Requests : timer[r] \in Nat \cup {None}
      BY DEF TypeOK
    <3> QED BY <3>1, <3>2
  <2> QED BY <1>4, <2>1, <2>2, <2>4, <2>5 DEF Tick, TypeOK
<1>5. CASE Crash
  BY <1>5 DEF Crash, TypeOK, StoreTypeOK, NoStatus, Statuses, Phases, Conditions, ToolSteps, Steps
<1> QED BY <1>0, <1>1, <1>2, <1>3, <1>4, <1>5

(* UpdatedTyped: a status written by updateStatusIfChanged.                     *)
LEMMA UpdatedTyped ==
  ASSUME TypeOK, cur \in Requests, NEW st \in Statuses, Updated(st) \/ Rejected(st)
  PROVE  /\ cr' \in [Requests -> CRs] /\ cached' \in [Requests -> CRs]
         /\ synced' \in [Requests -> BOOLEAN] /\ finished' \subseteq Requests
<1>1. CASE Accepted(st) /\ WriteStatus(st)
  BY <1>1 DEF WriteStatus, TypeOK, CRs
<1>2. CASE UNCHANGED apiVars
  BY <1>2 DEF apiVars, TypeOK
<1> QED BY <1>1, <1>2 DEF Updated, Rejected

(* Working: Reconcile has a request and a Running status exactly while it is not idle. *)
Working ==
  /\ cur = None <=> step = "idle"
  /\ cur # None => loc.phase = "Running"

LEMMA WorkerTyped ==
  ASSUME TypeOK, Working, Worker
  PROVE  TypeOK' /\ Working'
<1> USE FlowAssumption, StoreAssumption DEF storeVars, toolVars, workVars, branchVars, HostUnchanged
<1>a. NoStatus \in Statuses BY DEF NoStatus, Statuses, Phases, Conditions
<1>b. Idle => cur' = None /\ step' = "idle" /\ loc' \in Statuses /\ delay' \in Nat
  BY <1>a DEF Idle
<1>c. step # "idle" => cur \in Requests BY DEF Working, TypeOK
<1>d. loc \in Statuses BY DEF TypeOK
<1>1. ASSUME NEW r \in Requests, Reconcile(r) PROVE TypeOK' /\ Working'
  <2>1. cached[r].status \in Statuses BY DEF TypeOK, CRs
  <2> QED BY <1>1, <2>1, RunningStatus
          DEF Reconcile, apiVars, TypeOK, StoreTypeOK, Working, Steps
<1>2. CASE MarkRunning
  <2>1. cur \in Requests BY <1>2, <1>c DEF MarkRunning
  <2> QED BY <1>2, <1>b, <1>d, <2>1, UpdatedTyped
          DEF MarkRunning, Proceed, Retry, TypeOK, StoreTypeOK, Working, Steps
<1>3. CASE EnsureRepository
  BY <1>3 DEF EnsureRepository, apiVars, Proceed, CallFails, RateLimited, TypeOK, StoreTypeOK,
              Working, Steps
<1>4. CASE GetBundle
  <2>1. cur \in Requests BY <1>4, <1>c DEF GetBundle
  <2> QED BY <1>4, <1>b, <2>1
          DEF GetBundle, apiVars, Proceed, RequeueAfter, TypeOK, StoreTypeOK, Working, Steps
<1>4a. CASE LookForKey
  BY <1>4a DEF LookForKey, apiVars, Proceed, CallFails, RateLimited, TypeOK, StoreTypeOK,
               Working, Steps
<1>5. CASE CommitFiles
  <2>1. cur \in Requests BY <1>5, <1>c DEF CommitFiles
  <2>2. Land(cur) => commits' \in [Requests -> 0..MaxCommits]
    BY <2>1 DEF Land, TypeOK
  <2>3. /\ commits' \in [Requests -> 0..MaxCommits]
        /\ applied' \subseteq Requests /\ findable' \subseteq Requests
    BY <1>5, <2>1, <2>2 DEF CommitFiles, Land, NothingToChange, TypeOK
  <2> QED BY <1>5, <2>1, <2>3
          DEF CommitFiles, apiVars, Proceed, CallFails, RateLimited, TypeOK, StoreTypeOK,
              Working, Steps
<1>6. CASE RecordWait
  <2>1. cur \in Requests BY <1>6, <1>c DEF RecordWait
  <2>2. Waiting \in Statuses BY <1>d, ResultStatuses
  <2>3. /\ cr' \in [Requests -> CRs] /\ cached' \in [Requests -> CRs]
        /\ synced' \in [Requests -> BOOLEAN] /\ finished' \subseteq Requests
    BY <1>6, <2>1, <2>2, UpdatedTyped DEF RecordWait
  <2>4. timer' \in [Requests -> Nat \cup {None}] /\ queue' \subseteq Requests
    BY <1>6, <2>1 DEF RecordWait, RequeueAfter, Retry, TypeOK
  <2> QED BY <1>6, <1>b, <2>3, <2>4
          DEF RecordWait, RequeueAfter, Retry, TypeOK, StoreTypeOK, Working, Steps
<1>7. ASSUME NEW st \in Statuses, step # "idle", RecordResult(st) PROVE TypeOK' /\ Working'
  <2>1. cur \in Requests BY <1>7, <1>c
  <2> QED BY <1>7, <1>b, <2>1, UpdatedTyped
          DEF RecordResult, Proceed, Retry, TypeOK, StoreTypeOK, Working, Steps
<1>8. CASE RecordSuccess
  BY <1>8, <1>7, <1>d, ResultStatuses DEF RecordSuccess
<1>9. CASE RecordFailure
  BY <1>9, <1>7, <1>d, ResultStatuses DEF RecordFailure
<1>10. CASE Cleanup
  <2>1. cur \in Requests BY <1>10, <1>c DEF Cleanup
  <2>2. ContentOf[cur] \in Contents /\ StorageScope \in Scopes /\ StoreTypeOK
    BY <2>1 DEF TypeOK
  <2> QED BY <1>10, <1>b, <2>2, StoreSteps
          DEF Cleanup, apiVars, TypeOK, StoreTypeOK, Working, Steps
<1> QED BY <1>1, <1>2, <1>3, <1>4, <1>4a, <1>5, <1>6, <1>8, <1>9, <1>10 DEF Worker

(* TypedStep: TypeOK is not inductive by itself: a step of Reconcile needs to know    *)
(* that it has a request in hand.                                            *)
LEMMA TypedStep ==
  ASSUME TypeOK, Working, [Next]_vars
  PROVE  TypeOK' /\ Working'
<1>1. CASE Worker BY <1>1, WorkerTyped
<1>2. ASSUME NEW r \in Requests, Tool(r) \/ Abandon(r) \/ DeleteCommit(r)
      PROVE  TypeOK' /\ Working'
  <2>1. UNCHANGED workVars
    BY <1>2 DEF Tool, StageBundle, CreateCommit, CreateFails, StoreBundle, StoreFails, Unstage,
                SeeResult, WaitTimesOut, Abandon, DeleteCommit, ToolLeaves
  <2> QED BY <1>2, <2>1, ToolTyped DEF Working, workVars
<1>3. ASSUME NEW r \in Requests, Bury(r) \/ Sync(r) \/ TimerFires(r) PROVE TypeOK' /\ Working'
  BY <1>3, MachineTyped DEF Bury, Sync, TimerFires, Working, workVars
<1>4. CASE SweepBundle
  BY <1>4, MachineTyped DEF SweepBundle, Working, workVars
<1>5. CASE Tick
  <2>1. loc'.phase = loc.phase /\ UNCHANGED <<cur, step>>
    BY <1>5, AgedStatus DEF Tick, TypeOK
  <2> QED BY <1>5, <2>1, MachineTyped DEF Working
<1>6. CASE Crash
  BY <1>6, MachineTyped DEF Crash, Working
<1>7. CASE UNCHANGED vars
  BY <1>7 DEF vars, storeVars, toolVars, apiVars, workVars, branchVars, TypeOK, StoreTypeOK, Working
<1> QED BY <1>1, <1>2, <1>3, <1>4, <1>5, <1>6, <1>7 DEF Next

LEMMA InitWorking == Init => Working
  BY DEF Init, Working

(* TypeCorrect: every variable of the flow keeps its type, in particular the        *)
(* retry timers never go below zero and a start time never exceeds its cap.       *)
THEOREM TypeCorrect == Spec => []TypeOK
<1>1. Init => TypeOK /\ Working BY InitTyped, InitWorking
<1>2. TypeOK /\ Working /\ [Next]_vars => TypeOK' /\ Working' BY TypedStep
<1> QED BY <1>1, <1>2, PTL DEF Spec

-----------------------------------------------------------------------------
(* The promise: no commit that can be found is made again, one honest answer.   *)

(* Landings: what can be found on the branch has been applied, and so has a request   *)
(* that is Succeeded or about to be; CommitFiles creates a commit only for a request   *)
(* that cannot be found.                                                     *)
Landings ==
  /\ findable \subseteq applied
  /\ \A r \in Requests : cr[r].status.phase = "Succeeded" => r \in applied
  /\ step = "success" => cur \in applied
  /\ step = "push" => cur \notin findable

(* Untold: a call that has not ended has told its caller nothing.               *)
Untold == \A r \in Requests : tool[r] # "done" => told[r] = "none"

PromiseInv == TypeOK /\ Working /\ Landings /\ Untold

(* A step that lands nothing, changes no phase and does not begin to record a success    *)
(* or to create a commit.                                                    *)
LEMMA QuietLandings ==
  ASSUME Landings, UNCHANGED <<commits, applied>>, findable' \subseteq findable,
         \A r \in Requests : cr'[r].status.phase = cr[r].status.phase,
         step' \in {"success", "push"} => step' = step /\ cur' = cur
  PROVE  Landings'
  BY DEF Landings

(* A status written by Reconcile is Succeeded only in step "success".           *)
LEMMA WrittenPhase ==
  ASSUME TypeOK, cur \in Requests, NEW st \in Statuses, Updated(st) \/ Rejected(st)
  PROVE  \A r \in Requests :
           cr'[r].status.phase = cr[r].status.phase \/ (r = cur /\ cr'[r].status.phase = st.phase)
<1>1. CASE Accepted(st) /\ WriteStatus(st)
  BY <1>1 DEF WriteStatus, TypeOK, CRs
<1>2. CASE UNCHANGED apiVars
  BY <1>2 DEF apiVars
<1> QED BY <1>1, <1>2 DEF Updated, Rejected

LEMMA WorkerLandings ==
  ASSUME TypeOK, Working, Landings, Worker
  PROVE  Landings'
<1> USE DEF branchVars
<1>a. step # "idle" => cur \in Requests /\ loc.phase = "Running"
  BY DEF Working, TypeOK
<1>b. loc \in Statuses BY DEF TypeOK
<1>1. ASSUME NEW r \in Requests, Reconcile(r) PROVE Landings'
  BY <1>1, QuietLandings DEF Reconcile, apiVars, workVars
<1>2. CASE MarkRunning
  <2>1. cur \in Requests /\ loc.phase = "Running" BY <1>2, <1>a DEF MarkRunning
  <2>2. \A r \in Requests : cr'[r].status.phase \in {cr[r].status.phase, "Running"}
    BY <1>2, <1>b, <2>1, WrittenPhase DEF MarkRunning
  <2> QED BY <1>2, <2>2 DEF MarkRunning, Proceed, Retry, Idle, Landings
<1>3. CASE EnsureRepository
  BY <1>3, QuietLandings
  DEF EnsureRepository, HostUnchanged, apiVars, Proceed, CallFails, RateLimited
<1>4. CASE GetBundle
  BY <1>4, QuietLandings DEF GetBundle, apiVars, Proceed, RequeueAfter, Idle
<1>4a. CASE LookForKey
  BY <1>4a DEF LookForKey, KeyFound, HostUnchanged, apiVars, Proceed, CallFails, RateLimited,
               Landings
<1>5. CASE CommitFiles
  <2>1. UNCHANGED <<cr, cur>> /\ step' # "push" /\ applied \subseteq applied'
    BY <1>5 DEF CommitFiles, HostUnchanged, apiVars, Proceed, CallFails, RateLimited, Land,
                NothingToChange
  <2>2. findable' \subseteq applied'
    BY <1>5 DEF CommitFiles, Land, NothingToChange, Landings
  <2>3. step' = "success" => cur \in applied'
    BY <1>5 DEF CommitFiles, Proceed, CallFails, RateLimited, Land, NothingToChange
  <2> QED BY <2>1, <2>2, <2>3 DEF Landings
<1>6. CASE RecordWait
  <2>1. cur \in Requests /\ loc.phase = "Running" BY <1>6, <1>a DEF RecordWait
  <2>2. \A r \in Requests : cr'[r].status.phase \in {cr[r].status.phase, "Running"}
    BY <1>6, <1>b, <2>1, WrittenPhase, ResultStatuses DEF RecordWait
  <2> QED BY <1>6, <2>2 DEF RecordWait, RequeueAfter, Retry, Idle, Landings
<1>7. CASE RecordSuccess
  <2>1. cur \in Requests /\ cur \in applied BY <1>7, <1>a DEF RecordSuccess, Landings
  <2>2. \A r \in Requests : cr'[r].status.phase = cr[r].status.phase \/ r = cur
    BY <1>7, <1>b, <2>1, WrittenPhase, ResultStatuses DEF RecordSuccess, RecordResult
  <2> QED BY <1>7, <2>1, <2>2 DEF RecordSuccess, RecordResult, Proceed, Retry, Idle, Landings
<1>8. CASE RecordFailure
  <2>1. cur \in Requests BY <1>8, <1>a DEF RecordFailure
  <2>2. \A r \in Requests : cr'[r].status.phase \in {cr[r].status.phase, "Failed"}
    BY <1>8, <1>b, <2>1, WrittenPhase, ResultStatuses DEF RecordFailure, RecordResult
  <2> QED BY <1>8, <2>2 DEF RecordFailure, RecordResult, Proceed, Retry, Idle, Landings
<1>9. CASE Cleanup
  BY <1>9, QuietLandings DEF Cleanup, apiVars, Idle
<1> QED BY <1>1, <1>2, <1>3, <1>4, <1>4a, <1>5, <1>6, <1>7, <1>8, <1>9 DEF Worker

(* OthersLandings: what everybody else does, Reconcile aside.                   *)
LEMMA OthersLandings ==
  ASSUME TypeOK, Landings, [Next]_vars, ~Worker
  PROVE  Landings' /\ (UNCHANGED branchVars \/ \E r \in Requests : Bury(r))
<1> USE DEF branchVars
<1>0. ASSUME NEW r \in Requests, Bury(r) PROVE Landings'
  BY <1>0, QuietLandings DEF Bury, HostUnchanged, apiVars, workVars
<1>1. ASSUME NEW r \in Requests, Tool(r) \/ Abandon(r) \/ DeleteCommit(r)
      PROVE  Landings' /\ UNCHANGED branchVars
  <2>1. UNCHANGED <<commits, applied, findable, step, cur>>
    BY <1>1 DEF Tool, StageBundle, CreateCommit, CreateFails, StoreBundle, StoreFails, Unstage,
                SeeResult, WaitTimesOut, Abandon, DeleteCommit, ToolLeaves, workVars
  <2>2. \/ UNCHANGED cr
        \/ \E b \in BOOLEAN : cr' = [cr EXCEPT ![r].live = b]
    BY <1>1 DEF Tool, StageBundle, CreateCommit, CreateFails, StoreBundle, StoreFails, Unstage,
                SeeResult, WaitTimesOut, Abandon, DeleteCommit, RemoveCR
  <2>3. \A q \in Requests : cr'[q].status = cr[q].status
    BY <2>2 DEF TypeOK, CRs
  <2> QED BY <2>1, <2>3, QuietLandings
<1>2. ASSUME NEW r \in Requests, Sync(r) \/ TimerFires(r) PROVE Landings' /\ UNCHANGED branchVars
  BY <1>2, QuietLandings DEF Sync, TimerFires, apiVars, workVars
<1>3. CASE SweepBundle
  BY <1>3, QuietLandings DEF SweepBundle, apiVars, workVars
<1>4. CASE Tick
  <2>1. UNCHANGED <<commits, applied, findable, step, cur>> BY <1>4 DEF Tick
  <2>2. \A r \in Requests : cr[r].status \in Statuses BY DEF TypeOK, CRs
  <2>3. \A r \in Requests : cr'[r].status = AgeStatus(cr[r].status)
    <3>1. cr' = [r \in Requests |-> [cr[r] EXCEPT !.status = AgeStatus(@)]] BY <1>4 DEF Tick
    <3>2. \A r \in Requests : cr[r] \in CRs BY DEF TypeOK
    <3> QED BY <3>1, <3>2 DEF CRs
  <2> QED BY <2>1, <2>2, <2>3, AgedStatus, QuietLandings
<1>5. CASE Crash
  BY <1>5, QuietLandings DEF Crash
<1>6. CASE UNCHANGED vars
  BY <1>6, QuietLandings DEF vars, apiVars, workVars
<1> QED BY <1>0, <1>1, <1>2, <1>3, <1>4, <1>5, <1>6 DEF Next

(* Only a tool call that is still open speaks to its caller, and it says "succeeded"  *)
(* only when it reads a Succeeded status.                                    *)
LEMMA ToldStep ==
  ASSUME TypeOK, Untold, [Next]_vars
  PROVE  /\ Untold'
         /\ \/ UNCHANGED told
            \/ \E r \in Requests, a \in Answers :
                 /\ tool[r] # "done"
                 /\ told' = [told EXCEPT ![r] = a]
                 /\ a = "succeeded" => cr[r].status.phase = "Succeeded"
                 /\ UNCHANGED branchVars
<1>1. ASSUME NEW r \in Requests, NEW a \in Answers, tool[r] # "done", Answer(r, a)
      PROVE  Untold'
  BY <1>1 DEF Answer, Untold, TypeOK
<1>2. ASSUME NEW r \in Requests, NEW t, tool[r] # "done", Goto(r, t) PROVE Untold'
  BY <1>2 DEF Goto, Untold, TypeOK
<1>3. ASSUME NEW r \in Requests, Tool(r)
      PROVE  \/ \E a \in Answers : /\ tool[r] # "done" /\ Answer(r, a) /\ UNCHANGED branchVars
                                   /\ a = "succeeded" => cr[r].status.phase = "Succeeded"
             \/ \E t \in ToolSteps : tool[r] # "done" /\ Goto(r, t)
  BY <1>3 DEF Tool, StageBundle, CreateCommit, CreateFails, StoreBundle, StoreFails, Unstage,
              SeeResult, WaitTimesOut, Answers, ToolSteps, ToolLeaves
<1>4. ASSUME NEW r \in Requests, Abandon(r)
      PROVE  tool[r] # "done" /\ Goto(r, "done")
  BY <1>4 DEF Abandon
<1>5. ASSUME NEW r \in Requests, DeleteCommit(r) \/ Bury(r) \/ Sync(r) \/ TimerFires(r)
      PROVE  UNCHANGED <<tool, told>>
  BY <1>5 DEF DeleteCommit, Bury, HostUnchanged, Sync, TimerFires, toolVars
<1>6. ASSUME SweepBundle \/ Tick \/ UNCHANGED vars PROVE UNCHANGED <<tool, told>>
  BY <1>6 DEF SweepBundle, Tick, vars, toolVars
<1>7. ASSUME Worker PROVE UNCHANGED <<tool, told>>
  BY <1>7 DEF Worker, Reconcile, MarkRunning, EnsureRepository, GetBundle, LookForKey, CommitFiles,
              RecordWait,
              RecordSuccess, RecordFailure, RecordResult, Cleanup, HostUnchanged, toolVars
<1>8. ASSUME Crash PROVE Untold' /\ UNCHANGED told
  BY <1>8 DEF Crash, Untold
<1> QED
  BY <1>1, <1>2, <1>3, <1>4, <1>5, <1>6, <1>7, <1>8 DEF Next, Untold, Answer, Goto

LEMMA PromiseInvInit == Init => PromiseInv
  BY InitTyped, InitWorking DEF Init, PromiseInv, Landings, Untold, NoCR, NoStatus

LEMMA PromiseInvStep == PromiseInv /\ [Next]_vars => PromiseInv'
<1> SUFFICES ASSUME PromiseInv, [Next]_vars PROVE PromiseInv' OBVIOUS
<1>1. TypeOK' /\ Working' BY TypedStep DEF PromiseInv
<1>2. Landings' BY WorkerLandings, OthersLandings DEF PromiseInv
<1>3. Untold' BY ToldStep DEF PromiseInv
<1> QED BY <1>1, <1>2, <1>3 DEF PromiseInv

LEMMA PromiseInvHolds == Spec => []PromiseInv
  BY PromiseInvInit, PromiseInvStep, PTL DEF Spec

(* SuccessIsHonest: the branch has had the changes of every RepositoryCommit recorded    *)
(* as Succeeded, through every rate limit, retry, restart and lost write.              *)
THEOREM SuccessIsHonest == Spec => []HonestSuccess
<1>1. PromiseInv => HonestSuccess BY DEF PromiseInv, Landings, HonestSuccess
<1> QED BY <1>1, PromiseInvHolds, PTL

(* A step of the flow is a step of CommitPromise or leaves its variables alone.    *)
LEMMA PromiseStep ==
  PromiseInv /\ [Next]_vars => [Promise!Next]_<<commits, applied, findable, told>>
<1> SUFFICES ASSUME PromiseInv, [Next]_vars
             PROVE  [Promise!Next]_<<commits, applied, findable, told>>
  OBVIOUS
<1> USE DEF PromiseInv, branchVars
<1>1. CASE Worker
  <2>1. UNCHANGED told
    BY <1>1 DEF Worker, Reconcile, MarkRunning, EnsureRepository, GetBundle, LookForKey,
                CommitFiles, RecordWait, RecordSuccess, RecordFailure, RecordResult, Cleanup,
                HostUnchanged, toolVars
  <2>2. \/ UNCHANGED branchVars
        \/ step = "push" /\ (Land(cur) \/ NothingToChange(cur))
    BY <1>1 DEF Worker, Reconcile, MarkRunning, EnsureRepository, GetBundle, LookForKey,
                CommitFiles, RecordWait, RecordSuccess, RecordFailure, RecordResult, Cleanup
  <2>3. ASSUME step = "push" PROVE cur \in Requests /\ cur \notin findable
    BY <2>3 DEF Working, TypeOK, Landings
  <2>4. ASSUME step = "push", Land(cur) PROVE Promise!Next
    <3>1. Promise!Land(cur) BY <2>1, <2>3, <2>4 DEF Land, Promise!Land
    <3> QED BY <2>3, <2>4, <3>1 DEF Promise!Next
  <2>5. ASSUME step = "push", NothingToChange(cur) PROVE Promise!Next
    <3>1. Promise!Find(cur) BY <2>1, <2>5 DEF NothingToChange, Promise!Find
    <3> QED BY <2>3, <2>5, <3>1 DEF Promise!Next
  <2> QED BY <2>1, <2>2, <2>4, <2>5
<1>2. ASSUME NEW r \in Requests, Bury(r) PROVE Promise!Next
  <2>1. Promise!Bury(r) BY <1>2 DEF Bury, HostUnchanged, toolVars, Promise!Bury
  <2> QED BY <2>1 DEF Promise!Next
<1>3. CASE ~Worker /\ ~(\E r \in Requests : Bury(r))
  <2>1. UNCHANGED branchVars BY <1>3, OthersLandings
  <2>2. CASE UNCHANGED told BY <2>1, <2>2
  <2>3. ASSUME NEW r \in Requests, NEW a \in Answers, tool[r] # "done",
               told' = [told EXCEPT ![r] = a], a = "succeeded" => cr[r].status.phase = "Succeeded"
        PROVE  Promise!Next
    <3>1. told[r] = "none" /\ (a = "succeeded" => r \in applied)
      BY <2>3 DEF Untold, Landings
    <3>2. Promise!Tell(r, a) BY <2>1, <2>3, <3>1 DEF Promise!Tell
    <3> QED BY <3>2 DEF Promise!Next, Promise!Answers, Answers
  <2> QED BY <2>2, <2>3, ToldStep
<1> QED BY <1>1, <1>2, <1>3

(* FlowImplementsPromise: the whole flow - tool, controller, store, sweeper, retries    *)
(* and restarts - does what CommitPromise says: a commit whose key can be found is not  *)
(* made again, one answer per call, and "succeeded" only after the changes.       *)
THEOREM FlowImplementsPromise == Spec => ImplementsPromise
<1>1. Init => Promise!Init BY DEF Init, Promise!Init
<1> QED BY <1>1, PromiseInvHolds, PromiseStep, PTL DEF Spec, ImplementsPromise, Promise!Spec

-----------------------------------------------------------------------------
(* The bundle of a pending request, when no two requests have the same content.    *)

OwnContents == \A q, r \in Requests : ContentOf[q] = ContentOf[r] => q = r

(* A content that no scope holds and the sweeper is not about to remove.          *)
Unused(c) == \A s \in Scopes : bundles[s][c] = None /\ judged # <<s, c>>

(* A staged content: a recent copy under the tenant scope at most.               *)
Staged(c) ==
  /\ \A s \in Scopes : s # TenantScope => bundles[s][c] = None
  /\ bundles[TenantScope][c] # MaxAge
  /\ \A s \in Scopes : judged # <<s, c>>

(* BundleInv: before its first Put a request's content is unused; until its last Put the  *)
(* sweeper has not judged it, so what the sweeper has judged is still old when it is    *)
(* removed; a controller that cleans up has put a terminal status on record.       *)
BundleInv ==
  /\ \A r \in Requests : tool[r] = "put" => Unused(ContentOf[r])
  /\ \A r \in Requests : tool[r] \in {"create", "store"} => Staged(ContentOf[r])
  /\ \A r \in Requests : tool[r] \in {"put", "create"} => ~cr[r].live
  /\ \A s \in Scopes, c \in Contents : judged = <<s, c>> => bundles[s][c] \in {None, MaxAge}
  /\ step = "cleanup" => cur \in finished

(* Loses(r): the step takes the bundle of r although it is not old.              *)
Loses(r) ==
  /\ Needs(r) /\ Needs(r)'
  /\ Stored(StorageScope, ContentOf[r]) /\ ~Stored(StorageScope, ContentOf[r])'
  /\ bundles[StorageScope][ContentOf[r]] # MaxAge

(* A step that leaves the store alone, closes calls or goes on in them, and makes no       *)
(* object of a call that has not created it.                                 *)
LEMMA QuietBundles ==
  ASSUME BundleInv, UNCHANGED storeVars,
         \A r \in Requests : tool'[r] \in {tool[r], "unstage", "wait", "done"},
         \A r \in Requests : tool[r] \in {"put", "create"} => cr'[r].live = cr[r].live,
         step' = "cleanup" => cur' \in finished'
  PROVE  BundleInv' /\ \A r \in Requests : ~Loses(r)
  BY DEF BundleInv, Unused, Staged, storeVars, Loses, Stored

(* Deleting a bundle never breaks the invariant.                              *)
LEMMA DeletedBundles ==
  ASSUME TypeOK, NEW s \in Scopes, NEW c \in Contents, Delete(s, c), judged' \in {judged, None}
  PROVE  /\ \A d \in Contents : Unused(d) => Unused(d)'
         /\ \A d \in Contents : Staged(d) => Staged(d)'
         /\ \A t \in Scopes, d \in Contents :
              bundles'[t][d] = IF t = s /\ d = c THEN None ELSE bundles[t][d]
<1>1. \A t \in Scopes, d \in Contents :
        bundles'[t][d] = IF t = s /\ d = c THEN None ELSE bundles[t][d]
  BY DEF Delete, TypeOK, StoreTypeOK
<1>2. \A t \in Scopes, d \in Contents : None # <<t, d>>
  BY StoreAssumption
<1>3. None # MaxAge BY StoreAssumption
<1> QED BY <1>1, <1>2, <1>3, FlowAssumption DEF Unused, Staged

LEMMA ToolBundles ==
  ASSUME OwnContents, TypeOK, BundleInv,
         NEW r \in Requests, Tool(r) \/ Abandon(r) \/ DeleteCommit(r)
  PROVE  BundleInv' /\ \A q \in Requests : ~Loses(q)
<1> USE FlowAssumption
<1> DEFINE c == ContentOf[r]
<1>a. c \in Contents /\ TenantScope \in Scopes /\ StorageScope \in Scopes
  OBVIOUS
<1>b. \A q \in Requests : q # r => ContentOf[q] # c
  BY DEF OwnContents
<1>c. \A q \in Requests : ContentOf[q] \in Contents
  OBVIOUS
<1>d. UNCHANGED <<judged, step, cur, finished>>
  BY DEF Tool, StageBundle, CreateCommit, CreateFails, StoreBundle, StoreFails, Unstage,
         SeeResult, WaitTimesOut, Abandon, DeleteCommit, ToolLeaves, workVars
<1>e. MaxAge # 0 /\ None # MaxAge /\ None # 0 BY StoreAssumption
<1>f. ASSUME NEW s \in Scopes, Put(s, c)
      PROVE  /\ bundles'[s][c] = 0
             /\ \A t \in Scopes, d \in Contents :
                  t # s \/ d # c => bundles'[t][d] = bundles[t][d]
  BY <1>f DEF Put, TypeOK, StoreTypeOK
<1>1. CASE StageBundle(r) /\ Put(TenantScope, c) /\ Goto(r, "create")
  <2>1. /\ tool[r] = "put" /\ UNCHANGED cr
        /\ tool'[r] = "create" /\ \A q \in Requests : q # r => tool'[q] = tool[q]
    BY <1>1 DEF StageBundle, Goto, TypeOK
  <2>2. Unused(c) BY <2>1 DEF BundleInv
  <2>3. Staged(c)' BY <1>1, <1>a, <1>d, <1>e, <1>f, <2>2 DEF Unused, Staged
  <2>4. \A q \in Requests : /\ tool[q] = "put" /\ q # r => Unused(ContentOf[q])'
                            /\ tool[q] \in {"create", "store"} => Staged(ContentOf[q])'
    BY <1>1, <1>a, <1>b, <1>c, <1>d, <1>f, <2>1 DEF BundleInv, Unused, Staged
  <2>5. \A s \in Scopes, d \in Contents : judged' = <<s, d>> => bundles'[s][d] \in {None, MaxAge}
    BY <1>1, <1>a, <1>d, <1>f, <2>2 DEF BundleInv, Unused
  <2>6. \A q \in Requests : ~Loses(q)
    BY <1>1, <1>a, <1>c, <1>e, <1>f DEF Loses, Stored
  <2> QED BY <1>d, <2>1, <2>3, <2>4, <2>5, <2>6 DEF BundleInv
<1>2. CASE StageBundle(r) /\ Answer(r, "error") /\ UNCHANGED bundles
  BY <1>2, <1>d, QuietBundles DEF StageBundle, Answer, storeVars, TypeOK, BundleInv
<1>3. CASE CreateCommit(r)
  <2>1. /\ tool[r] = "create" /\ UNCHANGED bundles
        /\ tool'[r] = "store" /\ \A q \in Requests : q # r => tool'[q] = tool[q]
        /\ \A q \in Requests : q # r => cr'[q] = cr[q]
    BY <1>3 DEF CreateCommit, Goto, TypeOK
  <2> QED BY <1>d, <2>1 DEF BundleInv, Unused, Staged, Loses, Stored
<1>4. ASSUME NEW s \in Scopes, Delete(s, c),
             \A q \in Requests : tool'[q] \in {tool[q], "wait", "done"},
             \A q \in Requests : tool'[q] \in {"put", "create"} => (cr'[q].live => cr[q].live),
             s # StorageScope \/ ~Needs(r) \/ ~Needs(r)'
      PROVE  BundleInv' /\ \A q \in Requests : ~Loses(q)
  <2>1. /\ \A d \in Contents : Unused(d) => Unused(d)'
        /\ \A d \in Contents : Staged(d) => Staged(d)'
        /\ \A t \in Scopes, d \in Contents :
             bundles'[t][d] = IF t = s /\ d = c THEN None ELSE bundles[t][d]
    BY <1>4, <1>a, <1>d, DeletedBundles
  <2>2. \A q \in Requests : ~Loses(q)
    BY <1>4, <1>a, <1>b, <1>c, <2>1 DEF Loses, Stored
  <2> QED BY <1>4, <1>c, <1>d, <2>1, <2>2 DEF BundleInv
<1>5. CASE CreateFails(r)
  <2>1. /\ tool'[r] = "done" /\ ~Needs(r)' /\ Delete(TenantScope, c)
        /\ \A q \in Requests : tool'[q] \in {tool[q], "done"}
    BY <1>5 DEF CreateFails, Answer, Needs, TypeOK
  <2>2. \A q \in Requests : q # r => cr'[q] = cr[q]
    BY <1>5 DEF CreateFails, TypeOK
  <2> QED BY <1>4, <1>a, <2>1, <2>2
<1>6. CASE StoreBundle(r)
  <2>1. /\ tool[r] = "store" /\ UNCHANGED cr /\ Put(StorageScope, c)
        /\ tool'[r] = "unstage" /\ \A q \in Requests : q # r => tool'[q] = tool[q]
    BY <1>6 DEF StoreBundle, Goto, TypeOK
  <2>2. Staged(c) BY <2>1 DEF BundleInv
  <2>4. \A q \in Requests : /\ tool[q] = "put" => Unused(ContentOf[q])'
                            /\ tool[q] \in {"create", "store"} /\ q # r => Staged(ContentOf[q])'
    BY <1>a, <1>b, <1>c, <1>d, <1>f, <2>1 DEF BundleInv, Unused, Staged
  <2>5. \A s \in Scopes, d \in Contents : judged' = <<s, d>> => bundles'[s][d] \in {None, MaxAge}
    BY <1>a, <1>d, <1>f, <2>1, <2>2 DEF BundleInv, Staged
  <2>6. \A q \in Requests : ~Loses(q)
    BY <1>a, <1>c, <1>e, <1>f, <2>1 DEF Loses, Stored
  <2> QED BY <1>d, <2>1, <2>4, <2>5, <2>6 DEF BundleInv
<1>7. CASE StoreFails(r)
  <2>1. /\ tool'[r] = "done" /\ ~Needs(r)' /\ Delete(TenantScope, c)
        /\ \A q \in Requests : tool'[q] \in {tool[q], "done"}
    BY <1>7 DEF StoreFails, Answer, Needs, TypeOK
  <2>2. \A q \in Requests : q # r => cr'[q] = cr[q]
    BY <1>7 DEF StoreFails, RemoveCR, TypeOK
  <2> QED BY <1>4, <1>a, <2>1, <2>2
<1>8. CASE Unstage(r)
  <2>1. UNCHANGED cr /\ \A q \in Requests : tool'[q] \in {tool[q], "wait"}
    BY <1>8 DEF Unstage, Goto, TypeOK
  <2>2. CASE TenantScope # StorageScope /\ Delete(TenantScope, c)
    BY <1>4, <1>a, <2>1, <2>2
  <2>3. CASE UNCHANGED bundles
    BY <1>d, <2>1, <2>3, QuietBundles DEF storeVars, BundleInv
  <2> QED BY <1>8, <2>2, <2>3 DEF Unstage
<1>9. CASE SeeResult(r) \/ WaitTimesOut(r) \/ Abandon(r)
  <2>1. UNCHANGED <<cr, bundles>> /\ \A q \in Requests : tool'[q] \in {tool[q], "done"}
    BY <1>9 DEF SeeResult, WaitTimesOut, Abandon, Answer, Goto, TypeOK
  <2> QED BY <1>d, <2>1, QuietBundles DEF storeVars, BundleInv
<1>10. CASE DeleteCommit(r)
  <2>1. /\ UNCHANGED <<tool, bundles>> /\ tool[r] \in {"wait", "done"}
        /\ \A q \in Requests : q # r => cr'[q] = cr[q]
    BY <1>10 DEF DeleteCommit, RemoveCR, toolVars, TypeOK
  <2> QED BY <1>d, <2>1, QuietBundles DEF storeVars, BundleInv
<1> QED
  BY <1>1, <1>2, <1>3, <1>5, <1>6, <1>7, <1>8, <1>9, <1>10 DEF Tool, StageBundle

LEMMA MachineBundles ==
  ASSUME TypeOK, BundleInv,
         (\E r \in Requests : Bury(r) \/ Sync(r) \/ TimerFires(r)) \/ SweepBundle \/ Tick \/ Crash
  PROVE  BundleInv' /\ \A q \in Requests : ~Loses(q)
<1> USE FlowAssumption, StoreAssumption
<1>c. \A q \in Requests : ContentOf[q] \in Contents
  OBVIOUS
<1>1. ASSUME NEW r \in Requests, Bury(r) \/ Sync(r) \/ TimerFires(r)
      PROVE  BundleInv' /\ \A q \in Requests : ~Loses(q)
  BY <1>1, QuietBundles DEF Bury, HostUnchanged, Sync, TimerFires, apiVars, toolVars, workVars, BundleInv
<1>2. ASSUME NEW s \in Scopes, NEW c \in Contents, SweepJudge(s, c),
             UNCHANGED <<toolVars, apiVars, workVars>>
      PROVE  BundleInv' /\ \A q \in Requests : ~Loses(q)
  <2>1. /\ UNCHANGED <<bundles, tool, cr, step, cur, finished>>
        /\ judged' = <<s, c>> /\ bundles[s][c] = MaxAge
    BY <1>2 DEF SweepJudge, toolVars, apiVars, workVars
  <2>2. \A d \in Contents : Unused(d) \/ Staged(d) => d # c
    BY <2>1 DEF Unused, Staged
  <2> QED BY <1>c, <2>1, <2>2 DEF BundleInv, Unused, Staged, Loses, Stored
<1>3. ASSUME SweepRemove, UNCHANGED <<toolVars, apiVars, workVars>>
      PROVE  BundleInv' /\ \A q \in Requests : ~Loses(q)
  <2>1. PICK s \in Scopes, c \in Contents : judged = <<s, c>>
    BY <1>3 DEF SweepRemove, TypeOK, StoreTypeOK
  <2>2. /\ UNCHANGED <<tool, cr, step, cur, finished>>
        /\ Delete(s, c) /\ judged' = None /\ bundles[s][c] \in {None, MaxAge}
    BY <1>3, <2>1 DEF SweepRemove, BundleInv, toolVars, apiVars, workVars
  <2>3. /\ \A d \in Contents : Unused(d) => Unused(d)'
        /\ \A d \in Contents : Staged(d) => Staged(d)'
        /\ \A t \in Scopes, d \in Contents :
             bundles'[t][d] = IF t = s /\ d = c THEN None ELSE bundles[t][d]
    BY <2>2, DeletedBundles
  <2>4. \A t \in Scopes, d \in Contents : judged' # <<t, d>>
    BY <2>2
  <2> QED BY <1>c, <2>2, <2>3, <2>4 DEF BundleInv, Loses, Stored
<1>4. CASE Tick
  <2>1. /\ UNCHANGED <<tool, step, cur, finished, judged>> /\ ToolPrompt /\ AgeBundles
    BY <1>4 DEF Tick, toolVars
  <2>2. \A r \in Requests : cr'[r].live = cr[r].live
    <3>1. cr' = [r \in Requests |-> [cr[r] EXCEPT !.status = AgeStatus(@)]] BY <1>4 DEF Tick
    <3>2. \A r \in Requests : cr[r] \in CRs BY DEF TypeOK
    <3> QED BY <3>1, <3>2 DEF CRs
  <2>3. \A s \in Scopes, c \in Contents :
          /\ bundles[s][c] \in (0..MaxAge) \cup {None}
          /\ bundles'[s][c] = Older(bundles[s][c])
    BY <2>1 DEF AgeBundles, TypeOK, StoreTypeOK
  <2>4. \A s \in Scopes, c \in Contents :
          /\ bundles'[s][c] = None <=> bundles[s][c] = None
          /\ bundles[s][c] = MaxAge => bundles'[s][c] = MaxAge
          /\ bundles'[s][c] = MaxAge => bundles[s][c] \in {MaxAge, MaxAge - 1}
    BY <2>3 DEF Older
  <2>5. ASSUME NEW r \in Requests, tool[r] \in {"create", "store"}
        PROVE  Staged(ContentOf[r])'
    <3>1. Staged(ContentOf[r]) BY <2>5 DEF BundleInv
    <3>2. \/ bundles[TenantScope][ContentOf[r]] = None
          \/ bundles[TenantScope][ContentOf[r]] + 1 < MaxAge
      BY <2>1, <2>5 DEF ToolPrompt, Stored
    <3>3. bundles'[TenantScope][ContentOf[r]] # MaxAge
      BY <2>3, <3>2 DEF Older
    <3> QED BY <1>c, <2>1, <2>4, <3>1, <3>3 DEF Staged
  <2>6. \A q \in Requests : ~Loses(q)
    BY <1>c, <2>4 DEF Loses, Stored
  <2> QED BY <1>c, <2>1, <2>2, <2>4, <2>5, <2>6 DEF BundleInv, Unused
<1>5. CASE Crash
  <2>1. /\ UNCHANGED <<bundles, cr>> /\ judged' = None /\ step' = "idle"
        /\ \A r \in Requests : tool'[r] \in {tool[r], "done"}
        /\ \A r \in Requests : tool'[r] = "put" => tool[r] = "put"
        /\ \A r \in Requests : tool'[r] \notin {"create", "store"}
    BY <1>5 DEF Crash, TypeOK
  <2>2. \A t \in Scopes, d \in Contents : judged' # <<t, d>>
    BY <2>1
  <2> QED BY <1>c, <2>1, <2>2 DEF BundleInv, Unused, Loses, Stored
<1> QED BY <1>1, <1>2, <1>3, <1>4, <1>5 DEF SweepBundle

LEMMA WorkerBundles ==
  ASSUME OwnContents, TypeOK, Working, BundleInv, Worker
  PROVE  BundleInv' /\ \A q \in Requests : ~Loses(q)
<1>a. \A q \in Requests : ContentOf[q] \in Contents
  BY FlowAssumption
<1>b. ASSUME cur \in Requests, NEW st \in Statuses, Updated(st) \/ Rejected(st)
      PROVE  \A r \in Requests : cr'[r].live = cr[r].live
  BY <1>b DEF Updated, Rejected, WriteStatus, apiVars, TypeOK, CRs
<1>c. loc \in Statuses /\ (step # "idle" => cur \in Requests) BY DEF TypeOK, Working
<1>1. CASE UNCHANGED <<storeVars, toolVars, apiVars>> /\ step' # "cleanup"
  BY <1>1, QuietBundles DEF toolVars, apiVars
<1>2. ASSUME NEW r \in Requests, Reconcile(r)
      PROVE  BundleInv' /\ \A q \in Requests : ~Loses(q)
  BY <1>2, QuietBundles DEF Reconcile, toolVars, apiVars, workVars, BundleInv
<1>3. CASE EnsureRepository \/ GetBundle \/ LookForKey \/ CommitFiles
  BY <1>1, <1>3 DEF EnsureRepository, GetBundle, LookForKey, CommitFiles, HostUnchanged, Proceed,
                    CallFails, RateLimited,
                    RequeueAfter, Idle
<1>4. ASSUME NEW st \in Statuses, step # "idle", Updated(st) \/ Rejected(st),
             UNCHANGED <<storeVars, toolVars>>, step' = "cleanup" => cur' \in finished'
      PROVE  BundleInv' /\ \A q \in Requests : ~Loses(q)
  BY <1>4, <1>b, <1>c, QuietBundles DEF toolVars
<1>5. CASE MarkRunning
  BY <1>5, <1>4, <1>c DEF MarkRunning, Proceed, Retry, Idle
<1>6. CASE RecordWait
  BY <1>6, <1>4, <1>c, ResultStatuses DEF RecordWait, RequeueAfter, Retry, Idle
<1>7. ASSUME NEW st \in Statuses, Terminal(st), step # "idle", RecordResult(st)
      PROVE  BundleInv' /\ \A q \in Requests : ~Loses(q)
  <2>1. Updated(st) /\ Proceed("cleanup") => cur' \in finished'
    BY <1>7 DEF Updated, Current, WriteStatus, Proceed
  <2> QED BY <1>7, <1>4, <2>1 DEF RecordResult, Retry, Idle
<1>8. CASE RecordSuccess
  BY <1>8, <1>7, <1>c, ResultStatuses DEF RecordSuccess, Terminal
<1>9. CASE RecordFailure
  BY <1>9, <1>7, <1>c, ResultStatuses DEF RecordFailure, Terminal
<1>10. CASE Cleanup
  <2>1. /\ cur \in Requests /\ cur \in finished /\ Delete(StorageScope, ContentOf[cur])
        /\ UNCHANGED <<judged, tool, cr, finished>> /\ step' = "idle"
    BY <1>10, <1>c DEF Cleanup, Idle, BundleInv, toolVars, apiVars
  <2>2. /\ \A d \in Contents : Unused(d) => Unused(d)'
        /\ \A d \in Contents : Staged(d) => Staged(d)'
        /\ \A t \in Scopes, d \in Contents :
             bundles'[t][d] = IF t = StorageScope /\ d = ContentOf[cur] THEN None ELSE bundles[t][d]
    BY <1>a, <2>1, DeletedBundles, FlowAssumption
  <2>3. \A q \in Requests : ~Loses(q)
    BY <1>a, <2>1, <2>2, FlowAssumption DEF Loses, Stored, Needs, OwnContents
  <2> QED BY <1>a, <2>1, <2>2, <2>3 DEF BundleInv
<1> QED BY <1>2, <1>3, <1>5, <1>6, <1>8, <1>9, <1>10 DEF Worker

LEMMA BundleStep ==
  ASSUME OwnContents, TypeOK, Working, BundleInv, [Next]_vars
  PROVE  BundleInv' /\ \A q \in Requests : ~Loses(q)
<1>1. CASE UNCHANGED vars
  BY <1>1, QuietBundles DEF vars, toolVars, apiVars, workVars, BundleInv
<1> QED BY <1>1, ToolBundles, MachineBundles, WorkerBundles DEF Next

(* BundleKept: with contents of their own, no interleaving of tool calls, sweeper,       *)
(* retries and restarts takes the bundle of a pending request before its time, unless its  *)
(* call has answered with an error.  (Two requests of the same content share a bundle, and  *)
(* the run CommitFlowShared shows that one can then take it from the other.)           *)
THEOREM BundleKept == ASSUME OwnContents PROVE Spec => BundleNotLost
<1>1. Init => TypeOK /\ Working /\ BundleInv
  <2>1. Init => BundleInv
    BY FlowAssumption, StoreAssumption
    DEF Init, StoreInit, BundleInv, Unused, NoCR
  <2> QED BY <2>1, InitTyped, InitWorking
<1>2. TypeOK /\ Working /\ BundleInv /\ [Next]_vars => (TypeOK /\ Working /\ BundleInv)'
  BY TypedStep, BundleStep
<1>3. TypeOK /\ Working /\ BundleInv /\ [Next]_vars
        => [\A r \in Requests :
             LET s == StorageScope
                 c == ContentOf[r] IN
             Needs(r) /\ Needs(r)' /\ Stored(s, c) /\ ~Stored(s, c)'
               => bundles[s][c] = MaxAge]_vars
  BY BundleStep DEF Loses
<1> QED BY <1>1, <1>2, <1>3, PTL DEF Spec, BundleNotLost
=============================================================================
