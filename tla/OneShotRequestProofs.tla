------------------------- MODULE OneShotRequestProofs -------------------------
(***************************************************************************)
(* Proofs about OneShotRequest, for any number of requests and contents.       *)
(***************************************************************************)
EXTENDS OneShotRequest, TLAPS

-----------------------------------------------------------------------------
(* Types.                                                                    *)

(* TypeOK without the store and without the object records.                       *)
PlainTypeOK ==
  /\ kind \in [Requests -> Kinds]
  /\ call \in [Requests -> Calls]
  /\ told \in [Requests -> {"none", "ok", "error"}]
  /\ got \in [Requests -> Contents \cup {None}]
  /\ queue \subseteq Requests
  /\ cur \in Requests \cup {None} /\ step \in Steps /\ tree \in Contents \cup {None}
  /\ fetched \in [Requests -> SUBSET Contents] /\ dispatched \in [Requests -> 0..2]
  /\ crashes \in 0..MaxCrashes

ApiTypeOK ==
  /\ cr \in [Requests -> CRs] /\ cached \in [Requests -> CRs]
  /\ synced \in [Requests -> BOOLEAN]

LEMMA TypeParts == TypeOK <=> StoreTypeOK /\ PlainTypeOK /\ ApiTypeOK
  BY DEF TypeOK, PlainTypeOK, ApiTypeOK

LEMMA CRFields ==
  ASSUME NEW x \in CRs
  PROVE  /\ x.live \in BOOLEAN /\ x.status \in Statuses
         /\ [x EXCEPT !.live = TRUE] \in CRs /\ [x EXCEPT !.live = FALSE] \in CRs
         /\ \A st \in Statuses : [x EXCEPT !.status = st] \in CRs
  BY DEF CRs

LEMMA StatusTyped ==
  ASSUME NEW c \in Contents \cup {None}
  PROVE  /\ Status("Running", None) \in Statuses
         /\ Status("Succeeded", c) \in Statuses
         /\ Status("Failed", None) \in Statuses
  BY DEF Status, Statuses

LEMMA StoreSteps ==
  ASSUME StoreTypeOK, NEW s \in Scopes, NEW c \in Contents
  PROVE  /\ Put(s, c) => bundles' \in [Scopes -> [Contents -> (0..MaxAge) \cup {None}]]
         /\ Delete(s, c) => bundles' \in [Scopes -> [Contents -> (0..MaxAge) \cup {None}]]
  BY StoreAssumption DEF StoreTypeOK, Put, Delete

LEMMA StoreAges ==
  ASSUME StoreTypeOK, AgeBundles
  PROVE  bundles' \in [Scopes -> [Contents -> (0..MaxAge) \cup {None}]]
<1>1. \A a \in (0..MaxAge) \cup {None} : Older(a) \in (0..MaxAge) \cup {None}
  BY StoreAssumption DEF Older
<1> QED BY <1>1 DEF StoreTypeOK, AgeBundles

(* ApiSteps: creation, deletion and a status write keep the API server typed.        *)
LEMMA ApiSteps ==
  ASSUME ApiTypeOK, NEW r \in Requests
  PROVE  /\ AddCR(r) /\ UNCHANGED cached => ApiTypeOK'
         /\ RemoveCR(r) /\ UNCHANGED cached => ApiTypeOK'
<1>1. cr[r] \in CRs
  BY DEF ApiTypeOK
<1>2. [cr[r] EXCEPT !.live = TRUE] \in CRs /\ [cr[r] EXCEPT !.live = FALSE] \in CRs
  BY <1>1, CRFields
<1>3. AddCR(r) => cr' = [cr EXCEPT ![r] = [cr[r] EXCEPT !.live = TRUE]]
  BY DEF AddCR, ApiTypeOK
<1>4. RemoveCR(r) => cr' = [cr EXCEPT ![r] = [cr[r] EXCEPT !.live = FALSE]]
  BY DEF RemoveCR, ApiTypeOK
<1> QED BY <1>2, <1>3, <1>4 DEF AddCR, RemoveCR, ApiTypeOK

LEMMA WriteTyped ==
  ASSUME ApiTypeOK, cur \in Requests, NEW st \in Statuses, Updated(st) \/ Rejected(st)
  PROVE  ApiTypeOK' /\ \A r \in Requests \ {cur} : cr'[r] = cr[r]
<1>1. CASE UNCHANGED apiVars
  BY <1>1 DEF apiVars, ApiTypeOK
<1>2. CASE cr' = [cr EXCEPT ![cur].status = st]
           /\ synced' = [synced EXCEPT ![cur] = FALSE] /\ UNCHANGED cached
  <2>1. [cr[cur] EXCEPT !.status = st] \in CRs
    BY CRFields DEF ApiTypeOK
  <2>2. cr' = [cr EXCEPT ![cur] = [cr[cur] EXCEPT !.status = st]]
    BY <1>2 DEF ApiTypeOK
  <2> QED BY <1>2, <2>1, <2>2 DEF ApiTypeOK
<1> QED BY <1>1, <1>2 DEF Updated, Rejected

-----------------------------------------------------------------------------
(* The invariant.                                                            *)

(* What a success of request r with bundle c rests on.                          *)
Backed(r, c) ==
  /\ kind[r] = "rerun" => dispatched[r] > 0
  /\ kind[r] = "checkout" => c \in fetched[r]

(* Reconcile works on a request, with a tree it has read or a dispatch it has made.  *)
WorkInv ==
  /\ step # "idle" => cur \in Requests
  /\ step \in {"put", "reclaim"} => kind[cur] = "checkout" /\ tree \in fetched[cur]
  /\ step = "success" => Backed(cur, tree)

RecordInv ==
  \A r \in Requests : cr[r].status.phase = "Succeeded" => Backed(r, cr[r].status.bundle)

(* A call answers once, and holds a bundle read for its request when it has one.     *)
CallInv ==
  \A r \in Requests :
    /\ call[r] \in {"create", "wait", "read"} => told[r] = "none"
    /\ call[r] \in {"read", "reclaim"} => kind[r] = "checkout" /\ got[r] \in fetched[r]
    /\ told[r] = "ok" => Backed(r, got[r])

IInv == StoreTypeOK /\ PlainTypeOK /\ ApiTypeOK /\ WorkInv /\ RecordInv /\ CallInv

LEMMA InitInv == Init => IInv
<1> SUFFICES ASSUME Init PROVE IInv
  OBVIOUS
<1>1. NoCR \in CRs /\ NoCR.status.phase = "none"
  BY DEF NoCR, CRs, Status, Statuses
<1>2. StoreTypeOK
  BY StoreAssumption DEF Init, StoreInit, StoreTypeOK
<1>3. PlainTypeOK
  BY OneShotAssumption DEF Init, PlainTypeOK, Calls, Steps
<1>4. ApiTypeOK /\ RecordInv
  BY <1>1 DEF Init, ApiTypeOK, RecordInv
<1>5. WorkInv /\ CallInv
  BY DEF Init, WorkInv, CallInv
<1> QED BY <1>2, <1>3, <1>4, <1>5 DEF IInv

(* Frames: what a step of the call of r, and a step of the controller, leaves to show. *)
LEMMA ToolFrame ==
  ASSUME IInv, NEW r \in Requests, UNCHANGED ToolLeaves, StoreTypeOK', ApiTypeOK',
         \A q \in Requests : cr'[q].status = cr[q].status,
         call' \in [Requests -> Calls], told' \in [Requests -> {"none", "ok", "error"}],
         got' \in [Requests -> Contents \cup {None}],
         \A q \in Requests \ {r} : call'[q] = call[q] /\ told'[q] = told[q] /\ got'[q] = got[q],
         call'[r] \in {"create", "wait", "read"} => told'[r] = "none",
         call'[r] \in {"read", "reclaim"} => kind[r] = "checkout" /\ got'[r] \in fetched[r],
         told'[r] = "ok" => Backed(r, got'[r])
  PROVE  IInv'
<1>1. UNCHANGED <<kind, judged, cached, queue, cur, step, tree, fetched, dispatched, crashes>>
  BY DEF ToolLeaves, workVars, hostVars
<1>2. PlainTypeOK'
  BY <1>1 DEF IInv, PlainTypeOK
<1>3. WorkInv' /\ RecordInv'
  BY <1>1 DEF IInv, WorkInv, RecordInv, Backed
<1>4. CallInv'
  BY <1>1 DEF IInv, CallInv, Backed
<1> QED BY <1>2, <1>3, <1>4 DEF IInv

LEMMA WorkFrame ==
  ASSUME IInv, UNCHANGED <<kind, toolVars>>, StoreTypeOK', PlainTypeOK', ApiTypeOK', WorkInv',
         \A q \in Requests : fetched[q] \subseteq fetched'[q] /\ dispatched'[q] >= dispatched[q],
         \A q \in Requests : cr'[q].status # cr[q].status /\ cr'[q].status.phase = "Succeeded"
                              => Backed(q, cr'[q].status.bundle)
  PROVE  IInv'
<1>1. \A q \in Requests : \A c : Backed(q, c) => Backed(q, c)'
  <2> SUFFICES ASSUME NEW q \in Requests, NEW c, Backed(q, c) PROVE Backed(q, c)'
    OBVIOUS
  <2>1. dispatched[q] \in 0..2 /\ dispatched'[q] \in 0..2
    BY DEF IInv, PlainTypeOK
  <2> QED BY <2>1 DEF Backed
<1>2. RecordInv'
  BY <1>1 DEF IInv, RecordInv, Backed
<1>3. CallInv'
  BY <1>1 DEF IInv, CallInv, toolVars, Backed
<1> QED BY <1>2, <1>3 DEF IInv

-----------------------------------------------------------------------------
(* Every step keeps the invariant.                                           *)

LEMMA ToolInv ==
  ASSUME IInv, NEW r \in Requests, Tool(r)
  PROVE  IInv'
<1>1. /\ PlainTypeOK /\ ApiTypeOK /\ StoreTypeOK
      /\ call[r] \in Calls /\ told[r] \in {"none", "ok", "error"} /\ got[r] \in Contents \cup {None}
      /\ call \in [Requests -> Calls] /\ told \in [Requests -> {"none", "ok", "error"}]
      /\ got \in [Requests -> Contents \cup {None}]
      /\ fetched[r] \subseteq Contents /\ Scope \in Scopes
  BY OneShotAssumption DEF IInv, PlainTypeOK
<1>2. /\ call[r] \in {"create", "wait", "read"} => told[r] = "none"
      /\ call[r] \in {"read", "reclaim"} => kind[r] = "checkout" /\ got[r] \in fetched[r]
      /\ told[r] = "ok" => Backed(r, got[r])
  BY DEF IInv, CallInv
<1>3. ASSUME UNCHANGED <<cr, synced, cached>>
      PROVE  ApiTypeOK' /\ \A q \in Requests : cr'[q].status = cr[q].status
  BY <1>1, <1>3 DEF ApiTypeOK
<1>4. ASSUME UNCHANGED cached, AddCR(r) \/ RemoveCR(r)
      PROVE  ApiTypeOK' /\ \A q \in Requests : cr'[q].status = cr[q].status
  <2>1. ApiTypeOK'
    BY <1>1, <1>4, ApiSteps
  <2> QED BY <1>1, <1>4, <2>1 DEF ApiTypeOK, AddCR, RemoveCR, CRs
<1>5. UNCHANGED bundles /\ UNCHANGED judged => StoreTypeOK'
  BY <1>1 DEF StoreTypeOK
<1>6. CASE Create(r)
  <2>1. UNCHANGED ToolLeaves /\ UNCHANGED <<bundles, judged, cached>>
    BY <1>6 DEF Create, ToolLeaves
  <2>2. ApiTypeOK' /\ \A q \in Requests : cr'[q].status = cr[q].status
    BY <1>3, <1>4, <1>6, <2>1 DEF Create
  <2>3. /\ call' \in [Requests -> Calls] /\ told' \in [Requests -> {"none", "ok", "error"}]
        /\ got' = got
        /\ \A q \in Requests \ {r} : call'[q] = call[q] /\ told'[q] = told[q]
        /\ \/ call'[r] = "wait" /\ told'[r] = "none"
           \/ call'[r] = "done" /\ told'[r] = "error"
    BY <1>1, <1>2, <1>6 DEF Create, Move, Answer, Calls
  <2> QED BY <1>1, <1>5, <2>1, <2>2, <2>3, ToolFrame
<1>7. CASE SeeResult(r)
  <2>1. UNCHANGED ToolLeaves /\ UNCHANGED <<bundles, judged, cr, synced, cached>>
    BY <1>7 DEF SeeResult, ToolLeaves
  <2>2. cr[r].status.bundle \in Contents \cup {None}
    BY <1>1 DEF ApiTypeOK, CRs, Statuses
  <2>3. cr[r].status.phase = "Succeeded" => Backed(r, cr[r].status.bundle)
    BY DEF IInv, RecordInv
  <2>4. CASE cr[r].status.phase = "Succeeded" /\ kind[r] = "checkout"
    <3>1. got' = [got EXCEPT ![r] = cr[r].status.bundle] /\ Move(r, "read") /\ UNCHANGED told
      BY <1>7, <2>4 DEF SeeResult
    <3>2. /\ call' \in [Requests -> Calls] /\ told' = told
          /\ got' \in [Requests -> Contents \cup {None}]
          /\ \A q \in Requests \ {r} : call'[q] = call[q] /\ got'[q] = got[q]
          /\ call'[r] = "read" /\ got'[r] \in fetched[r] /\ told'[r] = "none"
      BY <1>1, <1>2, <1>7, <2>2, <2>3, <2>4, <3>1 DEF Move, Calls, Backed, SeeResult
    <3> QED BY <1>1, <1>3, <1>5, <2>1, <2>4, <3>2, ToolFrame
  <2>5. CASE cr[r].status.phase = "Succeeded" /\ kind[r] # "checkout"
    <3>1. Answer(r, "ok", "drop")
      BY <1>7, <2>5 DEF SeeResult
    <3>2. /\ call' \in [Requests -> Calls] /\ told' \in [Requests -> {"none", "ok", "error"}]
          /\ got' = got /\ call'[r] = "drop"
          /\ \A q \in Requests \ {r} : call'[q] = call[q] /\ told'[q] = told[q]
      BY <1>1, <3>1 DEF Answer, Move, Calls
    <3>3. Backed(r, got'[r])
      BY <2>3, <2>5 DEF Backed
    <3> QED BY <1>1, <1>3, <1>5, <2>1, <3>2, <3>3, ToolFrame
  <2>6. CASE cr[r].status.phase = "Failed"
    <3>1. Answer(r, "error", "drop")
      BY <1>7, <2>6 DEF SeeResult
    <3>2. /\ call' \in [Requests -> Calls] /\ told' \in [Requests -> {"none", "ok", "error"}]
          /\ got' = got /\ call'[r] = "drop" /\ told'[r] = "error"
          /\ \A q \in Requests \ {r} : call'[q] = call[q] /\ told'[q] = told[q]
      BY <1>1, <3>1 DEF Answer, Move, Calls
    <3> QED BY <1>1, <1>3, <1>5, <2>1, <3>2, ToolFrame
  <2> QED BY <1>7, <2>4, <2>5, <2>6 DEF SeeResult
<1>8. CASE GiveUp(r)
  <2>1. UNCHANGED ToolLeaves /\ UNCHANGED <<bundles, judged, cr, synced, cached>>
    BY <1>8 DEF GiveUp, ToolLeaves
  <2>2. /\ call' \in [Requests -> Calls] /\ told' \in [Requests -> {"none", "ok", "error"}]
        /\ got' \in [Requests -> Contents \cup {None}]
        /\ call'[r] = "drop" /\ told'[r] = "error"
        /\ \A q \in Requests \ {r} : call'[q] = call[q] /\ told'[q] = told[q] /\ got'[q] = got[q]
    BY <1>1, <1>8 DEF GiveUp, Move, Calls
  <2> QED BY <1>3, <1>5, <2>1, <2>2, ToolFrame
<1>9. CASE ReadBundle(r)
  <2>1. UNCHANGED ToolLeaves /\ UNCHANGED <<bundles, judged, cr, synced, cached>>
    BY <1>9 DEF ReadBundle, ToolLeaves
  <2>2. /\ call' \in [Requests -> Calls] /\ told' \in [Requests -> {"none", "ok", "error"}]
        /\ got' = got /\ call'[r] = "reclaim"
        /\ \A q \in Requests \ {r} : call'[q] = call[q] /\ told'[q] = told[q]
    BY <1>1, <1>9 DEF ReadBundle, Answer, Move, Calls
  <2>3. kind[r] = "checkout" /\ got'[r] \in fetched[r] /\ Backed(r, got'[r])
    BY <1>2, <1>9, <2>2 DEF ReadBundle, Backed
  <2> QED BY <1>1, <1>3, <1>5, <2>1, <2>2, <2>3, ToolFrame
<1>10. CASE ReclaimBundle(r)
  <2>1. UNCHANGED ToolLeaves /\ UNCHANGED <<judged, told, got, cr, synced, cached>>
    BY <1>10 DEF ReclaimBundle, ToolLeaves
  <2>2. /\ call' \in [Requests -> Calls] /\ call'[r] = "drop"
        /\ \A q \in Requests \ {r} : call'[q] = call[q]
    BY <1>1, <1>10 DEF ReclaimBundle, Move, Calls
  <2>3. got[r] \in Contents
    BY <1>1, <1>2, <1>10 DEF ReclaimBundle
  <2>4. StoreTypeOK'
    BY <1>1, <1>5, <1>10, <2>1, <2>3, StoreSteps DEF ReclaimBundle, StoreTypeOK
  <2> QED BY <1>1, <1>2, <1>3, <2>1, <2>2, <2>4, ToolFrame
<1>11. CASE DropRequest(r)
  <2>1. UNCHANGED ToolLeaves /\ UNCHANGED <<bundles, judged, told, got, cached>>
    BY <1>11 DEF DropRequest, ToolLeaves
  <2>2. /\ call' \in [Requests -> Calls] /\ call'[r] = "done"
        /\ \A q \in Requests \ {r} : call'[q] = call[q]
    BY <1>1, <1>11 DEF DropRequest, Move, Calls
  <2>3. ApiTypeOK' /\ \A q \in Requests : cr'[q].status = cr[q].status
    BY <1>3, <1>4, <1>11, <2>1 DEF DropRequest
  <2> QED BY <1>1, <1>2, <1>5, <2>1, <2>2, <2>3, ToolFrame
<1> QED BY <1>6, <1>7, <1>8, <1>9, <1>10, <1>11 DEF Tool

(* A step of Reconcile that touches neither host nor store, and does not record a success. *)
LEMMA QuietWork ==
  ASSUME IInv, UNCHANGED <<WorkLeaves, bundles, hostVars>>, ApiTypeOK',
         queue' \subseteq Requests, step' \in Steps,
         \/ cur' = cur /\ tree' = tree /\ step' \in {"idle", "start", "host", "fail"}
         \/ step' = "idle" /\ cur' = None /\ tree' = None,
         step' # "idle" => cur \in Requests,
         \A q \in Requests : cr'[q].status = cr[q].status \/ cr'[q].status.phase # "Succeeded"
  PROVE  IInv'
<1>1. UNCHANGED <<kind, toolVars, call, told, got, judged, bundles, crashes, fetched, dispatched>>
  BY DEF WorkLeaves, hostVars, toolVars
<1>2. StoreTypeOK' /\ PlainTypeOK'
  BY <1>1 DEF IInv, StoreTypeOK, PlainTypeOK
<1>3. WorkInv'
  BY <1>1 DEF IInv, WorkInv
<1>4. \A q \in Requests : fetched[q] \subseteq fetched'[q] /\ dispatched'[q] >= dispatched[q]
  BY <1>1 DEF IInv, PlainTypeOK
<1> QED BY <1>1, <1>2, <1>3, <1>4, WorkFrame

LEMMA ReconcileInv ==
  ASSUME IInv, NEW r \in Requests, Reconcile(r)
  PROVE  IInv'
<1>1. UNCHANGED <<kind, toolVars, call, told, got, judged, bundles, crashes, fetched, dispatched,
                  cr, cached, synced>>
  BY DEF Reconcile, WorkLeaves, hostVars, toolVars, apiVars
<1>2. /\ queue' \subseteq Requests
      /\ \/ cur' = r /\ step' = "start" /\ tree' = None
         \/ cur' = cur /\ step' = step /\ tree' = tree
  BY DEF Reconcile, workVars, IInv, PlainTypeOK
<1>3. StoreTypeOK' /\ ApiTypeOK'
  BY <1>1 DEF IInv, StoreTypeOK, ApiTypeOK
<1>4. PlainTypeOK'
  BY <1>1, <1>2 DEF IInv, PlainTypeOK, Steps
<1>5. WorkInv'
  BY <1>1, <1>2 DEF IInv, WorkInv, Backed
<1>6. \A q \in Requests : fetched[q] \subseteq fetched'[q] /\ dispatched'[q] >= dispatched[q]
  BY <1>1 DEF IInv, PlainTypeOK
<1> QED BY <1>1, <1>3, <1>4, <1>5, <1>6, WorkFrame

LEMMA RecordsInv ==
  ASSUME IInv, MarkRunning \/ HostFails \/ fail
  PROVE  IInv'
<1>1. /\ ApiTypeOK /\ cur \in Requests /\ queue \subseteq Requests /\ step \in Steps
      /\ cr \in [Requests -> CRs]
  BY DEF IInv, WorkInv, PlainTypeOK, ApiTypeOK, MarkRunning, HostFails, fail
<1>2. UNCHANGED <<WorkLeaves, bundles, hostVars>>
  BY DEF MarkRunning, HostFails, fail
<1>3. ASSUME NEW st \in Statuses, st.phase # "Succeeded", Updated(st) \/ Rejected(st)
      PROVE  /\ ApiTypeOK'
             /\ \A q \in Requests : cr'[q].status = cr[q].status \/ cr'[q].status.phase # "Succeeded"
  <2>1. ApiTypeOK' /\ \A q \in Requests \ {cur} : cr'[q] = cr[q]
    BY <1>1, <1>3, WriteTyped
  <2>2. cr'[cur].status = cr[cur].status \/ cr'[cur].status = st
    BY <1>1, <1>3 DEF Updated, Rejected, apiVars, CRs
  <2> QED BY <1>3, <2>1, <2>2
<1>4. /\ Running \in Statuses /\ Running.phase # "Succeeded"
      /\ Status("Failed", None) \in Statuses /\ Status("Failed", None).phase # "Succeeded"
  BY DEF Running, Status, Statuses
<1>5. /\ ApiTypeOK'
      /\ \A q \in Requests : cr'[q].status = cr[q].status \/ cr'[q].status.phase # "Succeeded"
  <2>1. CASE MarkRunning
    BY <1>3, <1>4, <2>1 DEF MarkRunning
  <2>2. CASE HostFails
    BY <1>1, <2>2 DEF HostFails, apiVars, ApiTypeOK
  <2>3. CASE fail
    BY <1>3, <1>4, <2>3 DEF fail
  <2> QED BY <2>1, <2>2, <2>3
<1>6. /\ queue' \subseteq Requests /\ step' \in Steps
      /\ \/ cur' = cur /\ tree' = tree /\ step' \in {"idle", "start", "host", "fail"}
         \/ step' = "idle" /\ cur' = None /\ tree' = None
  BY <1>1 DEF MarkRunning, HostFails, fail, Proceed, Retry, Idle, Steps
<1> QED BY <1>1, <1>2, <1>5, <1>6, QuietWork

(* The host calls.                                                           *)
LEMMA HostInv ==
  ASSUME IInv, (\E c \in Contents : CheckoutFiles(c)) \/ DispatchWorkflow \/ LatestWorkflowRun
  PROVE  IInv'
<1>1. /\ cur \in Requests /\ step \in Steps /\ PlainTypeOK
      /\ fetched \in [Requests -> SUBSET Contents] /\ dispatched \in [Requests -> 0..2]
  BY DEF IInv, WorkInv, PlainTypeOK, CheckoutFiles, DispatchWorkflow, LatestWorkflowRun
<1>2. UNCHANGED <<kind, toolVars, call, told, got, judged, bundles, crashes, queue,
                  cr, cached, synced, cur>>
  BY DEF CheckoutFiles, DispatchWorkflow, LatestWorkflowRun, WorkLeaves, toolVars, apiVars, Proceed
<1>3. StoreTypeOK' /\ ApiTypeOK'
  BY <1>2 DEF IInv, StoreTypeOK, ApiTypeOK
<1>4. ASSUME NEW c \in Contents, CheckoutFiles(c) PROVE IInv'
  <2>1. /\ fetched' \in [Requests -> SUBSET Contents] /\ dispatched' = dispatched
        /\ \A q \in Requests : fetched[q] \subseteq fetched'[q]
        /\ tree' = c /\ step' = "put" /\ c \in fetched'[cur] /\ kind[cur] = "checkout"
    BY <1>1, <1>4 DEF CheckoutFiles
  <2>2. PlainTypeOK' /\ WorkInv'
    BY <1>1, <1>2, <2>1 DEF PlainTypeOK, WorkInv, Steps
  <2>3. \A q \in Requests : dispatched'[q] >= dispatched[q]
    BY <1>1, <2>1
  <2> QED BY <1>2, <1>3, <2>1, <2>2, <2>3, WorkFrame
<1>5. CASE DispatchWorkflow
  <2>1. /\ dispatched' \in [Requests -> 0..2] /\ fetched' = fetched /\ tree' = tree
        /\ \A q \in Requests : dispatched'[q] >= dispatched[q]
        /\ dispatched'[cur] > 0 /\ kind[cur] = "rerun" /\ step' \in {"success", "fail"}
    BY <1>1, <1>5 DEF DispatchWorkflow, Dispatch, Proceed
  <2>2. PlainTypeOK' /\ WorkInv'
    BY <1>1, <1>2, <2>1 DEF PlainTypeOK, WorkInv, Backed, Steps
  <2> QED BY <1>2, <1>3, <2>1, <2>2, WorkFrame
<1>6. CASE LatestWorkflowRun
  <2>1. /\ dispatched' = dispatched /\ fetched' = fetched /\ tree' = tree
        /\ kind[cur] = "status" /\ step' = "success"
    BY <1>6 DEF LatestWorkflowRun, Proceed, hostVars
  <2>2. PlainTypeOK' /\ WorkInv'
    BY <1>1, <1>2, <2>1 DEF PlainTypeOK, WorkInv, Backed, Steps
  <2>3. \A q \in Requests : dispatched'[q] >= dispatched[q]
    BY <1>1, <2>1
  <2> QED BY <1>2, <1>3, <2>1, <2>2, <2>3, WorkFrame
<1> QED BY <1>4, <1>5, <1>6

(* The bundle is stored, the success recorded or the bundle withdrawn.               *)
LEMMA BundleInv ==
  ASSUME IInv, PutBundle \/ RecordSuccess \/ DropBundle
  PROVE  IInv'
<1>1. /\ cur \in Requests /\ step \in Steps /\ PlainTypeOK /\ ApiTypeOK /\ StoreTypeOK
      /\ queue \subseteq Requests /\ tree \in Contents \cup {None} /\ Scope \in Scopes
      /\ fetched \in [Requests -> SUBSET Contents] /\ dispatched \in [Requests -> 0..2]
  BY OneShotAssumption DEF IInv, WorkInv, PlainTypeOK, PutBundle, RecordSuccess, DropBundle
<1>2. UNCHANGED <<kind, toolVars, call, told, got, judged, crashes, fetched, dispatched>>
  BY DEF PutBundle, RecordSuccess, DropBundle, WorkLeaves, toolVars, hostVars
<1>3. \A q \in Requests : fetched[q] \subseteq fetched'[q] /\ dispatched'[q] >= dispatched[q]
  BY <1>1, <1>2
<1>4. ASSUME step \in {"put", "reclaim"} PROVE tree \in fetched[cur] /\ tree \in Contents
  BY <1>1, <1>4 DEF IInv, WorkInv
<1>5. CASE PutBundle
  <2>1. UNCHANGED <<cr, cached, synced, queue, cur, tree>> /\ step' \in {"success", "fail"}
    BY <1>5 DEF PutBundle, apiVars, Proceed
  <2>2. StoreTypeOK'
    BY <1>1, <1>2, <1>4, <1>5, StoreSteps DEF PutBundle, StoreTypeOK
  <2>3. ApiTypeOK' /\ PlainTypeOK'
    BY <1>1, <1>2, <2>1 DEF ApiTypeOK, PlainTypeOK, Steps
  <2>4. kind[cur] = "checkout"
    BY <1>5 DEF PutBundle, IInv, WorkInv
  <2>5. WorkInv'
    BY <1>1, <1>2, <1>4, <1>5, <2>1, <2>4 DEF PutBundle, WorkInv, Backed
  <2> QED BY <1>2, <1>3, <2>1, <2>2, <2>3, <2>5, WorkFrame
<1>6. CASE RecordSuccess
  <2>1. Backed(cur, tree)
    BY <1>6 DEF RecordSuccess, IInv, WorkInv
  <2>2. StoreTypeOK'
    BY <1>1, <1>2, <1>6 DEF RecordSuccess, StoreTypeOK
  <2>3. /\ Status("Succeeded", tree) \in Statuses /\ Status("Succeeded", tree).bundle = tree
    BY <1>1, StatusTyped DEF Status
  <2>4. ApiTypeOK' /\ \A q \in Requests \ {cur} : cr'[q] = cr[q]
    BY <1>1, <1>6, <2>3, WriteTyped DEF RecordSuccess
  <2>5. cr'[cur].status = cr[cur].status \/ cr'[cur].status = Status("Succeeded", tree)
    BY <1>1, <1>6 DEF RecordSuccess, Updated, Rejected, apiVars, ApiTypeOK, CRs
  <2>6. /\ queue' \subseteq Requests
        /\ \/ step' = "idle" /\ cur' = None /\ tree' = None
           \/ step' = "reclaim" /\ cur' = cur /\ tree' = tree /\ kind[cur] = "checkout"
    BY <1>1, <1>6 DEF RecordSuccess, Idle, Retry, Proceed
  <2>7. PlainTypeOK'
    BY <1>1, <1>2, <2>6 DEF PlainTypeOK, Steps
  <2>8. WorkInv'
    BY <1>1, <1>2, <2>1, <2>6 DEF WorkInv, Backed
  <2> QED BY <1>2, <1>3, <2>1, <2>2, <2>3, <2>4, <2>5, <2>7, <2>8, WorkFrame
<1>7. CASE DropBundle
  <2>1. UNCHANGED <<cr, cached, synced>> /\ queue' \subseteq Requests
        /\ step' = "idle" /\ cur' = None /\ tree' = None
    BY <1>1, <1>7 DEF DropBundle, apiVars, Retry, Idle
  <2>2. StoreTypeOK'
    BY <1>1, <1>2, <1>4, <1>7, StoreSteps DEF DropBundle, StoreTypeOK
  <2>3. ApiTypeOK' /\ PlainTypeOK' /\ WorkInv'
    BY <1>1, <1>2, <2>1 DEF ApiTypeOK, PlainTypeOK, WorkInv, Steps
  <2> QED BY <1>2, <1>3, <2>1, <2>2, <2>3, WorkFrame
<1> QED BY <1>5, <1>6, <1>7

(* Informer, sweeper, clock and restarts.                                     *)
LEMMA MachineInv ==
  ASSUME IInv, (\E r \in Requests : Sync(r)) \/ SweepBundle \/ Tick \/ Crash
  PROVE  IInv'
<1>1. /\ PlainTypeOK /\ ApiTypeOK /\ StoreTypeOK /\ WorkInv /\ RecordInv /\ CallInv
      /\ Scope \in Scopes
  BY OneShotAssumption DEF IInv
<1>2. ASSUME NEW r \in Requests, Sync(r) PROVE IInv'
  <2>1. /\ UNCHANGED <<kind, judged, crashes, bundles, cr, workVars, cur, step, tree, fetched,
                       dispatched, toolVars, call, told, got>>
    BY <1>2 DEF Sync, WorkLeaves, workVars, hostVars, toolVars
  <2>2. ApiTypeOK' /\ queue' \subseteq Requests
    BY <1>1, <1>2 DEF Sync, ApiTypeOK, PlainTypeOK
  <2>3. StoreTypeOK' /\ PlainTypeOK'
    BY <1>1, <2>1, <2>2 DEF StoreTypeOK, PlainTypeOK
  <2>4. WorkInv' /\ RecordInv' /\ CallInv'
    BY <1>1, <2>1 DEF WorkInv, RecordInv, CallInv, Backed
  <2> QED BY <2>2, <2>3, <2>4 DEF IInv
<1>3. CASE SweepBundle \/ Tick
  <2>1. UNCHANGED <<kind, crashes, cr, cached, synced, queue, cur, step, tree, fetched,
                    dispatched, call, told, got>>
    BY <1>3 DEF SweepBundle, Tick, WorkLeaves, workVars, hostVars, toolVars, apiVars
  <2>2. StoreTypeOK'
    <3>1. ASSUME NEW c \in Contents, SweepJudge(Scope, c) PROVE StoreTypeOK'
      BY <1>1, <3>1 DEF SweepJudge, StoreTypeOK
    <3>2. ASSUME SweepRemove PROVE StoreTypeOK'
      <4>1. judged[1] \in Scopes /\ judged[2] \in Contents
        BY <1>1, <3>2 DEF SweepRemove, StoreTypeOK
      <4> QED BY <1>1, <3>2, <4>1, StoreSteps DEF SweepRemove, StoreTypeOK
    <3>3. ASSUME Tick PROVE StoreTypeOK'
      BY <1>1, <3>3, StoreAges DEF Tick, WorkLeaves, StoreTypeOK
    <3> QED BY <1>3, <3>1, <3>2, <3>3 DEF SweepBundle
  <2>3. PlainTypeOK' /\ ApiTypeOK'
    BY <1>1, <2>1 DEF PlainTypeOK, ApiTypeOK
  <2>4. WorkInv' /\ RecordInv' /\ CallInv'
    BY <1>1, <2>1 DEF WorkInv, RecordInv, CallInv, Backed
  <2> QED BY <2>2, <2>3, <2>4 DEF IInv
<1>4. CASE Crash
  <2>1. /\ UNCHANGED <<kind, told, got, bundles, cr, fetched, dispatched>> /\ judged' = None
        /\ call' = [r \in Requests |-> IF call[r] = "create" THEN "create" ELSE "done"]
        /\ cached' = cr /\ synced' = [r \in Requests |-> TRUE]
        /\ queue' \subseteq Requests /\ cur' = None /\ step' = "idle" /\ tree' = None
    BY <1>4 DEF Crash, Idle, hostVars
  <2>2. crashes' \in 0..MaxCrashes
    BY <1>1, <1>4, OneShotAssumption DEF Crash, PlainTypeOK
  <2>3. PlainTypeOK' /\ ApiTypeOK' /\ StoreTypeOK'
    BY <1>1, <2>1, <2>2 DEF PlainTypeOK, ApiTypeOK, StoreTypeOK, Calls, Steps
  <2>4. WorkInv' /\ RecordInv'
    BY <1>1, <2>1 DEF WorkInv, RecordInv, Backed
  <2>5. CallInv'
    BY <1>1, <2>1 DEF CallInv, Backed
  <2> QED BY <2>3, <2>4, <2>5 DEF IInv
<1> QED BY <1>2, <1>3, <1>4

LEMMA NextInv == IInv /\ [Next]_vars => IInv'
<1> SUFFICES ASSUME IInv, [Next]_vars PROVE IInv'
  OBVIOUS
<1>1. CASE UNCHANGED vars
  <2>1. UNCHANGED <<kind, bundles, judged, call, told, got, cr, cached, synced, queue, cur, step,
                    tree, fetched, dispatched, crashes>>
    BY <1>1 DEF vars, storeVars, toolVars, apiVars, workVars, hostVars
  <2> QED BY <2>1 DEF IInv, StoreTypeOK, PlainTypeOK, ApiTypeOK, WorkInv, RecordInv, CallInv, Backed
<1>2. CASE Next
  BY <1>2, ToolInv, MachineInv, ReconcileInv, RecordsInv, HostInv, BundleInv DEF Next, Worker
<1> QED BY <1>1, <1>2

LEMMA Invariance == Spec => []IInv
  BY InitInv, NextInv, PTL DEF Spec

-----------------------------------------------------------------------------
(* TypeCorrect: every variable of the one-shot requests keeps its type.            *)
THEOREM TypeCorrect == Spec => []TypeOK
<1>1. IInv => TypeOK
  BY TypeParts DEF IInv
<1> QED BY <1>1, Invariance, PTL

(* AnswersAreHonest: whoever is told ok has had its workflow dispatched, or gets files    *)
(* that were read from the host for its own request, whatever other requests share its   *)
(* bundle and however stale the copies its controller worked on.                   *)
THEOREM AnswersAreHonest == Spec => []HonestAnswer
<1>1. IInv => HonestAnswer
  BY DEF IInv, CallInv, Backed, HonestAnswer
<1> QED BY <1>1, Invariance, PTL
=============================================================================
