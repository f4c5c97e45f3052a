---------------------- MODULE RepositoryLifecycleProofs ----------------------
(***************************************************************************)
(* Theorems about RepositoryLifecycle, for any number of remote repositories    *)
(* under the name, of accounts, of edits, of outside deletions and of restarts.     *)
(***************************************************************************)
EXTENDS RepositoryLifecycle, TLAPS

(* A copy that counts as current is the object.                                *)
CopyInv ==
  /\ synced => cached = obj
  /\ current /\ step # "idle" => seen = obj

(* No id is known that has not been given out.                                 *)
IdInv ==
  /\ \A o \in {obj, cached, seen, cseen} : o.id <= last
  /\ found <= last /\ released.id <= last /\ \A p \in Places : host[p] <= last

(* A create-only copy of the object knows only ids the provider created.          *)
MadeInv ==
  mode = "create-only" =>
    /\ \A o \in {obj, cached, seen} : o.id # NoId => o.id \in made
    /\ step = "record" => found \in made

(* What Reconcile has established when it comes to a step.                      *)
StepInv ==
  /\ step = "create" => seen.id = NoId
  /\ step = "record" /\ seen.id # NoId => found = seen.id
  /\ step = "release" /\ seen.id # NoId => host[seen.at] # seen.id

IInv == TypeOK /\ CopyInv /\ IdInv /\ MadeInv /\ StepInv /\ GoneByName

LEMMA ObjectFields ==
  /\ Absent \in Objects /\ Absent.id = NoId /\ ~Absent.live
  /\ \A p \in Places : Fresh(p) \in Objects /\ Fresh(p).id = NoId
  /\ \A o \in Objects : o.id \in Ids \cup {NoId} /\ o.id \in Nat /\ o.at \in Places
  /\ \A i \in Ids \cup {NoId} : i \in Nat
  /\ \A v \in Views : v.id \in Ids \cup {NoId} /\ v.id \in Nat /\ v.at \in Places
  /\ \A o \in Objects : View(o) \in Views /\ View(o).id = o.id /\ View(o).at = o.at
  /\ View(Absent) \in Views /\ View(Absent).id = NoId
<1>1. \A i \in Ids \cup {NoId} : i \in Nat
  BY LifecycleAssumption DEF Ids, NoId
<1>2. Absent \in Objects /\ Absent.id = NoId /\ ~Absent.live
  BY LifecycleAssumption DEF Objects, Absent, Reasons
<1>3. \A p \in Places : Fresh(p) \in Objects /\ Fresh(p).id = NoId
  BY <1>2 DEF Objects, Fresh
<1>4. \A o \in Objects : o.id \in Ids \cup {NoId} /\ o.at \in Places
  BY DEF Objects
<1>5. \A v \in Views : v.id \in Ids \cup {NoId} /\ v.at \in Places
  BY DEF Views
<1>6. \A o \in Objects : View(o) \in Views /\ View(o).id = o.id /\ View(o).at = o.at
  BY <1>4 DEF View, Views
<1> QED BY <1>1, <1>2, <1>3, <1>4, <1>5, <1>6

LEMMA InitInv == Init => IInv
<1> SUFFICES ASSUME Init PROVE IInv
  OBVIOUS
<1>1. last \in Ids \cup {NoId} /\ last \in Nat
  BY LifecycleAssumption DEF Init, Ids, NoId
<1>2. mode \in Modes /\ flaps \in 0..MaxFlaps /\ last \in 0..MaxIds
  BY LifecycleAssumption DEF Init
<1>h. host \in [Places -> Ids \cup {NoId}] /\ \A p \in Places : host[p] <= last
  BY <1>1 DEF Init, NoId
<1>r. released \in Views /\ released.id = NoId
  BY ObjectFields DEF Init, NoRelease
<1>o. obj \in Objects /\ obj.id = NoId
  BY ObjectFields DEF Init
<1>3. TypeOK
  BY <1>h, <1>r, <1>o, <1>2, ObjectFields DEF Init, TypeOK, Steps, CommitSteps
<1>4. IdInv
  BY <1>1, <1>h, <1>r, <1>o, ObjectFields DEF Init, IdInv, NoId
<1>5. CopyInv /\ MadeInv /\ StepInv /\ GoneByName
  BY <1>r, <1>o, ObjectFields DEF Init, CopyInv, MadeInv, StepInv, GoneByName
<1> QED BY <1>3, <1>4, <1>5 DEF IInv

(* Reconcile ends, with a write of copy o or without one.                        *)
Ends(o) ==
  /\ Stop
  /\ Write(o) \/ (o = obj /\ UNCHANGED <<apiVars, current>>)
  /\ queued' \in BOOLEAN
  /\ UNCHANGED <<Same, hostVars, commitVars>>

LEMMA EndInv ==
  ASSUME IInv, NEW o \in Objects, Ends(o), o.id <= last,
         mode = "create-only" /\ o.id # NoId => o.id \in made,
         released' \in Views, released'.id <= last,
         released'.id # NoId => host[released'.at] # released'.id
  PROVE  IInv'
<1>0. TypeOK /\ CopyInv /\ IdInv /\ MadeInv /\ StepInv /\ GoneByName
  BY DEF IInv
<1>1. /\ obj' = o /\ cached' = cached
      /\ synced' \in BOOLEAN /\ current' \in BOOLEAN
      /\ synced' => synced /\ o = obj
  <2>1. CASE Write(o)
    BY <2>1 DEF Write
  <2>2. CASE o = obj /\ UNCHANGED <<apiVars, current>>
    BY <1>0, <2>2 DEF TypeOK, apiVars
  <2> QED BY <2>1, <2>2 DEF Ends
<1>2. step' = "idle" /\ seen' = Absent /\ found' = NoId /\ UNCHANGED <<mode, flaps, host, made, last, cstep, cseen>>
  BY DEF Ends, Stop, Same, hostVars, commitVars
<1>3. TypeOK'
  BY <1>0, <1>1, <1>2, ObjectFields DEF TypeOK, Ends, Steps
<1>4. CopyInv'
  BY <1>0, <1>1, <1>2 DEF CopyInv
<1>5. last \in Nat
  BY <1>0, LifecycleAssumption DEF TypeOK
<1>6. IdInv'
  BY <1>0, <1>1, <1>2, <1>5, ObjectFields DEF IdInv, NoId
<1>7. MadeInv' /\ StepInv' /\ GoneByName'
  BY <1>0, <1>1, <1>2, ObjectFields DEF MadeInv, StepInv, GoneByName
<1> QED BY <1>3, <1>4, <1>6, <1>7 DEF IInv

(* Reconcile goes on to another step; the object and the host stay.              *)
LEMMA GoOnInv ==
  ASSUME IInv, step # "idle", step' \in Steps, found' \in Ids \cup {NoId}, found' <= last, StepInv',
         mode = "create-only" /\ step' = "record" => found' \in made, queued' \in BOOLEAN,
         UNCHANGED <<Same, apiVars, seen, current, hostVars, commitVars, released>>
  PROVE  IInv'
<1>0. TypeOK /\ CopyInv /\ IdInv /\ MadeInv /\ StepInv /\ GoneByName
  BY DEF IInv
<1>1. UNCHANGED <<mode, flaps, obj, cached, synced, seen, current, host, made, last, cstep, cseen, released>>
  BY DEF Same, apiVars, hostVars, commitVars
<1>2. TypeOK'
  BY <1>0, <1>1 DEF TypeOK
<1>3. CopyInv' /\ IdInv' /\ MadeInv' /\ GoneByName'
  BY <1>0, <1>1 DEF CopyInv, IdInv, MadeInv, GoneByName
<1> QED BY <1>2, <1>3 DEF IInv

(* A repository appears under an account, whoever creates it: its id is new.         *)
Appears(m) ==
  /\ \E q \in Places : Appear(q)
  /\ made' = m /\ made \subseteq m /\ m \subseteq made \cup {last + 1}

LEMMA AppearsInv ==
  ASSUME IInv, NEW m, Appears(m), step' \in Steps, cstep' \in CommitSteps, cseen' \in {cseen, View(Absent)},
         step' = step \/ (step # "idle" /\ step' \in Reasons)
                     \/ (step = "create" /\ step' = "record" /\ found' = last + 1 /\ last + 1 \in m),
         found' = found \/ (found' = last + 1 /\ step' = "record" /\ step = "create"),
         queued' \in BOOLEAN,
         UNCHANGED <<Same, apiVars, seen, current, released>>
  PROVE  IInv'
<1>0. TypeOK /\ CopyInv /\ IdInv /\ MadeInv /\ StepInv /\ GoneByName
  BY DEF IInv
<1>1. UNCHANGED <<mode, flaps, obj, cached, synced, seen, current, released>>
  BY DEF Same, apiVars
<1>q. PICK q \in Places : Appear(q)
  BY DEF Appears
<1>a. /\ last < MaxIds /\ last' = last + 1 /\ host' = [host EXCEPT ![q] = last + 1]
      /\ made' = m /\ made \subseteq m /\ m \subseteq made \cup {last + 1}
  BY <1>q DEF Appear, Appears
<1>2. /\ last \in Nat /\ found \in Nat /\ released.id \in Nat /\ released.at \in Places
      /\ seen.at \in Places /\ \A p \in Places : host[p] \in Nat
      /\ obj.id \in Nat /\ cached.id \in Nat /\ seen.id \in Nat /\ cseen.id \in Nat
      /\ cseen'.id \in {cseen.id, NoId}
  BY <1>0, ObjectFields, LifecycleAssumption DEF TypeOK
<1>3. last' \in Ids /\ last' \in 0..MaxIds /\ made' \subseteq Ids
  BY <1>0, <1>2, <1>a, LifecycleAssumption DEF Ids, TypeOK
<1>h. /\ host' \in [Places -> Ids \cup {NoId}]
      /\ \A p \in Places : host'[p] = host[p] \/ host'[p] = last + 1
  BY <1>0, <1>3, <1>a DEF TypeOK
<1>4. TypeOK'
  BY <1>0, <1>1, <1>3, <1>a, <1>h, ObjectFields DEF TypeOK
<1>5. CopyInv'
  BY <1>0, <1>1 DEF CopyInv
<1>6. IdInv'
  BY <1>0, <1>1, <1>2, <1>a, <1>h DEF IdInv, NoId
<1>7. MadeInv'
  BY <1>0, <1>1, <1>a DEF MadeInv, Reasons
<1>8. StepInv'
  BY <1>0, <1>1, <1>2, <1>a, <1>h DEF StepInv, IdInv, Reasons
<1>9. GoneByName'
  BY <1>0, <1>1, <1>2, <1>a, <1>h DEF GoneByName, IdInv
<1> QED BY <1>4, <1>5, <1>6, <1>7, <1>8, <1>9 DEF IInv

(* The repository under an account goes away.                                   *)
LEMMA GoneInv ==
  ASSUME IInv, NEW q \in Places, host' = [host EXCEPT ![q] = NoId], step' \in Steps,
         \/ step' = step \/ (step # "idle" /\ step' \in Reasons)
         \/ step # "idle" /\ step' = "release" /\ q = seen.at,
         flaps' \in 0..MaxFlaps,
         UNCHANGED <<mode, apiVars, queued, seen, current, found, made, last, commitVars, released>>
  PROVE  IInv'
<1>0. TypeOK /\ CopyInv /\ IdInv /\ MadeInv /\ StepInv /\ GoneByName
  BY DEF IInv
<1>1. UNCHANGED <<mode, obj, cached, synced, queued, seen, current, found, made, last, cstep, cseen, released>>
  BY DEF apiVars, commitVars
<1>2. last \in Nat /\ seen.at \in Places /\ released.at \in Places
  BY <1>0, ObjectFields, LifecycleAssumption DEF TypeOK
<1>h. /\ host' \in [Places -> Ids \cup {NoId}] /\ host'[q] = NoId
      /\ \A p \in Places : host'[p] \in {host[p], NoId}
  BY <1>0 DEF TypeOK
<1>3. TypeOK'
  BY <1>0, <1>1, <1>h DEF TypeOK
<1>4. CopyInv' /\ IdInv' /\ MadeInv' /\ GoneByName'
  BY <1>0, <1>1, <1>2, <1>h DEF CopyInv, IdInv, MadeInv, GoneByName, Reasons, NoId
<1>5. StepInv'
  BY <1>0, <1>1, <1>2, <1>h DEF StepInv, Reasons
<1> QED BY <1>3, <1>4, <1>5 DEF IInv

LEMMA NextInv == IInv /\ [Next]_vars => IInv'
<1> SUFFICES ASSUME IInv, [Next]_vars PROVE IInv'
  OBVIOUS
<1>0. TypeOK /\ CopyInv /\ IdInv /\ MadeInv /\ StepInv /\ GoneByName
  BY DEF IInv
<1> USE <1>0
<1>t. last \in Nat /\ found \in Nat /\ released.id \in Nat /\ released.at \in Places
      /\ seen.at \in Places /\ cseen.at \in Places /\ obj.at \in Places
      /\ (\A p \in Places : host[p] \in Nat /\ host[p] \in Ids \cup {NoId})
      /\ obj.id \in Nat /\ cached.id \in Nat /\ seen.id \in Nat /\ cseen.id \in Nat
  BY ObjectFields, LifecycleAssumption DEF TypeOK
<1>1. CASE UNCHANGED vars
  BY <1>1 DEF vars, apiVars, workVars, hostVars, commitVars, IInv, TypeOK, CopyInv, IdInv,
              MadeInv, StepInv, GoneByName
<1>2. ASSUME NEW ready \in BOOLEAN, Reconcile(ready) PROVE IInv'
  <2>1. CASE step' = step
    BY <1>2, <2>1 DEF Reconcile, Same, apiVars, workVars, hostVars, commitVars, IInv, TypeOK, CopyInv, IdInv,
              MadeInv, StepInv, GoneByName
  <2>2. CASE step' = Entry(ready) /\ seen' = cached /\ current' = synced /\ found' = NoId
    <3>1. Entry(ready) \in Steps \ {"create", "record"}
      BY DEF Entry, DeleteEntry, Steps, Reasons
    <3>2. Entry(ready) = "release" => cached.id = NoId
      BY DEF Entry, DeleteEntry
    <3>3. TypeOK'
      BY <1>2, <2>2, <3>1 DEF Reconcile, Same, apiVars, hostVars, commitVars, TypeOK
    <3> QED BY <1>2, <1>t, <2>2, <3>1, <3>2, <3>3 DEF Reconcile, Same, apiVars, hostVars, commitVars,
              IInv, CopyInv, IdInv, MadeInv, StepInv, GoneByName, NoId
  <2> QED BY <1>2, <2>1, <2>2 DEF Reconcile, workVars
<1>3. CASE AddFinalizer
  <2> DEFINE o == IF current THEN [seen EXCEPT !.fin = TRUE] ELSE obj
  <2>1. o \in Objects /\ o.id = obj.id
    BY <1>3 DEF AddFinalizer, TypeOK, CopyInv, Objects
  <2>2. Ends(o)
    BY <1>3 DEF AddFinalizer, Ends, TypeOK
  <2>3. released' = released
    BY <1>3 DEF AddFinalizer
  <2> HIDE DEF o
  <2> QED BY <2>1, <2>2, <2>3, EndInv DEF IdInv, MadeInv, GoneByName, TypeOK
<1>4. CASE SetNotReady
  <2> DEFINE o == IF current THEN [seen EXCEPT !.reason = step] ELSE obj
  <2>1. o \in Objects /\ o.id = obj.id
    BY <1>4 DEF SetNotReady, TypeOK, CopyInv, Objects, Reasons
  <2>2. Ends(o)
    BY <1>4 DEF SetNotReady, Ends, TypeOK
  <2>3. released' = released
    BY <1>4 DEF SetNotReady
  <2> HIDE DEF o
  <2> QED BY <2>1, <2>2, <2>3, EndInv DEF IdInv, MadeInv, GoneByName, TypeOK
<1>5. CASE RecordReady
  <2> DEFINE o == IF current THEN [seen EXCEPT !.id = found, !.reason = "Ready"] ELSE obj
  <2>1. o \in Objects /\ o.id = (IF current THEN found ELSE obj.id)
    BY <1>5 DEF TypeOK, Objects, Reasons
  <2>2. Ends(o)
    BY <1>5 DEF RecordReady, Ends, TypeOK
  <2>3. released' = released /\ step = "record"
    BY <1>5 DEF RecordReady
  <2> HIDE DEF o
  <2> QED BY <2>1, <2>2, <2>3, EndInv DEF IdInv, MadeInv, GoneByName, TypeOK
<1>6. CASE ReleaseObject
  <2> DEFINE o == IF current THEN Absent ELSE obj
  <2>1. o \in Objects /\ o.id \in {obj.id, NoId}
    BY ObjectFields DEF TypeOK
  <2>2. Ends(o)
    BY <1>6 DEF ReleaseObject, Ends, TypeOK
  <2>3. current /\ step = "release" => seen = obj
    BY DEF CopyInv
  <2>4. \/ released' = released \/ released' = NoRelease
        \/ released' = View(obj) /\ current /\ step = "release"
    BY <1>6 DEF ReleaseObject
  <2>r. NoRelease \in Views /\ NoRelease.id = NoId
    BY ObjectFields DEF NoRelease
  <2>5. released' \in Views /\ released'.id <= last
    BY <1>t, <2>4, <2>r, ObjectFields DEF IdInv, TypeOK, NoId
  <2>6. released'.id # NoId => host[released'.at] # released'.id
    BY <2>3, <2>4, <2>r, ObjectFields DEF StepInv, GoneByName, TypeOK
  <2>7. o.id <= last /\ (mode = "create-only" /\ o.id # NoId => o.id \in made)
    BY <1>t, <2>1 DEF IdInv, MadeInv, NoId
  <2> HIDE DEF o
  <2> QED BY <2>1, <2>2, <2>5, <2>6, <2>7, EndInv
<1>7. CASE EnsureGet
  <2>0. PICK h \in Shown(seen.at) : /\ step' = AfterGet(seen, h)
                                    /\ found' = (IF AfterGet(seen, h) = "record" THEN h ELSE NoId)
    BY <1>7 DEF EnsureGet
  <2>h. h \in Ids \cup {NoId} /\ h <= last
    BY <1>t DEF Shown, IdInv, NoId
  <2>1. AfterGet(seen, h) \in Steps \ {"idle", "release"}
    BY DEF AfterGet, Steps, Reasons
  <2>2. AfterGet(seen, h) = "create" => seen.id = NoId
    BY DEF AfterGet
  <2>3. AfterGet(seen, h) = "record" => /\ seen.id # NoId => h = seen.id
                                        /\ mode = "create-only" => seen.id # NoId
    BY DEF AfterGet, IdentityOK
  <2>4. /\ step # "idle" /\ seen' = seen
        /\ UNCHANGED <<Same, apiVars, seen, current, hostVars, commitVars, released>>
        /\ queued' = queued
    BY <1>7 DEF EnsureGet
  <2>5. StepInv'
    BY <2>0, <2>1, <2>2, <2>3, <2>4 DEF StepInv
  <2>6. found' \in Ids \cup {NoId} /\ found' <= last
    BY <1>t, <2>0, <2>h DEF NoId
  <2>7. mode = "create-only" /\ step' = "record" => found' \in made
    BY <2>0, <2>3, <2>4 DEF MadeInv
  <2> QED BY <2>0, <2>1, <2>4, <2>5, <2>6, <2>7, GoOnInv DEF TypeOK
<1>8. CASE EnsureCreate
  <2>1. Appears(made \cup {last + 1})
    BY <1>8, <1>t, LifecycleAssumption DEF EnsureCreate, CreateRemote, Appears
  <2>2. /\ step = "create" /\ step' = "record" /\ found' = last + 1
        /\ UNCHANGED <<Same, apiVars, queued, seen, current, cstep, cseen, released>>
    BY <1>8 DEF EnsureCreate, commitVars
  <2> QED BY <2>1, <2>2, AppearsInv DEF TypeOK, Steps
<1>9. CASE CheckIdentity
  <2>1. /\ step' \in {"release", "blind", "delete", "Failed"}
        /\ step' = "release" => host[seen.at] = NoId
        /\ step # "idle" /\ found' = found
        /\ UNCHANGED <<Same, apiVars, queued, seen, current, hostVars, commitVars, released>>
    BY <1>9 DEF CheckIdentity, Proceed
  <2>2. StepInv'
    BY <2>1 DEF StepInv, hostVars
  <2> QED BY <2>1, <2>2, GoOnInv DEF TypeOK, IdInv, Steps, Reasons
<1>10. CASE DeleteRemote
  <2>1. /\ step # "idle"
        /\ UNCHANGED <<mode, flaps, apiVars, queued, seen, current, found, made, last, commitVars, released>>
    BY <1>10 DEF DeleteRemote, Proceed, Same
  <2>2. CASE host' = [host EXCEPT ![seen.at] = NoId] /\ step' = "release"
    BY <1>t, <2>1, <2>2, GoneInv DEF TypeOK, Steps
  <2>3. CASE UNCHANGED host /\ step' = "blind"
    <3>1. StepInv'
      BY <2>3 DEF StepInv
    <3>2. UNCHANGED hostVars /\ UNCHANGED Same
      BY <2>1, <2>3 DEF hostVars, Same
    <3> QED BY <2>1, <2>3, <3>1, <3>2, GoOnInv DEF TypeOK, IdInv, Steps
  <2> QED BY <1>10, <2>2, <2>3 DEF DeleteRemote, Proceed
<1>11. CASE HostFails
  <2>1. /\ step' \in {"Failed", "RateLimited"}
        /\ step # "idle" /\ found' = found
        /\ UNCHANGED <<Same, apiVars, queued, seen, current, hostVars, commitVars, released>>
    BY <1>11 DEF HostFails, FailReason, Proceed
  <2>2. StepInv'
    BY <2>1 DEF StepInv
  <2> QED BY <2>1, <2>2, GoOnInv DEF TypeOK, IdInv, Steps, Reasons
<1>12. CASE AnswerLost
  <2>1. /\ step' \in {"Failed"} /\ step # "idle"
        /\ UNCHANGED <<mode, flaps, apiVars, queued, seen, current, found, cstep, cseen, commitVars, released>>
    BY <1>12 DEF AnswerLost, FailReason, Proceed, Same, commitVars
  <2>2. CASE CreateRemote(seen.at)
    <3>1. Appears(made \cup {last + 1})
      BY <1>t, <2>2, LifecycleAssumption DEF CreateRemote, Appears
    <3> QED BY <2>1, <2>2, <3>1, AppearsInv DEF TypeOK, Steps, Reasons, Same
  <2>3. CASE host' = [host EXCEPT ![seen.at] = NoId] /\ UNCHANGED <<made, last>>
    BY <1>t, <2>1, <2>3, GoneInv DEF TypeOK, Steps, Reasons
  <2> QED BY <1>12, <2>2, <2>3 DEF AnswerLost
<1>13. CASE CommitBegin \/ CommitGet
  <2>1. /\ cstep' \in CommitSteps /\ cseen' \in {View(cached), cseen, View(Absent)}
        /\ UNCHANGED <<mode, flaps, obj, cached, synced, queued, step, seen, current, found, host, made, last, released>>
    BY <1>13 DEF CommitBegin, CommitGet, CommitSteps, Same, apiVars, workVars, hostVars
  <2>2. TypeOK'
    BY <2>1, ObjectFields DEF TypeOK
  <2>i. cseen'.id <= last
    BY <1>t, <2>1, ObjectFields DEF IdInv, TypeOK, NoId
  <2>3. IdInv'
    BY <2>1, <2>i DEF IdInv
  <2>4. CopyInv' /\ MadeInv' /\ StepInv' /\ GoneByName'
    BY <2>1 DEF CopyInv, MadeInv, StepInv, GoneByName
  <2> QED BY <2>2, <2>3, <2>4 DEF IInv
<1>14. CASE CommitCreate
  <2>1. /\ cstep' = "idle" /\ cseen' = View(Absent)
        /\ UNCHANGED <<mode, flaps, Same, apiVars, obj, cached, synced, queued, step, seen, current, found, released>>
    BY <1>14 DEF CommitCreate, Same, apiVars, workVars
  <2>2. CASE CreateRemote(cseen.at)
    <3>1. Appears(made \cup {last + 1})
      BY <1>t, <2>2, LifecycleAssumption DEF CreateRemote, Appears
    <3> QED BY <2>1, <3>1, AppearsInv DEF TypeOK, CommitSteps
  <2>3. CASE UNCHANGED <<host, made, last>>
    <3>1. TypeOK'
      BY <2>1, <2>3, ObjectFields DEF TypeOK, CommitSteps
    <3>2. IdInv'
      BY <1>t, <2>1, <2>3, ObjectFields DEF IdInv, NoId
    <3>3. CopyInv' /\ MadeInv' /\ StepInv' /\ GoneByName'
      BY <2>1, <2>3 DEF CopyInv, MadeInv, StepInv, GoneByName
    <3> QED BY <3>1, <3>2, <3>3 DEF IInv
  <2> QED BY <1>14, <2>2, <2>3 DEF CommitCreate, hostVars
<1>15. CASE Sync
  <2>1. /\ cached' = obj /\ synced' = TRUE /\ queued' = TRUE
        /\ UNCHANGED <<mode, flaps, obj, step, seen, current, found, host, made, last, cstep, cseen, released>>
    BY <1>15 DEF Sync, Same, workVars, hostVars, commitVars
  <2> QED BY <2>1 DEF IInv, TypeOK, CopyInv, IdInv, MadeInv, StepInv, GoneByName
<1>16. CASE DeleteObject
  <2> DEFINE o == IF obj.fin THEN [obj EXCEPT !.deleting = TRUE] ELSE Absent
  <2>1. o \in Objects /\ o.id \in {obj.id, NoId}
    BY ObjectFields DEF TypeOK, Objects
  <2>2. /\ obj' = o /\ cached' = cached /\ synced' \in BOOLEAN /\ current' \in BOOLEAN
        /\ (synced' => synced /\ o = obj) /\ (current' => current /\ o = obj)
        /\ UNCHANGED <<mode, flaps, queued, step, seen, found, host, made, last, cstep, cseen, released>>
    BY <1>16 DEF DeleteObject, Write, Same, hostVars, commitVars, TypeOK
  <2> HIDE DEF o
  <2>3. TypeOK'
    BY <2>1, <2>2 DEF TypeOK
  <2>4. IdInv'
    BY <1>t, <2>1, <2>2 DEF IdInv, NoId
  <2>5. CopyInv' /\ MadeInv' /\ StepInv' /\ GoneByName'
    BY <2>1, <2>2 DEF CopyInv, MadeInv, StepInv, GoneByName
  <2> QED BY <2>3, <2>4, <2>5 DEF IInv
<1>17. ASSUME NEW p \in Places, OthersCreate(p) PROVE IInv'
  <2>1. Appears(made)
    BY <1>17 DEF OthersCreate, Appears
  <2>2. UNCHANGED <<Same, apiVars, queued, step, seen, current, found, cstep, cseen, released>>
    BY <1>17 DEF OthersCreate, workVars, commitVars
  <2> QED BY <2>1, <2>2, AppearsInv DEF TypeOK
<1>18. ASSUME NEW p \in Places, OthersDelete(p) PROVE IInv'
  <2>1. flaps' \in 0..MaxFlaps
    BY <1>18, LifecycleAssumption DEF OthersDelete, TypeOK
  <2>2. /\ host' = [host EXCEPT ![p] = NoId] /\ step' = step
        /\ UNCHANGED <<mode, apiVars, queued, seen, current, found, made, last, commitVars, released>>
    BY <1>18 DEF OthersDelete, workVars
  <2> QED BY <2>1, <2>2, GoneInv DEF TypeOK
<1>20. ASSUME NEW p \in Places, EditSpec(p) PROVE IInv'
  <2> DEFINE o == [obj EXCEPT !.at = p]
  <2>0. flaps' \in 0..MaxFlaps
    BY <1>20, LifecycleAssumption DEF EditSpec, TypeOK
  <2>1. o \in Objects /\ o.id = obj.id
    BY DEF TypeOK, Objects
  <2>2. /\ obj' = o /\ cached' = cached /\ synced' \in BOOLEAN /\ current' \in BOOLEAN
        /\ (synced' => synced /\ o = obj) /\ (current' => current /\ o = obj)
        /\ UNCHANGED <<mode, queued, step, seen, found, host, made, last, cstep, cseen, released>>
    BY <1>20 DEF EditSpec, Write, hostVars, commitVars, TypeOK
  <2> HIDE DEF o
  <2>3. TypeOK'
    BY <2>0, <2>1, <2>2 DEF TypeOK
  <2>4. IdInv'
    BY <1>t, <2>1, <2>2 DEF IdInv, NoId
  <2>5. CopyInv' /\ MadeInv' /\ StepInv' /\ GoneByName'
    BY <2>1, <2>2 DEF CopyInv, MadeInv, StepInv, GoneByName
  <2> QED BY <2>3, <2>4, <2>5 DEF IInv
<1>19. CASE Crash
  <2>1. flaps' \in 0..MaxFlaps
    BY <1>19, LifecycleAssumption DEF Crash, TypeOK
  <2>2. /\ cached' = obj /\ synced' = TRUE /\ queued' \in BOOLEAN /\ current' = FALSE
        /\ step' = "idle" /\ seen' = Absent /\ found' = NoId /\ cstep' = "idle" /\ cseen' = View(Absent)
        /\ UNCHANGED <<mode, obj, host, made, last, released>>
    BY <1>19 DEF Crash, Stop, hostVars, TypeOK, Objects
  <2>3. TypeOK'
    BY <2>1, <2>2, ObjectFields DEF TypeOK, Steps, CommitSteps
  <2>4. IdInv'
    BY <1>t, <2>2, ObjectFields DEF IdInv, NoId
  <2>5. CopyInv' /\ MadeInv' /\ StepInv' /\ GoneByName'
    BY <2>2, ObjectFields DEF CopyInv, MadeInv, StepInv, GoneByName
  <2> QED BY <2>3, <2>4, <2>5 DEF IInv
<1> QED BY <1>1, <1>2, <1>3, <1>4, <1>5, <1>6, <1>7, <1>8, <1>9, <1>10, <1>11, <1>12, <1>13,
           <1>14, <1>15, <1>16, <1>17, <1>18, <1>19, <1>20 DEF Next, Controller, Answered

-----------------------------------------------------------------------------
LEMMA Invariance == Spec => []IInv
<1>1. Init => IInv
  BY InitInv
<1>2. IInv /\ [Next]_vars => IInv'
  BY NextInv
<1> QED BY <1>1, <1>2, PTL DEF Spec

(* TypeCorrect: every variable keeps its type.                                 *)
THEOREM TypeCorrect == Spec => []TypeOK
<1>1. IInv => TypeOK
  BY DEF IInv
<1> QED BY <1>1, Invariance, PTL

(* CreateOnlyNeverAdopts: a create-only Repository records only a remote that the       *)
(* provider created, whatever copies its controller worked on.                   *)
THEOREM CreateOnlyNeverAdopts == Spec => []NeverAdopts
<1>1. IInv => NeverAdopts
  BY DEF IInv, MadeInv, NeverAdopts
<1> QED BY <1>1, Invariance, PTL

(* ReleasedIsGoneByName: the remote that a Repository recorded is, once the Repository has  *)
(* been released after a deletion that could see it, not under the owner and name the       *)
(* Repository had, and does not come back there, whoever creates and deletes that name and    *)
(* however often the spec was pointed at other accounts.                              *)
THEOREM ReleasedIsGoneByName == Spec => []GoneByName
<1>1. IInv => GoneByName
  BY DEF IInv
<1> QED BY <1>1, Invariance, PTL

(* IdIsPinned: a recorded remote id stays until the Repository itself is gone.      *)
THEOREM IdIsPinned == Spec => RepoIdPinned
<1>1. IInv /\ [Next]_vars => [obj.id # NoId /\ obj'.live => obj'.id = obj.id]_vars
  <2> SUFFICES ASSUME IInv, Next, obj.id # NoId, obj'.live PROVE obj'.id = obj.id
    OBVIOUS
  <2>0. TypeOK /\ CopyInv /\ StepInv /\ ~Absent.live
    BY ObjectFields DEF IInv
  <2>1. CASE obj' = obj
    BY <2>1
  <2>2. CASE AddFinalizer \/ SetNotReady
    BY <2>0, <2>2 DEF AddFinalizer, SetNotReady, Write, CopyInv, TypeOK, Objects, apiVars, Reasons
  <2>3. CASE RecordReady
    BY <2>0, <2>3 DEF RecordReady, Write, CopyInv, StepInv, TypeOK, Objects, apiVars
  <2>4. CASE ReleaseObject
    BY <2>0, <2>4 DEF ReleaseObject, Write, apiVars
  <2>5. CASE DeleteObject
    BY <2>0, <2>5 DEF DeleteObject, Write, TypeOK, Objects
  <2>7. ASSUME NEW p \in Places, EditSpec(p) PROVE obj'.id = obj.id
    BY <2>0, <2>7 DEF EditSpec, Write, TypeOK, Objects
  <2>6. CASE ~(AddFinalizer \/ SetNotReady \/ RecordReady \/ ReleaseObject \/ DeleteObject)
    BY <2>1, <2>6, <2>7 DEF Next, Controller, Answered, Reconcile, EnsureGet, EnsureCreate, CheckIdentity,
         DeleteRemote, HostFails, AnswerLost, CommitBegin, CommitGet, CommitCreate, Sync,
         OthersCreate, OthersDelete, Crash, apiVars
  <2> QED BY <2>2, <2>3, <2>4, <2>5, <2>6
<1> QED BY <1>1, Invariance, PTL DEF Spec, RepoIdPinned
=============================================================================
