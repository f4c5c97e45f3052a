------------------------ MODULE RepositoryLifecycle ------------------------
(***************************************************************************)
(* One Repository object and the remote repositories its spec may stand for: the *)
(* Repository controller (controller/repository/controller.go), the GitHub     *)
(* backend's EnsureRepository and DeleteRepository with their identity checks  *)
(* (backend/github/backend.go), and the RepositoryCommit controller, which     *)
(* calls EnsureRepository too and drops its result.                           *)
(*                                                                         *)
(* A Reconcile reads the object from the informer cache once and writes it     *)
(* back with the version it read: "current" says that no write has come since. *)
(* Every host call is a step of its own, and other users of the host create    *)
(* and delete repositories under the same name between them.  The name may stand *)
(* under several accounts; spec.owner and spec.connectionRef, which users edit,   *)
(* choose one.                                                               *)
(***************************************************************************)
EXTENDS Naturals

CONSTANTS Modes,     \* the annotations considered: "plain", "create-only", "existing-only"
          Places,    \* the accounts the name may stand under
          Home,      \* the token's own account
          MaxIds,    \* bound: remote repositories ever created under the name
          MaxFlaps   \* bound: edits of the spec, deletions by others, and crashes

ASSUME LifecycleAssumption ==
  /\ Modes \subseteq {"plain", "create-only", "existing-only"}
  /\ Home \in Places
  /\ MaxIds \in Nat /\ MaxFlaps \in Nat

Ids == 1..MaxIds
NoId == 0            \* no remote repository, no recorded status.repoID

(* "Failed" stands for ConnectionNotReady, EnsureFailed, DeleteFailed and            *)
(* RepositoryIdentityConflict, which are recorded and tried again alike.           *)
Reasons == {"none", "Ready", "Failed", "RateLimited"}
Objects == [live : BOOLEAN, deleting : BOOLEAN, fin : BOOLEAN, at : Places,
            id : Ids \cup {NoId}, reason : Reasons]
Views == [id : Ids \cup {NoId}, at : Places]

VARIABLES mode,
          obj,       \* the Repository in the API server
          cached,    \* the controllers' cached copy
          synced,    \* the cached copy is the current version
          queued,    \* the Repository is in the controller's workqueue
          step,      \* where Reconcile is
          seen,      \* the copy Reconcile read
          current,   \* no write since that read
          found,     \* the remote id EnsureRepository returns
          host,      \* per account: the id of the remote repository of that name
          made,      \* ids the provider has created
          last,      \* the highest id given out
          cstep,     \* where the commit controller's EnsureRepository is
          cseen,     \* the account and id in the copy the commit controller read
          flaps,
          released   \* history: the id and account the Repository had when it was released
                     \* after a host delete that was not blind

apiVars == <<obj, cached, synced>>
workVars == <<step, seen, current, found>>
hostVars == <<host, made, last>>
commitVars == <<cstep, cseen>>
vars == <<mode, apiVars, queued, workVars, hostVars, commitVars, flaps, released>>

Steps == {"idle", "finalize", "check", "delete", "release", "blind", "forget", "get", "create", "record"}
        \cup Reasons
CommitSteps == {"idle", "get", "create"}

TypeOK ==
  /\ mode \in Modes
  /\ obj \in Objects /\ cached \in Objects /\ seen \in Objects /\ cseen \in Views
  /\ synced \in BOOLEAN /\ queued \in BOOLEAN /\ current \in BOOLEAN
  /\ step \in Steps /\ cstep \in CommitSteps
  /\ found \in Ids \cup {NoId} /\ host \in [Places -> Ids \cup {NoId}]
  /\ made \subseteq Ids /\ last \in 0..MaxIds
  /\ flaps \in 0..MaxFlaps
  /\ released \in Views

Absent == [live |-> FALSE, deleting |-> FALSE, fin |-> FALSE, at |-> Home, id |-> NoId,
           reason |-> "none"]
Fresh(p) == [Absent EXCEPT !.live = TRUE, !.at = p]
View(o) == [id |-> o.id, at |-> o.at]     \* what finds the remote of copy o
NoRelease == View(Absent)

(* The Repository has just been created; the name may be taken on the host.     *)
Init ==
  /\ mode \in Modes
  /\ obj \in {Fresh(p) : p \in Places} /\ cached = Absent /\ synced = FALSE /\ queued = FALSE
  /\ step = "idle" /\ seen = Absent /\ current = FALSE /\ found = NoId
  /\ last \in 0..MaxIds /\ last <= 1 /\ made = {}
  /\ host \in {[p \in Places |-> IF p = q THEN last ELSE NoId] : q \in Places}
  /\ cstep = "idle" /\ cseen = View(Absent)
  /\ flaps = 0 /\ released = NoRelease

-----------------------------------------------------------------------------
(* checkRepositoryIdentity of copy o against remote id r.  (Mutants: only         *)
(* create-only repositories are checked; an unrecorded id matches any remote.)   *)
IdentityOnlyCreateOnly(o, r) == mode = "create-only" => o.id = r
IdentityAdopts(o, r) == o.id = NoId \/ o.id = r
IdentityOK(o, r) == IF o.id = NoId THEN mode # "create-only" ELSE o.id = r

(* Writes.                                                                   *)
Write(o) ==
  /\ obj' = o
  /\ synced' = (o = obj /\ synced)
  /\ current' = (o = obj /\ current)
  /\ UNCHANGED cached

Stop == step' = "idle" /\ seen' = Absent /\ found' = NoId
Proceed(s) == step' = s /\ UNCHANGED <<seen, current, found>>

Same == <<mode, flaps>>

-----------------------------------------------------------------------------
(* Reconcile: read, then the deletion path, the finalizer, or EnsureRepository. *)

(* Mutant: nothing is done about a create-only Repository that has no id.          *)
DeleteEntryWaits ==
  CASE mode = "existing-only" -> "forget"
    [] mode = "create-only" -> IF cached.id = NoId THEN "idle" ELSE "check"
    [] OTHER -> "delete"

DeleteEntry ==
  CASE mode = "existing-only" -> "forget"
    [] mode = "create-only" -> IF cached.id = NoId THEN "release" ELSE "check"
    [] OTHER -> "delete"

Entry(ready) ==
  CASE cached.deleting -> IF ~cached.fin THEN "idle" ELSE IF ready THEN DeleteEntry ELSE "forget"
    [] ~cached.deleting /\ ~cached.fin -> "finalize"
    [] OTHER -> IF ready THEN "get" ELSE "Failed"

Reconcile(ready) ==
  /\ step = "idle" /\ queued
  /\ queued' = FALSE
  /\ IF cached.live /\ Entry(ready) # "idle"
     THEN step' = Entry(ready) /\ seen' = cached /\ current' = synced /\ found' = NoId
     ELSE UNCHANGED workVars
  /\ UNCHANGED <<Same, apiVars, hostVars, commitVars, released>>

AddFinalizer ==
  /\ step = "finalize"
  /\ IF current THEN Write([seen EXCEPT !.fin = TRUE]) ELSE UNCHANGED <<apiVars, current>>
  /\ queued' = TRUE
  /\ Stop
  /\ UNCHANGED <<Same, hostVars, commitVars, released>>

(* fail, waitForRateLimit: the reason is recorded and Reconcile is tried again. *)
SetNotReady ==
  /\ step \in Reasons
  /\ IF current THEN Write([seen EXCEPT !.reason = step]) ELSE UNCHANGED <<apiVars, current>>
  /\ queued' = TRUE
  /\ Stop
  /\ UNCHANGED <<Same, hostVars, commitVars, released>>

-----------------------------------------------------------------------------
(* EnsureRepository.                                                         *)

(* What a look at the name under account p shows: a repository the token may not see  *)
(* is a 404 too.                                                             *)
Shown(p) == {host[p], NoId}

(* Where it goes after looking up the name with copy o: h is what was shown.       *)
AfterGet(o, h) ==
  CASE h # NoId /\ IdentityOK(o, h) -> "record"
    [] h # NoId /\ ~IdentityOK(o, h) -> "Failed"
    [] h = NoId /\ o.id # NoId -> "Failed"
    [] h = NoId /\ o.id = NoId /\ mode = "existing-only" -> "Failed"
    [] OTHER -> "create"

EnsureGet ==
  /\ step = "get"
  /\ \E h \in Shown(seen.at) :
        /\ step' = AfterGet(seen, h)
        /\ found' = (IF AfterGet(seen, h) = "record" THEN h ELSE NoId)
  /\ UNCHANGED <<Same, apiVars, queued, seen, current, hostVars, commitVars, released>>

(* The host accepts a create when the name is free.                           *)
Appear(q) ==
  /\ host[q] = NoId /\ last < MaxIds
  /\ host' = [host EXCEPT ![q] = last + 1] /\ last' = last + 1

(* A create under account p; where that is no organisation the token can create in,   *)
(* the create is repeated under the token's own account (isNotOrg).              *)
CreateRemote(p) ==
  /\ \E q \in {p, Home} : Appear(q)
  /\ made' = made \cup {last + 1}

EnsureCreate ==
  /\ step = "create"
  /\ CreateRemote(seen.at)
  /\ step' = "record" /\ found' = last + 1
  /\ UNCHANGED <<Same, apiVars, queued, seen, current, commitVars, released>>

(* A host call fails: unreachable, rate limited, refused (the name may have been  *)
(* taken since the lookup).  (Mutant: a failed deletion still removes the finalizer.) *)
FailReasonReleases == IF step \in {"get", "create"} THEN "Failed" ELSE "release"
FailReason == "Failed"
HostFails ==
  /\ step \in {"get", "create", "check", "delete"}
  /\ Proceed(FailReason) \/ Proceed("RateLimited")
  /\ UNCHANGED <<Same, apiVars, queued, hostVars, commitVars, released>>

(* A create or a delete takes effect but its answer is lost.                   *)
AnswerLost ==
  /\ \/ step = "create" /\ CreateRemote(seen.at)
     \/ step = "delete" /\ host' = [host EXCEPT ![seen.at] = NoId] /\ UNCHANGED <<made, last>>
  /\ Proceed(FailReason)
  /\ UNCHANGED <<Same, apiVars, queued, commitVars, released>>

(* The status with the remote's id; a conflict is an error and a retry.         *)
RecordReady ==
  /\ step = "record"
  /\ IF current THEN Write([seen EXCEPT !.id = found, !.reason = "Ready"])
     ELSE UNCHANGED <<apiVars, current>>
  /\ queued' = (queued \/ ~current)
  /\ Stop
  /\ UNCHANGED <<Same, hostVars, commitVars, released>>

-----------------------------------------------------------------------------
(* DeleteRepository and the finalizer's removal.                             *)

CheckIdentity ==
  /\ step = "check"
  /\ LET h == host[seen.at] IN
     \/ h = NoId /\ Proceed("release")
     \/ h # NoId /\ Proceed("blind")
     \/ h # NoId /\ IdentityOK(seen, h) /\ Proceed("delete")
     \/ h # NoId /\ ~IdentityOK(seen, h) /\ Proceed("Failed")
  /\ UNCHANGED <<Same, apiVars, queued, hostVars, commitVars, released>>

(* The delete is by owner and name; any 404 is a success, also that of a remote the    *)
(* token may no longer see ("blind").                                        *)
DeleteRemote ==
  /\ step = "delete"
  /\ \/ host' = [host EXCEPT ![seen.at] = NoId] /\ Proceed("release")
     \/ host[seen.at] # NoId /\ UNCHANGED host /\ Proceed("blind")
  /\ UNCHANGED <<Same, apiVars, queued, made, last, commitVars, released>>

(* The object goes with its finalizer.  After "forget" (no usable connection, or   *)
(* an existing-only registration) the remote is nobody's business; "release" and   *)
(* "blind" come after DeleteRepository.                                      *)
ReleaseObject ==
  /\ step \in {"release", "blind", "forget"}
  /\ IF current
     THEN /\ Write(Absent)
          /\ released' = (IF step = "release" THEN View(obj) ELSE NoRelease)
     ELSE UNCHANGED <<apiVars, current, released>>
  /\ queued' = (queued \/ ~current)
  /\ Stop
  /\ UNCHANGED <<Same, hostVars, commitVars>>

-----------------------------------------------------------------------------
(* The commit controller's EnsureRepository: same code, result dropped.         *)

CommitBegin ==
  /\ cstep = "idle" /\ cached.live
  /\ cstep' = "get" /\ cseen' = View(cached)
  /\ UNCHANGED <<Same, apiVars, queued, workVars, hostVars, released>>

CommitGet ==
  /\ cstep = "get"
  /\ \/ /\ \E h \in Shown(cseen.at) : AfterGet(cseen, h) = "create"
        /\ cstep' = "create" /\ UNCHANGED cseen
     \/ cstep' = "idle" /\ cseen' = View(Absent)
  /\ UNCHANGED <<Same, apiVars, queued, workVars, hostVars, released>>

CommitCreate ==
  /\ cstep = "create"
  /\ CreateRemote(cseen.at) \/ UNCHANGED hostVars
  /\ cstep' = "idle" /\ cseen' = View(Absent)
  /\ UNCHANGED <<Same, apiVars, queued, workVars, released>>

-----------------------------------------------------------------------------
(* Everyone else: the informer, users of the API and of the host, restarts.     *)

Sync ==
  /\ ~synced
  /\ cached' = obj /\ synced' = TRUE /\ queued' = TRUE
  /\ UNCHANGED <<Same, obj, workVars, hostVars, commitVars, released>>

DeleteObject ==
  /\ obj.live /\ ~obj.deleting
  /\ Write(IF obj.fin THEN [obj EXCEPT !.deleting = TRUE] ELSE Absent)
  /\ UNCHANGED <<Same, queued, step, seen, found, hostVars, commitVars, released>>

(* spec.owner or spec.connectionRef is edited.                                *)
EditSpec(p) ==
  /\ obj.live /\ p # obj.at /\ flaps < MaxFlaps
  /\ Write([obj EXCEPT !.at = p]) /\ flaps' = flaps + 1
  /\ UNCHANGED <<mode, queued, step, seen, found, hostVars, commitVars, released>>

OthersCreate(p) ==
  /\ Appear(p)
  /\ UNCHANGED <<Same, apiVars, queued, workVars, made, commitVars, released>>

OthersDelete(p) ==
  /\ host[p] # NoId /\ flaps < MaxFlaps
  /\ host' = [host EXCEPT ![p] = NoId] /\ flaps' = flaps + 1
  /\ UNCHANGED <<mode, apiVars, queued, workVars, made, last, commitVars, released>>

Crash ==
  /\ flaps < MaxFlaps /\ flaps' = flaps + 1
  /\ cached' = obj /\ synced' = TRUE /\ queued' = obj.live
  /\ Stop /\ current' = FALSE
  /\ cstep' = "idle" /\ cseen' = View(Absent)
  /\ UNCHANGED <<mode, obj, hostVars, released>>

-----------------------------------------------------------------------------
(* A call that the host answers.                                             *)
Answered == EnsureGet \/ EnsureCreate \/ CheckIdentity \/ DeleteRemote
Controller == AddFinalizer \/ SetNotReady \/ RecordReady \/ ReleaseObject

Next ==
  \/ \E ready \in BOOLEAN : Reconcile(ready)
  \/ Controller \/ Answered \/ HostFails \/ AnswerLost
  \/ CommitBegin \/ CommitGet \/ CommitCreate
  \/ Sync \/ DeleteObject \/ Crash
  \/ \E p \in Places : EditSpec(p) \/ OthersCreate(p) \/ OthersDelete(p)

Spec == Init /\ [][Next]_vars

(* The controller and its informer go on.  The workqueue's back-off outgrows the    *)
(* informer's lag, so a request that is retried for ever reads a current copy again *)
(* and again; the connection is then usable, and each host call answered, infinitely *)
(* often.                                                                      *)
Fairness ==
  /\ WF_vars(Controller) /\ WF_vars(Sync)
  /\ WF_vars(Answered \/ HostFails) /\ WF_vars(\E ready \in BOOLEAN : Reconcile(ready))
  /\ SF_vars(synced /\ Reconcile(TRUE))
  /\ SF_vars(current /\ CheckIdentity) /\ SF_vars(current /\ DeleteRemote)

FairSpec == Spec /\ Fairness

-----------------------------------------------------------------------------
(* Properties.                                                               *)

(* RepoIdPinned: a recorded remote id is never replaced by another one, whoever    *)
(* deletes and recreates the remote ("a recorded upstream repository ID is       *)
(* pinned", README.md:162) and however stale the copy Reconcile works on.        *)
RepoIdPinned ==
  [][obj.id # NoId /\ obj'.live => obj'.id = obj.id]_vars

(* NeverAdopts: a create-only Repository records only a remote that the provider    *)
(* itself created ("a name match alone must never adopt it", interface.go:276).  *)
NeverAdopts == mode = "create-only" /\ obj.id # NoId => obj.id \in made

(* GoneByName: once the controller has released a Repository whose remote it had to    *)
(* delete and was allowed to see, the remote that Repository recorded is not, and never  *)
(* again will be, under the owner and name the Repository had.                    *)
GoneByName == released.id # NoId => host[released.at] # released.id

(* DeletionEnds: a Repository being deleted goes away, unless it is create-only and   *)
(* the name now belongs to another remote, which DeleteRepository refuses to touch. *)
Replaced == mode = "create-only" /\ obj.id # NoId /\ host[obj.at] \notin {NoId, obj.id}
DeletionEnds == obj.live /\ obj.deleting ~> ~obj.live \/ Replaced
=============================================================================
