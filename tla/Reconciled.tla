----------------------------- MODULE Reconciled -----------------------------
(***************************************************************************)
(* What the DeployKey, Collaborator and Connection controllers have in common: *)
(* one object of the tenant's workspace with a finalizer, its copy in the       *)
(* informer cache, the workqueue, the Secret beside it, and the way Reconcile   *)
(* ends: a status written with the version it read, an error (tried again), or  *)
(* a wait for the host's rate limit (controller/shared/shared.go).             *)
(***************************************************************************)
EXTENDS Naturals

CONSTANTS Wants,      \* per kind: what a spec may ask for, see each controller
          MaxEvents,  \* bound per kind: edits, recreations, crashes, limits, failures
          MaxIds,     \* bound: Secret contents and host ids given out
          AppKinds    \* the kinds whose Connection is a GitHub App's: each Reconcile mints
                      \* a new token

Kinds == {"DeployKey", "Collaborator", "Connection"}

ASSUME ReconciledAssumption ==
  /\ Wants \in [Kinds -> SUBSET (0..2)] /\ AppKinds \subseteq Kinds /\ MaxEvents \in [Kinds -> Nat]
  /\ MaxIds \in Nat /\ MaxIds > 2 /\ \A k \in Kinds : MaxEvents[k] < MaxIds

Uids == 0..MaxIds                   \* 0: no object
Generations == 0..MaxIds
Numbers == 0..MaxIds                \* Secret contents and host ids; 0 is none

(* Reasons recorded on the Ready condition.  "Failed" stands for those that a         *)
(* controller returns as an error too: RepositoryNotReady, KeyMaterialError,        *)
(* EnsureFailed, DeleteFailed, SecretCleanupFailed, RemoveFailed.                 *)
Reasons == {"none", "Ready", "RateLimited", "Failed", "CredentialUnavailable", "ValidationFailed"}

(* All; only the first page of keys and invitations, a hundred of others' before the     *)
(* object's own; nothing: the token may not act there and every call is a 404.         *)
Views == {"all", "page", "nothing"}

(* at: the retry time a RateLimited message names.  ref: the host id (or login) in  *)
(* the status.  sref: status.secretRef is set.                                *)
Objects == [uid : Uids, deleting : BOOLEAN, fin : BOOLEAN,
            gen : Generations, want : 0..2, observed : Generations,
            reason : Reasons, at : 0..2, ref : Numbers, sref : BOOLEAN]

Secrets == [n : Numbers, owner : Uids]    \* n = 0: no Secret

VARIABLES kind,
          obj, cached, synced,     \* the object, the cached copy, whether it is current
          queued, timer,           \* in the workqueue; delayed requeues
          step, seen, current,     \* Reconcile: where it is, its copy, no write since
          found,                   \* what the last call returned: an id, a retry time
          secret, scached,         \* the Secret and its cached copy
          usable,                  \* repository, connection and credential resolve
          shown,                   \* what the host shows the token of the repository
          limit,                   \* 0, 1: the host limits, 2: and the transport knows
          events

objectVars == <<obj, cached, synced>>
queueVars == <<queued, timer>>
workVars == <<step, seen, current, found>>
secretVars == <<secret, scached>>
worldVars == <<usable, shown, limit, events>>

Steps == {"idle", "finalize", "release", "record", "limited",
          "material", "store", "list", "register", "delete", "unstore",
          "grant", "invitations", "uninvite", "remove", "validate"} \cup Reasons

ReconciledTypeOK ==
  /\ kind \in Kinds
  /\ obj \in Objects /\ cached \in Objects /\ seen \in Objects
  /\ synced \in BOOLEAN /\ queued \in BOOLEAN /\ current \in BOOLEAN /\ usable \in BOOLEAN
  /\ shown \in Views
  /\ timer \in SUBSET {"reset", "delay"}
  /\ step \in Steps /\ found \in Numbers
  /\ secret \in Secrets /\ scached \in Secrets
  /\ limit \in 0..2 /\ events \in 0..MaxEvents[kind]

Absent == [uid |-> 0, deleting |-> FALSE, fin |-> FALSE, gen |-> 0, want |-> 0,
           observed |-> 0, reason |-> "none", at |-> 0, ref |-> 0, sref |-> FALSE]
Fresh(u, w) == [Absent EXCEPT !.uid = u, !.gen = 1, !.want = w]
NoSecret == [n |-> 0, owner |-> 0]

ReconciledInit ==
  /\ \E w \in Wants[kind] : obj = Fresh(1, w)
  /\ cached = Absent /\ synced = FALSE /\ queued = FALSE /\ timer = {}
  /\ step = "idle" /\ seen = Absent /\ current = FALSE /\ found = 0
  /\ secret = NoSecret /\ scached = NoSecret
  /\ usable = TRUE /\ shown = "all" /\ limit = 0 /\ events = 0

-----------------------------------------------------------------------------
(* A write of the object; writing what is there changes nothing and wakes nobody.  *)
Write(o) ==
  /\ obj' = o
  /\ synced' = (o = obj /\ synced)
  /\ current' = (o = obj /\ current)
  /\ UNCHANGED cached

(* Reconcile's write of its copy o, refused when the object has a newer version.   *)
Update(o) == IF current THEN Write(o) ELSE UNCHANGED <<objectVars, current>>

Stop == step' = "idle" /\ seen' = Absent /\ found' = 0
Proceed(s) == step' = s /\ UNCHANGED <<seen, current, found>>
Requeue == queued' = TRUE /\ UNCHANGED timer

(* Reconcile takes the cached copy and goes where its controller's checks lead.     *)
Start(entry) ==
  /\ step = "idle" /\ queued
  /\ queued' = FALSE
  /\ IF cached.uid # 0 /\ entry # "idle"
     THEN step' = entry /\ seen' = cached /\ current' = synced /\ found' = 0
     ELSE UNCHANGED workVars
  /\ UNCHANGED <<kind, objectVars, timer, secretVars, worldVars>>

AddFinalizer ==
  /\ step = "finalize"
  /\ Update([seen EXCEPT !.fin = TRUE])
  /\ Requeue /\ Stop
  /\ UNCHANGED <<kind, secretVars, worldVars>>

NotReady(reason, at) ==
  [seen EXCEPT !.observed = seen.gen, !.reason = reason, !.at = at]

(* fail: the reason is recorded and the error brings the object back.  (Mutant: the  *)
(* error is swallowed.)                                                       *)
FailSwallows ==
  /\ step = "Failed"
  /\ Update(NotReady("Failed", 0))
  /\ Stop
  /\ UNCHANGED <<kind, queueVars, secretVars, worldVars>>
Fail ==
  /\ step = "Failed"
  /\ Update(NotReady("Failed", 0))
  /\ Requeue /\ Stop
  /\ UNCHANGED <<kind, secretVars, worldVars>>

(* The message names the absolute reset time.  (Mutants: it counts the attempts; it   *)
(* is never the same twice.)                                                   *)
LimitMessageCounts == seen.at + 1
LimitMessageVaries == IF seen.at = 1 THEN 2 ELSE 1
LimitMessage == found

(* waitForRateLimit: the next try is due at the reset.                          *)
WaitForRateLimit ==
  /\ step = "limited"
  /\ Update(NotReady("RateLimited", LimitMessage))
  /\ IF current THEN timer' = timer \cup {"reset"} /\ UNCHANGED queued ELSE Requeue
  /\ Stop
  /\ UNCHANGED <<kind, secretVars, worldVars>>

(* A call of the host is refused until the reset: by the host with its own answer,  *)
(* after that by the shared transport with the deadline it keeps for the token.  An   *)
(* App's next token is unknown to the transport, and each answer of the host may      *)
(* name another time (Retry-After is relative).                                *)
Refused ==
  /\ limit # 0
  /\ limit' = (IF kind \in AppKinds THEN 1 ELSE 2)
  /\ found' \in (IF kind \in AppKinds THEN {1, 2} ELSE {limit}) /\ step' = "limited"
  /\ UNCHANGED <<seen, current, usable, shown, events>>

(* A call fails, of the host or of the API server.                             *)
CallFails(s) ==
  /\ events < MaxEvents[kind] /\ events' = events + 1
  /\ Proceed(s)
  /\ UNCHANGED <<usable, shown, limit>>

(* The object goes with its finalizer.                                       *)
RemoveFinalizer ==
  /\ step = "release"
  /\ Update(Absent)
  /\ queued' = (queued \/ ~current)
  /\ Stop
  /\ UNCHANGED <<kind, timer, secretVars, worldVars>>

-----------------------------------------------------------------------------
(* The informers, the timers, the garbage collector and users of the API.       *)

Sync ==
  /\ ~synced
  /\ cached' = obj /\ synced' = TRUE /\ queued' = TRUE
  /\ UNCHANGED <<kind, obj, timer, workVars, secretVars, worldVars>>

TimerFires ==
  /\ \E t \in timer :
       /\ t = "reset" => limit = 0
       /\ timer' = timer \ {t}
  /\ queued' = TRUE
  /\ UNCHANGED <<kind, objectVars, workVars, secretVars, worldVars>>

CollectSecret ==
  /\ secret.owner \notin {0, obj.uid}
  /\ secret' = NoSecret
  /\ UNCHANGED <<kind, objectVars, queueVars, workVars, scached, worldVars>>

EditSpec ==
  /\ obj.uid # 0 /\ ~obj.deleting /\ events < MaxEvents[kind]
  /\ \E w \in Wants[kind] \ {obj.want} : Write([obj EXCEPT !.want = w, !.gen = @ + 1])
  /\ events' = events + 1
  /\ UNCHANGED <<kind, queueVars, step, seen, found, secretVars, usable, shown, limit>>

DeleteObject ==
  /\ obj.uid # 0 /\ ~obj.deleting
  /\ Write(IF obj.fin THEN [obj EXCEPT !.deleting = TRUE] ELSE Absent)
  /\ UNCHANGED <<kind, queueVars, step, seen, found, secretVars, worldVars>>

Recreate ==
  /\ obj.uid = 0 /\ events < MaxEvents[kind]
  /\ \E w \in Wants[kind] : Write(Fresh(events + 2, w))
  /\ events' = events + 1
  /\ UNCHANGED <<kind, queueVars, step, seen, found, secretVars, usable, shown, limit>>

-----------------------------------------------------------------------------
(* Faults.                                                                   *)

LimitBegins ==
  /\ limit = 0 /\ events < MaxEvents[kind]
  /\ limit' = 1 /\ events' = events + 1
  /\ UNCHANGED <<kind, objectVars, queueVars, workVars, secretVars, usable, shown>>

LimitEnds ==
  /\ limit # 0
  /\ limit' = 0
  /\ UNCHANGED <<kind, objectVars, queueVars, workVars, secretVars, usable, shown, events>>

ReferencesBreak ==
  /\ kind # "Connection" /\ usable /\ events < MaxEvents[kind]
  /\ usable' = FALSE /\ events' = events + 1
  /\ UNCHANGED <<kind, objectVars, queueVars, workVars, secretVars, shown, limit>>

ReferencesHeal ==
  /\ ~usable
  /\ usable' = TRUE
  /\ UNCHANGED <<kind, objectVars, queueVars, workVars, secretVars, shown, limit, events>>

(* Others give the repository more keys and invitations than one page lists.     *)
Crowd ==
  /\ kind # "Connection" /\ shown = "all" /\ events < MaxEvents[kind]
  /\ shown' = "page" /\ events' = events + 1
  /\ UNCHANGED <<kind, objectVars, queueVars, workVars, secretVars, usable, limit>>

(* The token loses its permission on the repository.                           *)
Bar ==
  /\ kind # "Connection" /\ shown = "all" /\ events < MaxEvents[kind]
  /\ shown' = "nothing" /\ events' = events + 1
  /\ UNCHANGED <<kind, objectVars, queueVars, workVars, secretVars, usable, limit>>

Crash ==
  /\ events < MaxEvents[kind] /\ events' = events + 1
  /\ cached' = obj /\ synced' = TRUE /\ queued' = (obj.uid # 0) /\ timer' = {}
  /\ Stop /\ current' = FALSE
  /\ scached' = secret
  /\ limit' = (IF limit = 0 THEN 0 ELSE 1)
  /\ UNCHANGED <<kind, obj, secret, usable, shown>>

World ==
  \/ Sync \/ TimerFires \/ CollectSecret \/ EditSpec \/ DeleteObject \/ Recreate
  \/ LimitBegins \/ LimitEnds \/ ReferencesBreak \/ ReferencesHeal \/ Crowd \/ Bar
=============================================================================
