---------------------------- MODULE TenantObject ----------------------------
(***************************************************************************)
(* A DeployKey, a Collaborator or a Connection from its creation to its          *)
(* deletion and recreation, with its controller, the host, the informers, users   *)
(* and faults.                                                               *)
(***************************************************************************)
EXTENDS DeployKey, Collaborator, Connection

CONSTANT KindsChecked
ASSUME KindsAssumption == KindsChecked \subseteq Kinds

VARIABLE gone     \* history: what the host was told to remove before the last release, and where

vars == <<kind, objectVars, queueVars, workVars, secretVars, worldVars,
          mat, keyVars, grantVars, rests, owner, gone>>

TypeOK ==
  /\ ReconciledTypeOK /\ KeyTypeOK /\ CollaboratorTypeOK /\ ConnectionTypeOK
  /\ gone \in [what : Numbers, repo : {1, 2}]

Init ==
  /\ kind \in KindsChecked
  /\ ReconciledInit /\ KeyInit /\ CollaboratorInit /\ ConnectionInit
  /\ owner \in Ownerships /\ gone = [what |-> 0, repo |-> 1]
  /\ kind # "Connection" => owner = "controller"
  /\ kind = "Connection" => obj.want = 0
  /\ kind # "DeployKey" \/ obj.want = 0 => keys = {}
  /\ kind # "Collaborator" => members = {}

(* The Secret's informer; a Connection is woken by the Secrets whose ownerReference says  *)
(* that it is the controller.  The portal's (portal/src/api.ts) does not.          *)
Notify ==
  kind = "Connection" /\ owner = "controller" /\ (scached.owner # 0 \/ secret.owner # 0)
SyncSecret ==
  /\ scached # secret
  /\ scached' = secret
  /\ queued' = (queued \/ Notify)
  /\ UNCHANGED <<kind, objectVars, timer, workVars, secret, worldVars>>

Release ==
  /\ RemoveFinalizer
  /\ gone' = (IF current THEN [what |-> found, repo |-> RepoOf(seen.want)] ELSE gone)

Finish == AddFinalizer \/ Fail \/ WaitForRateLimit

(* What the steps of one controller leave to the others.                       *)
NotKey == UNCHANGED <<mat, keyVars>>
NotGrant == UNCHANGED grantVars
NotVerdict == UNCHANGED <<rests, owner>>
OfKey == NotGrant /\ NotVerdict /\ UNCHANGED gone
OfCollaborator == NotKey /\ NotVerdict /\ UNCHANGED gone
OfConnection == NotKey /\ NotGrant /\ UNCHANGED gone
OfAll == NotKey /\ NotGrant /\ NotVerdict

Ends == Finish /\ mat' = NoKey /\ UNCHANGED keyVars /\ OfKey
Restart == Crash /\ mat' = NoKey /\ UNCHANGED keyVars /\ OfKey

Next ==
  \/ KeyNext /\ OfKey
  \/ CollaboratorNext /\ OfCollaborator
  \/ ConnectionNext /\ OfConnection
  \/ Release /\ OfAll
  \/ Ends \/ Restart
  \/ (World \/ SyncSecret) /\ OfAll /\ UNCHANGED gone

Spec == Init /\ [][Next]_vars

(* The controller, the informers and the timers go on, and calls return.          *)
Works ==
  \/ KeyNext /\ OfKey
  \/ CollaboratorNext /\ ~UNCHANGED workVars /\ OfCollaborator
  \/ ConnectionNext /\ ~UNCHANGED workVars /\ OfConnection
  \/ Release /\ OfAll
  \/ Ends

Fairness ==
  /\ WF_vars(Works)
  /\ WF_vars(Sync /\ OfAll /\ UNCHANGED gone) /\ WF_vars(SyncSecret /\ OfAll /\ UNCHANGED gone)
  /\ WF_vars(TimerFires /\ OfAll /\ UNCHANGED gone)
FairSpec == Spec /\ Fairness

-----------------------------------------------------------------------------
(* Properties.                                                               *)

Exists == obj.uid # 0 /\ ~obj.deleting

(* The controller reports Ready for the spec the object has now.                *)
Reported(k) ==
  kind = k /\ Exists /\ obj.reason = "Ready" /\ obj.observed = obj.gen

(* ReadyIsReal: a DeployKey reported Ready for its spec has on the host, under the        *)
(* recorded id, the key that spec asks for; of a generated one, the private half is in    *)
(* the Secret the status points at ("another provider can then mount that Secret",      *)
(* types_deploykey.go:27), whatever failed on the way.  The Secret of an object that took  *)
(* over the name of a deleted one is left out: the cached copy of its predecessor's       *)
(* Secret may be taken for its own.  A Collaborator reported Ready for its spec has that   *)
(* permission, or an invitation to it, unless the user declined; an edit while the grant   *)
(* is under way is not reported as granted.                                      *)
KeyInstalled ==
  \E k \in keys :
    /\ k.id = obj.ref /\ k.repo = RepoOf(obj.want)
    /\ obj.want # 0 => k.mat = Brought
    /\ obj.want = 0 /\ obj.uid = 1 => k.mat = Minted(secret.n)
AccessGranted == obj.want \in invited \cup members \/ UserOf(obj.want) \in declined
ReadyIsReal ==
  /\ Reported("DeployKey") => KeyInstalled
  /\ Reported("Collaborator") => AccessGranted

(* Revoked: when an object is released with its references resolving and the token able   *)
(* to act on the repository, the key it had recorded is not in the repository its spec    *)
(* named then, and its user has neither membership nor invitation there, whatever the user  *)
(* accepts meanwhile and whatever answers are lost (DeleteDeployKey, RemoveCollaborator),   *)
(* unless the invitation was not on the first page.                               *)
Revoked ==
  gone.what # 0 /\ obj.uid = 0 =>
    /\ kind = "DeployKey" /\ shown # "nothing" =>
         \A k \in keys : k.id = gone.what => k.repo # gone.repo
    /\ kind = "Collaborator" /\ shown = "all" => Of(gone.what, invited \cup members) = {}

(* Settles: once the references resolve, the limit is over, the first page shows every     *)
(* key and no other repository has this one, a DeployKey or Collaborator is for ever Ready  *)
(* for its latest spec, after failures, lost answers, restarts and conflicts with its own   *)
(* writes.  A Connection's verdict is in the end about its latest spec, although failures   *)
(* are swallowed.  It is about the content its Secret has, or about its absence, when the   *)
(* Secret names the Connection as its controller, and, whoever owns the Secret, when the     *)
(* verdict is that the credential is unavailable: the Secret arrives, changes and goes at    *)
(* any moment.                                                               *)
Elsewhere ==
  \E k \in keys : /\ k.repo # RepoOf(obj.want)
                  /\ k.mat = (IF obj.want = 0 THEN Minted(secret.n) ELSE Brought)
Serviceable == usable /\ limit = 0 /\ shown = "all" /\ ~Elsewhere
Settled == Exists => obj.reason = "Ready" /\ obj.observed = obj.gen
SpecJudged == Exists => obj.observed = obj.gen
Unavailable == Exists => obj.reason = "CredentialUnavailable"
SecretJudged == Exists => rests = secret.n
Settles ==
  /\ kind # "Connection" /\ <>[]Serviceable => <>[]Settled
  /\ kind = "Connection" /\ <>[](limit = 0) =>
       /\ <>[]SpecJudged
       /\ owner = "controller" \/ <>[]Unavailable => <>[]SecretJudged

(* RestsWhileLimited: an object that waits for the reset of a rate limit is not            *)
(* reconciled again and again by the events of its own status ("rewriting it on every     *)
(* attempt is a no-op", shared.go:68), as long as its token stays the same; a GitHub App's  *)
(* does not.                                                                 *)
RestsWhileLimited ==
  kind \notin AppKinds /\ <>[](limit # 0 /\ obj.reason = "RateLimited") =>
    <>[](~queued /\ step = "idle")

(* DeletionEnds: an object being deleted goes away, whether its references resolve or     *)
(* not, unless the host's limit never ends.                                      *)
DeletionEnds == <>[](limit = 0) => (obj.deleting ~> ~obj.deleting)
=============================================================================
