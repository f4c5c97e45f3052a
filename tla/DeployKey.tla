----------------------------- MODULE DeployKey -----------------------------
(***************************************************************************)
(* The DeployKey controller (controller/deploykey/controller.go) and the        *)
(* backend's EnsureDeployKey and DeleteDeployKey.  A spec wants a generated key  *)
(* on the repository (0) or brings its own, for that repository (1) or, its           *)
(* repositoryRef edited, for another (2).  The private half of a generated key is stored  *)
(* in a Secret before the public half is registered; the key's host id is       *)
(* recorded last.                                                            *)
(***************************************************************************)
EXTENDS Reconciled

Minted(n) == <<"minted", n>>
Given(w) == <<"given", w>>
NoKey == Given(0)
Brought == Given(1)
RepoOf(w) == IF w = 2 THEN 2 ELSE 1
Materials == {Minted(n) : n \in Numbers} \cup {Given(w) : w \in 0..2}

VARIABLES mat,      \* the public key Reconcile is to register
          keys,     \* the deploy keys on the host
          lastId,   \* the highest key id given out
          minted    \* generated keys stored so far

keyVars == <<keys, lastId, minted>>

KeyTypeOK ==
  /\ mat \in Materials
  /\ keys \subseteq [id : Numbers, mat : Materials, repo : {1, 2}]
  /\ lastId \in Numbers /\ minted \in Numbers

(* A key that a spec brings may be on the host already.                        *)
KeyInit ==
  /\ keys \in {{}, {[id |-> 1, mat |-> Brought, repo |-> 1]}}
  /\ lastId = 1 /\ minted = 0 /\ mat = NoKey

-----------------------------------------------------------------------------
(* resolve, then the deletion path, the finalizer, or the key.  (Mutant: a deletion     *)
(* whose references do not resolve is left for later.)                         *)
KeyEntryWaits ==
  CASE cached.deleting -> IF cached.fin /\ usable THEN IF cached.ref # 0 THEN "delete" ELSE "unstore"
                          ELSE "idle"
    [] ~cached.deleting /\ ~cached.fin -> "finalize"
    [] OTHER -> IF usable THEN "material" ELSE "Failed"
KeyEntry ==
  CASE cached.deleting /\ ~cached.fin -> "idle"
    [] cached.deleting /\ cached.fin ->
         IF usable /\ cached.ref # 0 THEN "delete" ELSE "unstore"
    [] ~cached.deleting /\ ~cached.fin -> "finalize"
    [] OTHER -> IF usable THEN "material" ELSE "Failed"

KeyReconcile ==
  /\ kind = "DeployKey"
  /\ Start(KeyEntry)
  /\ UNCHANGED <<mat, keyVars>>

(* The steps below leave the object, the queue and the world alone.             *)
KeyStep ==
  /\ kind = "DeployKey"
  /\ UNCHANGED <<kind, objectVars, queueVars, worldVars>>

Register(m) == step' = "list" /\ mat' = m /\ UNCHANGED <<seen, current, found>>

(* ensurePublicKey: the spec's key, or the public half of the cached Secret.      *)
KeyMaterial ==
  /\ step = "material" /\ KeyStep
  /\ \/ seen.want # 0 /\ Register(Brought)
     \/ seen.want = 0 /\ scached.n # 0 /\ Register(Minted(scached.n))
     \/ seen.want = 0 /\ scached.n = 0 /\ Proceed("store") /\ UNCHANGED mat
  /\ UNCHANGED <<secretVars, keyVars>>

(* generateED25519 and the Secret's creation; when the Secret exists its cached    *)
(* copy is asked again.  (Mutant: the pair just generated is registered although    *)
(* it could not be stored.)                                                    *)
StoreMaterialAnyway ==
  /\ step = "store" /\ KeyStep /\ minted < MaxIds
  /\ minted' = minted + 1
  /\ secret' = (IF secret.n = 0 THEN [n |-> minted + 1, owner |-> seen.uid] ELSE secret)
  /\ Register(Minted(minted + 1))
  /\ UNCHANGED <<scached, keys, lastId>>

StoreMaterial ==
  /\ step = "store" /\ KeyStep
  /\ \/ /\ secret.n = 0 /\ minted < MaxIds
        /\ minted' = minted + 1
        /\ secret' = [n |-> minted + 1, owner |-> seen.uid]
        /\ Register(Minted(minted + 1))
     \/ /\ secret.n # 0
        /\ IF scached.n # 0 THEN Register(Minted(scached.n))
           ELSE Proceed("Failed") /\ UNCHANGED mat
        /\ UNCHANGED <<secret, minted>>
  /\ UNCHANGED <<scached, keys, lastId>>

(* The keys EnsureDeployKey finds: the first hundred of the repository, compared by  *)
(* material.                                                                 *)
Listed == IF shown = "page" THEN {} ELSE {k \in keys : k.mat = mat /\ k.repo = RepoOf(seen.want)}

ListKeys ==
  /\ step = "list" /\ limit = 0 /\ KeyStep
  /\ \/ shown # "nothing" /\ \E k \in Listed : step' = "record" /\ found' = k.id /\ UNCHANGED <<seen, current>>
     \/ shown # "nothing" /\ Listed = {} /\ Proceed("register")
     \/ shown = "nothing" /\ Proceed("Failed")
  /\ UNCHANGED <<mat, secretVars, keyVars>>

(* The host refuses material it has, in whichever repository.                     *)
HostCreatesKey ==
  /\ shown # "nothing" /\ \A k \in keys : k.mat # mat
  /\ lastId < MaxIds
  /\ lastId' = lastId + 1 /\ keys' = keys \cup {[id |-> lastId + 1, mat |-> mat, repo |-> RepoOf(seen.want)]}

CreateKey ==
  /\ step = "register" /\ limit = 0 /\ KeyStep
  /\ \/ HostCreatesKey /\ step' = "record" /\ found' = lastId' /\ UNCHANGED <<seen, current>>
     \/ (shown = "nothing" \/ \E k \in keys : k.mat = mat) /\ Proceed("Failed") /\ UNCHANGED <<keys, lastId>>
  /\ UNCHANGED <<mat, secretVars, minted>>

(* The deletion is by the recorded id in the repository the spec names now.  Any 404 is  *)
(* a success: the key is gone, is in another repository, or may not be seen.          *)
KeyDeleted ==
  keys' = {k \in keys : shown = "nothing" \/ k.id # seen.ref \/ k.repo # RepoOf(seen.want)}
DeleteKey ==
  /\ step = "delete" /\ limit = 0 /\ KeyStep
  /\ KeyDeleted
  /\ step' = "unstore" /\ found' = seen.ref /\ UNCHANGED <<seen, current>>
  /\ UNCHANGED <<mat, secretVars, lastId, minted>>

(* deleteSecret, by name and only when the status names a Secret.                *)
DeleteSecret ==
  /\ step = "unstore" /\ KeyStep
  /\ secret' = (IF seen.sref THEN NoSecret ELSE secret)
  /\ Proceed("release")
  /\ UNCHANGED <<mat, scached, keyVars>>

(* A call fails, before or after its effect.                                  *)
KeyCallFails ==
  /\ kind = "DeployKey"
  /\ \/ step \in {"list", "register", "delete"} /\ limit # 2
     \/ step = "material" /\ seen.want = 0
     \/ step = "store"
     \/ step = "unstore" /\ seen.sref
  /\ CallFails("Failed")
  /\ \/ UNCHANGED keyVars
     \/ step = "register" /\ HostCreatesKey /\ UNCHANGED minted
     \/ step = "delete" /\ KeyDeleted /\ UNCHANGED <<lastId, minted>>
  /\ UNCHANGED <<kind, objectVars, queueVars, secretVars, mat>>

KeyRefused ==
  /\ kind = "DeployKey" /\ step \in {"list", "register", "delete"}
  /\ Refused
  /\ UNCHANGED <<kind, objectVars, queueVars, secretVars, mat, keyVars>>

(* The status with the key's id; a conflict is an error and a retry.             *)
RecordKey ==
  /\ kind = "DeployKey" /\ step = "record"
  /\ Update([seen EXCEPT !.observed = seen.gen, !.ref = found, !.sref = (seen.want = 0),
                         !.reason = "Ready", !.at = 0])
  /\ queued' = (queued \/ ~current)
  /\ Stop /\ mat' = NoKey
  /\ UNCHANGED <<kind, timer, secretVars, worldVars, keyVars>>

KeyNext ==
  \/ KeyReconcile \/ KeyMaterial \/ StoreMaterial \/ ListKeys \/ CreateKey \/ DeleteKey
  \/ DeleteSecret \/ KeyCallFails \/ KeyRefused \/ RecordKey
=============================================================================
