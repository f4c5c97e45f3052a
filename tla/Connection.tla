----------------------------- MODULE Connection -----------------------------
(***************************************************************************)
(* The Connection controller (controller/connection/controller.go): the         *)
(* credential in the Connection's Secret (tenant/github_app.go), its validation   *)
(* on the host, and the verdict in the status.  A spec is one of three; a Secret's *)
(* content is a number, 0 when there is none.  Unlike the other controllers it    *)
(* swallows failures: only a missing credential and a rate limit are looked at    *)
(* again without an event.                                                    *)
(***************************************************************************)
EXTENDS Reconciled

VARIABLES owner,      \* the Secret's ownerReference to the Connection: none, one, or one with
                      \* controller: true
          rests       \* history: the Secret content the recorded verdict rests on

Ownerships == {"none", "owner", "controller"}

ConnectionTypeOK ==
  /\ owner \in Ownerships
  /\ rests \in Numbers

ConnectionInit == rests = 0

-----------------------------------------------------------------------------
ConnectionEntry ==
  CASE cached.deleting -> IF cached.fin THEN "release" ELSE "idle"
    [] ~cached.deleting /\ ~cached.fin -> "finalize"
    [] OTHER -> "material"

ConnectionReconcile ==
  /\ kind = "Connection"
  /\ Start(ConnectionEntry)
  /\ UNCHANGED <<rests, owner>>

ConnectionStep ==
  /\ kind = "Connection"
  /\ UNCHANGED <<kind, objectVars, queueVars, secretVars, worldVars, owner>>

(* ResolveCredential: the cached Secret, whose data may be of no use; for a GitHub    *)
(* App the host is asked for a new token, and may refuse, whatever the reason.  found  *)
(* is the Secret's content in use from here on; see Refused for the token.          *)
ResolveCredential ==
  /\ step = "material" /\ ConnectionStep
  /\ \/ scached.n # 0 /\ step' = "validate"
     \/ step' = "CredentialUnavailable"
  /\ found' = scached.n
  /\ UNCHANGED <<seen, current, rests>>

(* ValidateConnection: the host accepts the credential or not.                  *)
Validate ==
  /\ step = "validate" /\ limit = 0 /\ ConnectionStep
  /\ Proceed("record") \/ Proceed("ValidationFailed")
  /\ UNCHANGED rests

(* The transport fails, which is reported as a failed validation.                *)
ValidateFails ==
  /\ kind = "Connection" /\ step = "validate" /\ limit # 2
  /\ CallFails("ValidationFailed")
  /\ UNCHANGED <<kind, objectVars, queueVars, secretVars, rests, owner>>

ConnectionRefused ==
  /\ kind = "Connection" /\ step = "validate"
  /\ Refused
  /\ UNCHANGED <<kind, objectVars, queueVars, secretVars, rests, owner>>

Conclude ==
  /\ Stop
  /\ UNCHANGED <<kind, secretVars, worldVars, owner>>

(* A verdict in the status is about the Secret that was read for it.              *)
RecordLogin ==
  /\ kind = "Connection" /\ step = "record"
  /\ Update([seen EXCEPT !.observed = seen.gen, !.ref = found, !.reason = "Ready", !.at = 0])
  /\ rests' = (IF current THEN found ELSE rests)
  /\ queued' = (queued \/ ~current) /\ UNCHANGED timer
  /\ Conclude

(* fail with requeueAfter: 30 seconds for a missing credential, else nothing.  The      *)
(* recorded login stays.                                                      *)
Swallow ==
  /\ kind = "Connection" /\ step \in {"CredentialUnavailable", "ValidationFailed"}
  /\ Update(NotReady(step, 0))
  /\ rests' = (IF current THEN found ELSE rests)
  /\ IF ~current THEN Requeue
     ELSE /\ timer' = (IF step = "CredentialUnavailable" THEN timer \cup {"delay"} ELSE timer)
          /\ UNCHANGED queued
  /\ Conclude

-----------------------------------------------------------------------------
(* The portal creates the Secret after the Connection; users replace and delete it.  *)
EditSecret ==
  /\ kind = "Connection" /\ obj.uid # 0 /\ events < MaxEvents[kind]
  /\ events' = events + 1
  /\ secret' \in {NoSecret, [n |-> events + 1, owner |-> IF owner = "none" THEN 0 ELSE obj.uid]}
  /\ UNCHANGED <<kind, objectVars, queueVars, workVars, scached, usable, shown, limit,
                 rests, owner>>

ConnectionNext ==
  \/ ConnectionReconcile \/ ResolveCredential \/ Validate \/ ValidateFails
  \/ ConnectionRefused \/ RecordLogin \/ Swallow \/ EditSecret
=============================================================================
