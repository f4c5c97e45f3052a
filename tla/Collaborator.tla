---------------------------- MODULE Collaborator ----------------------------
(***************************************************************************)
(* The Collaborator controller (controller/collaborator/controller.go) and the   *)
(* backend's EnsureCollaborator and RemoveCollaborator.  A spec names a user, a   *)
(* repository and a permission: 0 and 1 are two permissions of one user, 2 is        *)
(* another user, or the same in another repository: every call names both.          *)
(* Whoever is no member yet is invited, and accepts or declines in their own      *)
(* time.                                                                     *)
(***************************************************************************)
EXTENDS Reconciled

UserOf(w) == IF w = 2 THEN 2 ELSE 1
Of(u, grants) == {w \in grants : UserOf(w) = u}

VARIABLES invited, members,   \* the repository's invitations and members, by grant
          declined            \* history: users who declined an invitation

grantVars == <<invited, members, declined>>

CollaboratorTypeOK ==
  /\ invited \subseteq 0..2 /\ members \subseteq 0..2 /\ declined \subseteq {1, 2}

CollaboratorInit ==
  /\ invited = {} /\ members \in {{}, {0}} /\ declined = {}

-----------------------------------------------------------------------------
CollaboratorEntry ==
  CASE cached.deleting /\ ~cached.fin -> "idle"
    [] cached.deleting /\ cached.fin -> IF usable THEN "invitations" ELSE "release"
    [] ~cached.deleting /\ ~cached.fin -> "finalize"
    [] OTHER -> IF usable THEN "grant" ELSE "Failed"

CollaboratorReconcile ==
  /\ kind = "Collaborator"
  /\ Start(CollaboratorEntry)
  /\ UNCHANGED <<grantVars>>

CollaboratorStep ==
  /\ kind = "Collaborator"
  /\ UNCHANGED <<kind, objectVars, queueVars, secretVars, worldVars>>

User == UserOf(seen.want)

(* A member's permission is changed at once, anyone else is invited; an open       *)
(* invitation takes the new permission.                                        *)
Grant ==
  IF Of(User, members) # {}
  THEN members' = (members \ Of(User, members)) \cup {seen.want} /\ UNCHANGED <<invited, declined>>
  ELSE /\ invited' = (invited \ Of(User, invited)) \cup {seen.want}
       /\ UNCHANGED <<members, declined>>

(* found is the invitation's id, 0 for a member (204 No Content).                *)
AddCollaborator ==
  /\ step = "grant" /\ limit = 0 /\ CollaboratorStep
  /\ \/ /\ shown # "nothing" /\ Grant
        /\ step' = "record" /\ found' = (IF Of(User, members) # {} THEN 0 ELSE 1)
        /\ UNCHANGED <<seen, current>>
     \/ shown = "nothing" /\ Proceed("Failed") /\ UNCHANGED grantVars

(* RemoveCollaborator, first the invitations on the first page; a 404 of the listing   *)
(* is passed over.  (Mutant: only the membership is removed.)                      *)
ListInvitationsSkips ==
  /\ step = "invitations" /\ limit = 0 /\ CollaboratorStep
  /\ Proceed("remove")
  /\ UNCHANGED grantVars
ListInvitations ==
  /\ step = "invitations" /\ limit = 0 /\ CollaboratorStep
  /\ Proceed(IF shown # "all" \/ Of(User, invited) = {} THEN "remove" ELSE "uninvite")
  /\ UNCHANGED grantVars

(* An invitation that was accepted or declined since is an error.                *)
DeleteInvitation ==
  /\ step = "uninvite" /\ limit = 0 /\ CollaboratorStep
  /\ invited' = (IF shown = "nothing" THEN invited ELSE invited \ Of(User, invited))
  /\ Proceed(IF shown = "nothing" \/ Of(User, invited) = {} THEN "Failed" ELSE "remove")
  /\ UNCHANGED <<members, declined>>

(* Then the membership; any 404 is a success, also that of a repository where the      *)
(* token may not act.                                                        *)
RemoveMember ==
  /\ step = "remove" /\ limit = 0 /\ CollaboratorStep
  /\ members' = (IF shown = "nothing" THEN members ELSE members \ Of(User, members))
  /\ step' = "release" /\ found' = User
  /\ UNCHANGED <<seen, current, invited, declined>>

(* A call fails, before or after its effect; the repository may be gone, which only   *)
(* the listing of the invitations forgives.                                    *)
CollaboratorCallFails ==
  /\ kind = "Collaborator"
  /\ step \in {"grant", "invitations", "uninvite", "remove"} /\ limit # 2
  /\ CallFails("Failed")
  /\ UNCHANGED <<kind, objectVars, queueVars, secretVars>>
  /\ \/ UNCHANGED grantVars
     \/ /\ shown # "nothing"
        /\ \/ step = "grant" /\ Grant
           \/ step = "uninvite" /\ invited' = invited \ Of(User, invited) /\ UNCHANGED <<members, declined>>
           \/ step = "remove" /\ members' = members \ Of(User, members) /\ UNCHANGED <<invited, declined>>

(* A limit that the host itself answers to DeleteInvitation is not classified: it is  *)
(* reported as a failure.                                                     *)
CollaboratorRefused ==
  /\ kind = "Collaborator" /\ step \in {"grant", "invitations", "uninvite", "remove"}
  /\ \/ (step = "uninvite" => limit = 2) /\ Refused
     \/ /\ step = "uninvite" /\ limit = 1
        /\ limit' = 2 /\ Proceed("Failed")
        /\ UNCHANGED <<usable, shown, events>>
  /\ UNCHANGED <<kind, objectVars, queueVars, secretVars, grantVars>>

RecordGrant ==
  /\ kind = "Collaborator" /\ step = "record"
  /\ Update([seen EXCEPT !.observed = seen.gen, !.ref = found, !.reason = "Ready", !.at = 0])
  /\ queued' = (queued \/ ~current)
  /\ Stop
  /\ UNCHANGED <<kind, timer, secretVars, worldVars, grantVars>>

(* The invited user answers.                                                 *)
Accept ==
  /\ CollaboratorStep
  /\ \E w \in invited : invited' = invited \ {w} /\ members' = members \cup {w}
  /\ UNCHANGED <<workVars, declined>>

Decline ==
  /\ CollaboratorStep
  /\ \E w \in invited : invited' = invited \ {w} /\ declined' = declined \cup {UserOf(w)}
  /\ UNCHANGED <<workVars, members>>

CollaboratorNext ==
  \/ CollaboratorReconcile \/ AddCollaborator \/ ListInvitations \/ DeleteInvitation
  \/ RemoveMember \/ CollaboratorCallFails \/ CollaboratorRefused \/ RecordGrant
  \/ Accept \/ Decline
=============================================================================
