--------------------------- MODULE MCTenantObject ---------------------------
(* Small instances of TenantObject for TLC.                                  *)
EXTENDS TenantObject

(* Enough for a failure during the recovery from another one; a Collaborator keeps  *)
(* nothing from one attempt to the next but what the host has.                  *)
MCMaxEvents == [k \in Kinds |-> IF k = "Collaborator" THEN 1 ELSE 2]

MCWants == [DeployKey |-> {0, 2}, Collaborator |-> {0, 1, 2}, Connection |-> {0, 1}]
=============================================================================
