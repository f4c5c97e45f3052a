--------------------------- MODULE SnapshotStore ---------------------------
(***************************************************************************)
(* Staged snapshots (actions/snapshots.go): files under a directory per tenant  *)
(* and caller, expired an hour after they were written, removed by the next     *)
(* upload of the tenant, and bounded in number and size.  A file is written      *)
(* under a name of its own and renamed; a crash leaves that one behind.          *)
(***************************************************************************)
EXTENDS ActionCalls, FiniteSetsExt

CONSTANTS TTL,        \* snapshotTTL, in ticks
          MaxCount,   \* 16 files of a tenant
          MaxBytes,   \* 256 MiB of a tenant
          Size        \* of each upload

ASSUME SnapshotStoreAssumption ==
  {TTL, MaxCount, MaxBytes} \subseteq Nat \ {0} /\ Size \in [Snaps -> Nat \ {0}]

VARIABLES files,
          staged      \* who uploaded what, ever

storeVars == <<files, staged>>

(* name: "final", or the call whose temporary file it is.                         *)
Files == [scope : Scopes, snap : Snaps, name : Calls \cup {"final"}, age : 0..TTL + 1]

StoreTypeOK == files \subseteq Files /\ staged \subseteq Scopes \X Snaps
StoreInit == files = {} /\ staged = {}

Bytes(fs) ==
  LET size == [f \in fs |-> Size[f.snap]] IN MapThenSumSet(LAMBDA f : size[f], fs)

(* snapshotScope: the directory depends on the caller's token.                     *)
ScopeOfTenant(c) == "alice"
ScopeOf(c) == req[c].scope
Expired(f) == f.age > TTL
Final(c) == {f \in files : f.scope = ScopeOf(c) /\ f.snap = req[c].snap /\ f.name = "final"}
Temp(c) == {f \in files : f.name = c}
Kept == {f \in files : ~Expired(f)}
FullOfFinal(c) ==
  LET finals == {f \in Kept : f.name = "final"}
  IN Cardinality(finals) >= MaxCount \/ Bytes(finals) + Size[req[c].snap] > MaxBytes
Full(c) == Cardinality(Kept) >= MaxCount \/ Bytes(Kept) + Size[req[c].snap] > MaxBytes

(* stage: removes what has expired, then reuses the file, refuses or writes a new one. *)
(* Its errors are answered like those of the host.                              *)
Stage(c) ==
  /\ call[c].step = "perform" /\ req[c].act = "stage"
  /\ \/ Final(c) \cap Kept # {} /\ files' = Kept /\ Ends(c, "ok")
     \/ Final(c) \cap Kept = {} /\ Full(c) /\ files' = Kept /\ Ends(c, "unconfirmed")
     \/ /\ Final(c) \cap Kept = {} /\ ~Full(c)
        /\ files' = Kept \cup {[scope |-> ScopeOf(c), snap |-> req[c].snap, name |-> c, age |-> 0]}
        /\ Goes(c, "store")
  /\ UNCHANGED staged

Rename(c) ==
  /\ call[c].step = "store"
  /\ files' = (files \ Temp(c)) \cup {[f EXCEPT !.name = "final"] : f \in Temp(c)}
  /\ staged' = staged \cup {<<req[c].scope, req[c].snap>>}
  /\ Ends(c, "ok")

(* The write, the close or the rename fails: the temporary file is removed.            *)
StoreFails(c) ==
  /\ call[c].step = "store"
  /\ files' = files \ Temp(c)
  /\ Ends(c, "unconfirmed") /\ UNCHANGED staged

(* loadSnapshot, for prepare_snapshot and publish_snapshot.                      *)
Load(c) ==
  /\ call[c].step = "perform" /\ req[c].act \in {"prepare", "publish"}
  /\ IF \E f \in Final(c) : ~Expired(f)
     THEN /\ call' = [call EXCEPT ![c].step = "check", ![c].next = "verify"]
          /\ UNCHANGED <<slots, snapshotSlots>>
     ELSE Ends(c, "unavailable")
  /\ UNCHANGED storeVars

Tick ==
  /\ files' = {[f EXCEPT !.age = IF @ > TTL THEN @ ELSE @ + 1] : f \in files}
  /\ UNCHANGED staged
=============================================================================
