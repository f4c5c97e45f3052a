------------------------- MODULE TenantObjectProofs -------------------------
(***************************************************************************)
(* Theorems about TenantObject, for every bound on what may happen.          *)
(***************************************************************************)
EXTENDS TenantObject, TLAPS

(* Where the host is told to remove something, and where to provide it.      *)
Undoing == {"delete", "unstore", "release", "invitations", "uninvite", "remove"}
Doing == {"material", "store", "list", "register", "grant", "validate", "record"}

RouteInv ==
  /\ step \in Undoing => seen.deleting /\ seen.fin
  /\ step \in Doing => ~seen.deleting /\ seen.fin
  /\ step = "store" => seen.want = 0
  /\ step = "limited" => found \in 0..2

(* The report of a copy x is about the spec it has.                          *)
ReadyNow(x) == x.uid # 0 /\ x.reason = "Ready" /\ x.observed = x.gen

(* What a copy x of the object, however old, says of the object there is now.  *)
CopyOK(x) ==
  /\ x.uid <= events + 1
  /\ obj.uid = 1 => x.uid \in {0, 1}
  /\ x.uid = obj.uid /\ x.uid # 0 /\ x.deleting => obj.deleting
  /\ x.fin /\ ~x.deleting => obj.uid = x.uid /\ obj.fin
  /\ obj.uid # 0 /\ obj.reason # "none" => x.uid = obj.uid
  /\ ReadyNow(obj) => x.want = obj.want

ObjectInv ==
  /\ obj.uid <= events + 1 /\ obj.gen <= events + 1 /\ obj.observed <= obj.gen
  /\ obj.uid = 0 => obj = Absent
CopiesInv ==
  /\ synced => cached = obj
  /\ CopyOK(cached)
  /\ step # "idle" => seen.uid # 0 /\ CopyOK(seen)
  /\ step # "idle" /\ current => seen = obj /\ cached = obj

(* The ids on record were given out; what was removed stays removed.         *)
IdsInv ==
  kind = "DeployKey" =>
    /\ \A k \in keys : k.id <= lastId
    /\ obj.ref <= lastId /\ cached.ref <= lastId /\ seen.ref <= lastId /\ gone.what <= lastId
    /\ step \in {"unstore", "release"} => found <= lastId
RemovedInv ==
  kind = "DeployKey" /\ shown # "nothing" =>
    /\ gone.what # 0 => \A k \in keys : k.id = gone.what => k.repo # gone.repo
    /\ step \in {"unstore", "release"} /\ found # 0 =>
         \A k \in keys : k.id = found => k.repo # RepoOf(seen.want)

(* The first object's Secret is generated once.                              *)
FirstUp == obj.uid = 1 /\ ~obj.deleting
SecretInv ==
  kind = "DeployKey" /\ FirstUp =>
    \/ secret = NoSecret /\ scached = NoSecret /\ minted = 0
    \/ secret = [n |-> 1, owner |-> 1] /\ scached \in {NoSecret, secret} /\ minted = 1

(* The key under way is the one its spec asks for.                           *)
MaterialInv ==
  kind = "DeployKey" /\ step \in {"list", "register", "record"} =>
    /\ seen.want # 0 => mat = Brought
    /\ seen.want = 0 /\ FirstUp => mat = Minted(secret.n) /\ secret.n # 0
    /\ step = "record" => \E k \in keys : k.id = found /\ k.mat = mat /\ k.repo = RepoOf(seen.want)
InstalledInv ==
  Reported("DeployKey") => KeyInstalled /\ (obj.want = 0 /\ FirstUp => secret.n # 0)

(* The access under way, and the one that is taken away.                     *)
GrantInv ==
  kind = "Collaborator" =>
    /\ step = "record" => seen.want \in invited \cup members \/ User \in declined
    /\ Reported("Collaborator") => AccessGranted
RevokeInv ==
  kind = "Collaborator" /\ shown = "all" =>
    /\ step = "remove" => Of(User, invited) = {}
    /\ step = "release" /\ found # 0 => Of(found, invited \cup members) = {}
    /\ gone.what # 0 /\ ~obj.fin => Of(gone.what, invited \cup members) = {}

VersionsInv == ObjectInv /\ CopiesInv
HostInv ==
  IdsInv /\ RemovedInv /\ SecretInv /\ MaterialInv /\ InstalledInv /\ GrantInv /\ RevokeInv
IInv == TypeOK /\ RouteInv /\ VersionsInv /\ HostInv

-----------------------------------------------------------------------------
(* The copies.                                                               *)

(* The bounds leave room for every uid and every generation.                 *)
LEMMA Bounds ==
  ASSUME ReconciledTypeOK
  PROVE  /\ events \in Nat /\ events <= MaxEvents[kind] /\ MaxEvents[kind] \in Nat
         /\ MaxEvents[kind] + 1 <= MaxIds /\ MaxIds \in Nat /\ Wants[kind] \subseteq 0..2
BY ReconciledAssumption DEF ReconciledTypeOK

(* The types of an object's fields that the arguments below use.               *)
LEMMA ObjectFields ==
  ASSUME NEW x \in Objects
  PROVE  /\ x.uid \in Nat /\ x.gen \in Nat /\ x.observed \in Nat /\ x.ref \in Nat /\ x.want \in 0..2
         /\ x.deleting \in BOOLEAN /\ x.fin \in BOOLEAN
BY ReconciledAssumption DEF Objects, Uids, Generations, Numbers

(* The fields of the object that is not there.                                 *)
LEMMA AbsentFields ==
  /\ Absent \in Objects /\ Absent.uid = 0 /\ ~Absent.deleting /\ ~Absent.fin /\ Absent.gen = 0
  /\ Absent.want = 0 /\ Absent.observed = 0 /\ Absent.reason = "none" /\ Absent.ref = 0
BY ReconciledAssumption DEF Absent, Objects, Uids, Generations, Numbers, Reasons

(* The fields of an object as its creation leaves it.                          *)
LEMMA FreshFields ==
  ASSUME NEW u \in Uids, NEW w \in 0..2
  PROVE  /\ Fresh(u, w) \in Objects /\ Fresh(u, w).uid = u /\ ~Fresh(u, w).deleting /\ ~Fresh(u, w).fin
         /\ Fresh(u, w).gen = 1 /\ Fresh(u, w).want = w /\ Fresh(u, w).observed = 0
         /\ Fresh(u, w).reason = "none" /\ Fresh(u, w).ref = 0
<1>1. 1 \in Generations
  BY ReconciledAssumption DEF Generations
<1> QED BY <1>1, AbsentFields DEF Fresh, Absent, Objects

(* The facts of the type invariant that the arguments below use.               *)
LEMMA TypeFacts ==
  ASSUME TypeOK
  PROVE  /\ kind \in Kinds /\ obj \in Objects /\ cached \in Objects /\ seen \in Objects
         /\ synced \in BOOLEAN /\ current \in BOOLEAN /\ found \in Nat /\ gone.what \in Nat /\ lastId \in Nat
         /\ events \in Nat /\ events <= MaxEvents[kind] /\ MaxEvents[kind] + 1 <= MaxIds
         /\ MaxIds \in Nat /\ MaxEvents[kind] \in Nat
BY Bounds, ReconciledAssumption DEF TypeOK, ReconciledTypeOK, KeyTypeOK, Numbers

(* A step that changes neither the object nor a copy of it.                    *)
LEMMA VersionsFrame ==
  ASSUME TypeOK, VersionsInv, UNCHANGED <<obj, cached, synced, seen, current>>,
         events' \in Nat, events <= events', step' # "idle" => step # "idle"
  PROVE  VersionsInv'
<1>1. \A x \in Objects : x.uid \in Nat /\ x.gen \in Nat
  BY ObjectFields
<1> QED
  BY <1>1, TypeFacts DEF VersionsInv, ObjectInv, CopiesInv, CopyOK, ReadyNow

(* Reconcile's last write: of a status, of the finalizer, or of nothing that is left.  *)
WritesBack(o) ==
  \/ o = Absent /\ seen.deleting
  \/ /\ o.uid = seen.uid /\ o.want = seen.want /\ o.gen = seen.gen /\ o.deleting = seen.deleting
     /\ seen.fin => o.fin
     /\ o.observed \in {seen.observed, seen.gen}

(* Reconcile's last write keeps the copies in order: it takes effect only when *)
(* its copy is the object as it is.                                            *)
LEMMA VersionsUpdate ==
  ASSUME TypeOK, VersionsInv, step # "idle", NEW o \in Objects, WritesBack(o), Update(o), Stop, events' = events
  PROVE  VersionsInv'
<1>1. step' = "idle"
  BY DEF Stop
<1>2. CASE ~current
  BY <1>1, <1>2 DEF Update, objectVars, VersionsInv, ObjectInv, CopiesInv, CopyOK, ReadyNow
<1>3. CASE current
  <2>1. seen = obj /\ cached = obj /\ obj' = o /\ cached' = cached /\ seen.uid # 0
        /\ synced' = (o = obj /\ synced)
    BY <1>3 DEF VersionsInv, CopiesInv, Update, Write
  <2>2. synced' => cached' = obj'
    BY <2>1
  <2>3. ObjectInv'
    <3>1. CASE o = Absent
      BY <2>1, <3>1, AbsentFields, TypeFacts DEF ObjectInv
    <3>2. CASE o # Absent
      <4>1. o.uid = obj.uid /\ o.gen = obj.gen /\ o.observed \in {obj.observed, obj.gen}
        BY <2>1, <3>2 DEF WritesBack
      <4>2. obj.uid <= events + 1 /\ obj.gen <= events + 1 /\ obj.observed <= obj.gen
        BY DEF VersionsInv, ObjectInv
      <4>3. obj.gen \in Nat
        BY TypeFacts, ObjectFields
      <4> QED BY <2>1, <4>1, <4>2, <4>3 DEF ObjectInv
    <3> QED BY <3>1, <3>2
  <2>4. CopyOK(cached)'
    <3>0. CopyOK(obj)
      BY <2>1 DEF VersionsInv, CopiesInv
    <3>1. CASE o = Absent /\ seen.deleting
      BY <2>1, <3>0, <3>1, AbsentFields DEF CopyOK, ReadyNow
    <3>2. CASE /\ o.uid = seen.uid /\ o.want = seen.want /\ o.gen = seen.gen /\ o.deleting = seen.deleting
               /\ seen.fin => o.fin
      BY <2>1, <3>0, <3>2 DEF CopyOK, ReadyNow
    <3> QED BY <3>1, <3>2 DEF WritesBack
  <2> QED BY <1>1, <2>2, <2>3, <2>4 DEF VersionsInv, CopiesInv
<1> QED BY <1>2, <1>3, TypeFacts

(* A user's write.                                                           *)
LEMMA VersionsWrite ==
  ASSUME TypeOK, VersionsInv, NEW o \in Objects, Write(o), UNCHANGED <<step, seen>>,
         events' \in Nat, events <= events', ObjectInv',
         obj.deleting => o.deleting \/ o.uid # obj.uid,
         obj.fin => o.fin /\ o.uid = obj.uid,
         o.uid # obj.uid => o.uid # 1 /\ o.uid \notin 1..(events + 1),
         o.uid # 0 => o.reason \in {"none", obj.reason},
         o.uid # 0 /\ o.uid # obj.uid => o.reason = "none",
         ReadyNow(o) => ReadyNow(obj) /\ o.want = obj.want
  PROVE  VersionsInv'
<1>1. obj' = o /\ cached' = cached /\ seen' = seen /\ step' = step
      /\ synced' = (o = obj /\ synced) /\ current' = (o = obj /\ current)
  BY DEF Write
<1>2. ASSUME NEW x \in Objects, CopyOK(x) PROVE (CopyOK(x))'
  <2>1. x.uid \in Nat /\ obj.uid \in Nat /\ o.uid \in Nat /\ events \in Nat /\ obj.uid <= events + 1
        /\ x.deleting \in BOOLEAN /\ x.fin \in BOOLEAN
    BY TypeFacts, ObjectFields DEF VersionsInv, ObjectInv
  <2>2. x.uid <= events' + 1
    BY <1>2, <2>1 DEF CopyOK
  <2>3. o.uid = 1 => x.uid \in {0, 1}
    BY <1>2, <2>1 DEF CopyOK
  <2>4. x.uid = o.uid /\ x.uid # 0 /\ x.deleting => o.deleting
    BY <1>2, <2>1 DEF CopyOK
  <2>5. x.fin /\ ~x.deleting => o.uid = x.uid /\ o.fin
    BY <1>2, <2>1 DEF CopyOK
  <2>6. o.uid # 0 /\ o.reason # "none" => x.uid = o.uid
    BY <1>2, <2>1 DEF CopyOK
  <2>7. ReadyNow(o) => x.want = o.want
    BY <1>2 DEF CopyOK
  <2> QED BY <1>1, <2>2, <2>3, <2>4, <2>5, <2>6, <2>7 DEF CopyOK, ReadyNow
<1>3. CopyOK(cached) /\ (step # "idle" => seen.uid # 0 /\ CopyOK(seen))
  BY DEF VersionsInv, CopiesInv
<1>5. CopyOK(cached)'
  <2>1. PICK x \in Objects : x = cached
    BY TypeFacts
  <2>2. (CopyOK(x))'
    BY <1>2, <1>3, <2>1
  <2> QED BY <1>1, <2>1, <2>2 DEF CopyOK
<1>6. ASSUME step # "idle" PROVE CopyOK(seen)'
  <2>1. PICK x \in Objects : x = seen
    BY TypeFacts
  <2>2. (CopyOK(x))'
    BY <1>2, <1>3, <1>6, <2>1
  <2> QED BY <1>1, <2>1, <2>2 DEF CopyOK
<1>7. (synced' => cached' = obj') /\ (step' # "idle" /\ current' => seen' = obj' /\ cached' = obj')
  BY <1>1, TypeFacts DEF VersionsInv, CopiesInv
<1> QED BY <1>1, <1>3, <1>5, <1>6, <1>7 DEF VersionsInv, CopiesInv

(* An edit moves the generation on, so no copy is Ready for it.                *)
LEMMA VersionsEditSpec ==
  ASSUME TypeOK, VersionsInv, EditSpec
  PROVE  VersionsInv' /\ obj' \in Objects
<1>1. PICK w \in Wants[kind] \ {obj.want} : Write([obj EXCEPT !.want = w, !.gen = @ + 1])
  BY DEF EditSpec
<1>2. PICK o : o = [obj EXCEPT !.want = w, !.gen = @ + 1]
  OBVIOUS
<1>3. /\ obj.uid <= events + 1 /\ obj.gen <= events + 1 /\ obj.observed <= obj.gen /\ obj \in Objects
      /\ obj.gen \in Nat /\ obj.observed \in Nat /\ events \in Nat /\ events' = events + 1
      /\ events < MaxEvents[kind] /\ ~obj.deleting /\ obj.uid # 0 /\ obj.uid \in Nat
  BY TypeFacts, ObjectFields DEF VersionsInv, ObjectInv, EditSpec
<1>4. obj.gen + 1 \in Generations /\ w \in 0..2
  BY <1>3, TypeFacts, ReconciledAssumption DEF Generations
<1>5. /\ o \in Objects /\ o.uid = obj.uid /\ o.deleting = obj.deleting /\ o.fin = obj.fin
      /\ o.gen = obj.gen + 1 /\ o.observed = obj.observed /\ o.reason = obj.reason
  BY <1>2, <1>3, <1>4 DEF Objects
<1>6. ~ReadyNow(o)
  BY <1>3, <1>5 DEF ReadyNow
<1>7. obj' = o /\ Write(o) /\ UNCHANGED <<step, seen>>
  BY <1>1, <1>2 DEF Write, EditSpec
<1>8. ObjectInv'
  BY <1>3, <1>5, <1>7 DEF ObjectInv
<1> QED BY <1>3, <1>5, <1>6, <1>7, <1>8, VersionsWrite

(* A deletion marks the object or, without a finalizer, removes it.            *)
LEMMA VersionsDeleteObject ==
  ASSUME TypeOK, VersionsInv, DeleteObject
  PROVE  VersionsInv' /\ obj' \in Objects
<1>1. PICK o : o = IF obj.fin THEN [obj EXCEPT !.deleting = TRUE] ELSE Absent
  OBVIOUS
<1>2. /\ obj.uid <= events + 1 /\ obj.gen <= events + 1 /\ obj.observed <= obj.gen /\ obj \in Objects
      /\ obj.uid # 0 /\ ~obj.deleting /\ events \in Nat /\ events' = events
  BY TypeFacts, ObjectFields DEF VersionsInv, ObjectInv, DeleteObject, worldVars
<1>3. obj' = o /\ Write(o) /\ UNCHANGED <<step, seen>>
  BY <1>1 DEF Write, DeleteObject
<1>4. CASE obj.fin
  <2>1. o = [obj EXCEPT !.deleting = TRUE]
    BY <1>1, <1>4
  <2>2. /\ o \in Objects /\ o.uid = obj.uid /\ o.deleting /\ o.fin = obj.fin /\ o.gen = obj.gen
        /\ o.observed = obj.observed /\ o.reason = obj.reason /\ o.want = obj.want
    BY <1>2, <2>1 DEF Objects
  <2>3. ObjectInv'
    BY <1>2, <1>3, <2>2 DEF ObjectInv
  <2> QED BY <1>2, <1>3, <2>2, <2>3, VersionsWrite DEF ReadyNow
<1>5. CASE ~obj.fin
  <2>1. o = Absent
    BY <1>1, <1>5
  <2>2. ObjectInv'
    BY <1>2, <1>3, <2>1, AbsentFields DEF ObjectInv
  <2> QED BY <1>2, <1>3, <1>5, <2>1, <2>2, AbsentFields, VersionsWrite DEF ReadyNow
<1> QED BY <1>4, <1>5

(* An object that takes over a name has a uid no copy has.                     *)
LEMMA VersionsRecreate ==
  ASSUME TypeOK, VersionsInv, Recreate
  PROVE  VersionsInv' /\ obj' \in Objects
<1>1. PICK w \in Wants[kind] : Write(Fresh(events + 2, w))
  BY DEF Recreate
<1>2. PICK o : o = Fresh(events + 2, w)
  OBVIOUS
<1>3. obj = Absent /\ events \in Nat /\ events' = events + 1 /\ events < MaxEvents[kind]
  BY TypeFacts DEF VersionsInv, ObjectInv, Recreate
<1>4. events + 2 \in Uids /\ w \in 0..2
  BY <1>3, TypeFacts, ReconciledAssumption DEF Uids
<1>5. /\ o \in Objects /\ o.uid = events + 2 /\ ~o.deleting /\ ~o.fin /\ o.gen = 1 /\ o.observed = 0
      /\ o.reason = "none"
  BY <1>2, <1>4, FreshFields
<1>6. obj' = o /\ Write(o) /\ UNCHANGED <<step, seen>>
  BY <1>1, <1>2 DEF Write, Recreate
<1>7. ObjectInv'
  BY <1>3, <1>5, <1>6 DEF ObjectInv
<1> QED BY <1>3, <1>5, <1>6, <1>7, AbsentFields, VersionsWrite DEF ReadyNow

(* Reconcile's copy is the cached one.                                         *)
LEMMA VersionsStart ==
  ASSUME TypeOK, VersionsInv, NEW entry, Start(entry)
  PROVE  VersionsInv'
<1>1. UNCHANGED <<obj, cached, synced, events>>
  BY DEF Start, objectVars, worldVars
<1>2. CASE cached.uid # 0 /\ entry # "idle"
  <2>1. step' = entry /\ seen' = cached /\ current' = synced
    BY <1>2 DEF Start
  <2> QED BY <1>1, <1>2, <2>1 DEF VersionsInv, ObjectInv, CopiesInv, CopyOK, ReadyNow
<1>3. CASE ~(cached.uid # 0 /\ entry # "idle")
  <2>1. UNCHANGED <<step, seen, current>>
    BY <1>3 DEF Start, workVars
  <2> QED BY <1>1, <2>1, TypeFacts, VersionsFrame
<1> QED BY <1>2, <1>3

(* An object agrees with itself.                                             *)
LEMMA VersionsSync ==
  ASSUME TypeOK, VersionsInv, cached' = obj, synced' = TRUE, obj' = obj, events' \in Nat, events <= events',
         UNCHANGED <<step, seen, current>> \/ step' = "idle"
  PROVE  VersionsInv'
<1>1. obj.uid \in Nat /\ obj.gen \in Nat /\ events \in Nat /\ obj.uid <= events + 1 /\ obj.gen <= events + 1
  BY TypeFacts, ObjectFields DEF VersionsInv, ObjectInv
<1>2. ObjectInv'
  BY <1>1 DEF VersionsInv, ObjectInv
<1>3. obj.uid = 0 => ~obj.fin
  BY AbsentFields DEF VersionsInv, ObjectInv
<1>4. CopyOK(cached)'
  BY <1>1, <1>3 DEF CopyOK, ReadyNow
<1>5. CASE step' = "idle"
  BY <1>2, <1>4, <1>5 DEF VersionsInv, CopiesInv
<1>6. CASE UNCHANGED <<step, seen, current>>
  <2>1. step # "idle" => CopyOK(seen)'
    <3>1. seen.uid \in Nat
      BY TypeFacts, ObjectFields
    <3> QED BY <1>1, <1>6, <3>1 DEF VersionsInv, CopiesInv, CopyOK, ReadyNow
  <2> QED BY <1>2, <1>4, <1>6, <2>1 DEF VersionsInv, CopiesInv
<1> QED BY <1>5, <1>6

-----------------------------------------------------------------------------
(* The host's side.                                                          *)

(* Of the object as it becomes no more is reported than of the object as it was.  *)
NoNewReport ==
  /\ ReadyNow(obj') /\ ~obj'.deleting =>
       ReadyNow(obj) /\ ~obj.deleting /\ obj'.ref = obj.ref /\ obj'.want = obj.want /\ obj'.uid = obj.uid
  /\ obj'.uid = 1 /\ ~obj'.deleting => FirstUp
  /\ obj'.fin \/ ~obj.fin

(* Reconcile is left where it was, or goes where it has nothing to show for yet.  *)
NothingToShow ==
  \/ UNCHANGED <<step, seen, found, mat>>
  \/ /\ step' \notin {"list", "register", "record", "remove"}
     /\ step' \in {"unstore", "release"} => found' = 0

(* The host's invariants survive a step that reports nothing new and leaves    *)
(* keys, Secrets, invitations and members alone.                               *)
LEMMA HostFrame ==
  ASSUME TypeOK, HostInv, NoNewReport, NothingToShow,
         UNCHANGED <<kind, keys, lastId, minted, secret, grantVars, gone>>, scached' \in {scached, secret},
         shown' = shown \/ shown = "all",
         obj'.ref \in {0, obj.ref, seen.ref}, cached'.ref \in {cached.ref, obj.ref},
         seen'.ref \in {0, seen.ref, cached.ref}
  PROVE  HostInv'
<1>0. UNCHANGED <<invited, members, declined>>
  BY DEF grantVars
<1>1. IdsInv'
  BY TypeFacts DEF HostInv, IdsInv, NothingToShow
<1>2. RemovedInv'
  <2>1. seen' = seen \/ step' \notin {"unstore", "release"} \/ found' = 0
    BY DEF NothingToShow
  <2> QED BY <2>1 DEF HostInv, RemovedInv, NothingToShow
<1>3. SecretInv'
  BY DEF HostInv, SecretInv, NoNewReport, FirstUp, NoSecret
<1>4. MaterialInv'
  BY DEF HostInv, MaterialInv, NoNewReport, FirstUp, NothingToShow, Given, Minted
<1>5. InstalledInv'
  BY DEF HostInv, InstalledInv, Reported, Exists, NoNewReport, ReadyNow, KeyInstalled, FirstUp, Given, Minted
<1>6. GrantInv'
  <2>1. Reported("Collaborator")' => AccessGranted'
    BY <1>0 DEF HostInv, GrantInv, Reported, Exists, NoNewReport, ReadyNow, AccessGranted, UserOf
  <2>2. kind = "Collaborator" /\ step' = "record" => seen'.want \in invited' \cup members' \/ User' \in declined'
    BY <1>0 DEF HostInv, GrantInv, NothingToShow, User, UserOf
  <2> QED BY <2>1, <2>2 DEF GrantInv
<1>7. RevokeInv'
  BY <1>0 DEF HostInv, RevokeInv, NoNewReport, NothingToShow, Of, User, UserOf
<1> QED BY <1>1, <1>2, <1>3, <1>4, <1>5, <1>6, <1>7 DEF HostInv

-----------------------------------------------------------------------------
(* The end of Reconcile.                                                     *)

Unrelated == UNCHANGED <<kind, keys, lastId, minted, secretVars, grantVars, gone, worldVars>>

(* Reconcile ends without a Ready verdict of its own: whatever it writes back, *)
(* no more is reported than before.                                            *)
LEMMA EndingKept ==
  ASSUME IInv, step # "idle", NEW o \in Objects, Update(o), Stop, Unrelated,
         o.uid = seen.uid, o.want = seen.want, o.gen = seen.gen, o.deleting = seen.deleting, o.ref = seen.ref,
         seen.fin => o.fin,
         \/ o.observed = seen.observed /\ o.reason = seen.reason
         \/ o.observed = seen.gen /\ o.reason # "Ready"
  PROVE  /\ RouteInv' /\ VersionsInv' /\ HostInv' /\ obj' \in Objects /\ cached' \in Objects
         /\ synced' \in BOOLEAN /\ current' \in BOOLEAN
<1>1. TypeOK /\ VersionsInv /\ HostInv
  BY DEF IInv
<1>2. step' = "idle" /\ seen' = Absent /\ found' = 0
  BY DEF Stop
<1>3. VersionsInv'
  <2>1. WritesBack(o) /\ events' = events
    BY DEF WritesBack, Unrelated, worldVars
  <2> QED BY <1>1, <2>1, VersionsUpdate
<1>4. RouteInv'
  BY <1>2 DEF RouteInv, Undoing, Doing
<1>5. CASE current
  <2>1. seen = obj /\ cached = obj /\ obj' = o /\ cached' = cached /\ seen.uid # 0
        /\ synced' = (o = obj /\ synced) /\ current' = (o = obj /\ current)
    BY <1>1, <1>5 DEF VersionsInv, CopiesInv, Update, Write
  <2>2. NoNewReport
    BY <2>1 DEF NoNewReport, ReadyNow, FirstUp
  <2>3. HostInv'
    BY <1>1, <1>2, <2>1, <2>2, AbsentFields, HostFrame
       DEF Unrelated, NothingToShow, secretVars, worldVars
  <2> QED BY <1>1, <1>3, <1>4, <2>1, <2>3, TypeFacts
<1>6. CASE ~current
  <2>1. UNCHANGED <<obj, cached, synced, current>>
    BY <1>6 DEF Update, objectVars
  <2>2. NoNewReport
    BY <2>1 DEF NoNewReport, FirstUp
  <2>3. HostInv'
    BY <1>1, <1>2, <2>1, <2>2, AbsentFields, HostFrame
       DEF Unrelated, NothingToShow, secretVars, worldVars
  <2> QED BY <1>1, <1>3, <1>4, <2>1, <2>3, TypeFacts
<1> QED BY <1>1, <1>5, <1>6, TypeFacts

(* A failure is recorded for the generation that was read and leaves the       *)
(* recorded id in place.                                                       *)
LEMMA NotReadyFields ==
  ASSUME IInv, NEW reason \in Reasons, NEW at \in 0..2
  PROVE  LET o == NotReady(reason, at)
         IN  /\ o \in Objects /\ o.uid = seen.uid /\ o.want = seen.want /\ o.gen = seen.gen
             /\ o.deleting = seen.deleting /\ o.ref = seen.ref /\ o.fin = seen.fin
             /\ o.observed = seen.gen /\ o.reason = reason
<1>1. seen \in Objects
  BY TypeFacts DEF IInv
<1> QED BY <1>1 DEF NotReady, Objects

(* AddFinalizer, fail and waitForRateLimit preserve the invariant.             *)
LEMMA EndsKept ==
  ASSUME IInv, Ends
  PROVE  IInv'
<1>1. Unrelated /\ mat' = NoKey /\ UNCHANGED <<rests, owner>>
  BY DEF Ends, Finish, AddFinalizer, Fail, WaitForRateLimit, OfKey, NotGrant, NotVerdict, keyVars, Unrelated
<1>2. ASSUME NEW o \in Objects, step # "idle", Update(o), Stop,
             o.uid = seen.uid, o.want = seen.want, o.gen = seen.gen, o.deleting = seen.deleting,
             o.ref = seen.ref, seen.fin => o.fin,
             \/ o.observed = seen.observed /\ o.reason = seen.reason
             \/ o.observed = seen.gen /\ o.reason # "Ready",
             queued' \in BOOLEAN, timer' \in SUBSET {"reset", "delay"}
      PROVE  IInv'
  <2>1. /\ RouteInv' /\ VersionsInv' /\ HostInv' /\ obj' \in Objects /\ cached' \in Objects
        /\ synced' \in BOOLEAN /\ current' \in BOOLEAN
    BY <1>1, <1>2, EndingKept
  <2>2. step' = "idle" /\ seen' = Absent /\ found' = 0
    BY <1>2 DEF Stop
  <2>3. TypeOK'
    <3>1. NoKey \in Materials /\ "idle" \in Steps /\ 0 \in Numbers
      BY ReconciledAssumption DEF NoKey, Materials, Given, Steps, Numbers
    <3> QED
      BY <1>1, <1>2, <2>1, <2>2, <3>1, AbsentFields
         DEF IInv, TypeOK, ReconciledTypeOK, KeyTypeOK, CollaboratorTypeOK, ConnectionTypeOK, Unrelated,
             secretVars, grantVars, worldVars
  <2> QED BY <2>1, <2>3 DEF IInv
<1>3. queued \in BOOLEAN /\ timer \in SUBSET {"reset", "delay"} /\ seen \in Objects /\ current \in BOOLEAN
  BY DEF IInv, TypeOK, ReconciledTypeOK
<1>4. CASE AddFinalizer
  <2>1. PICK o : o = [seen EXCEPT !.fin = TRUE]
    OBVIOUS
  <2>2. /\ o \in Objects /\ o.uid = seen.uid /\ o.want = seen.want /\ o.gen = seen.gen
        /\ o.deleting = seen.deleting /\ o.ref = seen.ref /\ o.fin /\ o.observed = seen.observed
        /\ o.reason = seen.reason
    BY <1>3, <2>1 DEF Objects
  <2> QED BY <1>2, <1>3, <1>4, <2>1, <2>2 DEF AddFinalizer, Requeue
<1>5. CASE Fail
  <2>1. PICK o : o = NotReady("Failed", 0)
    OBVIOUS
  <2>2. /\ o \in Objects /\ o.uid = seen.uid /\ o.want = seen.want /\ o.gen = seen.gen
        /\ o.deleting = seen.deleting /\ o.ref = seen.ref /\ o.fin = seen.fin
        /\ o.observed = seen.gen /\ o.reason = "Failed"
    BY <2>1, NotReadyFields DEF Reasons
  <2> QED BY <1>2, <1>3, <1>5, <2>1, <2>2 DEF Fail, Requeue
<1>6. CASE WaitForRateLimit
  <2>1. PICK o : o = NotReady("RateLimited", LimitMessage)
    OBVIOUS
  <2>2. LimitMessage \in 0..2
    BY <1>6 DEF LimitMessage, WaitForRateLimit, IInv, RouteInv
  <2>3. /\ o \in Objects /\ o.uid = seen.uid /\ o.want = seen.want /\ o.gen = seen.gen
        /\ o.deleting = seen.deleting /\ o.ref = seen.ref /\ o.fin = seen.fin
        /\ o.observed = seen.gen /\ o.reason = "RateLimited"
    BY <2>1, <2>2, NotReadyFields DEF Reasons
  <2>4. queued' \in BOOLEAN /\ timer' \in SUBSET {"reset", "delay"}
    BY <1>3, <1>6 DEF WaitForRateLimit, Requeue
  <2> QED BY <1>2, <1>6, <2>1, <2>3, <2>4 DEF WaitForRateLimit
<1> QED BY <1>4, <1>5, <1>6 DEF Ends, Finish

-----------------------------------------------------------------------------
(* The world.                                                                *)

(* A step that leaves Reconcile and the host where they are.                   *)
LEMMA QuietKept ==
  ASSUME IInv, VersionsInv', NoNewReport, OfAll, UNCHANGED <<kind, step, seen, found, secret, gone>>,
         scached' \in {scached, secret}, shown' \in Views, shown' = shown \/ shown = "all",
         obj' \in Objects, obj'.ref \in {0, obj.ref}, cached' \in {cached, obj},
         synced' \in BOOLEAN, current' \in BOOLEAN, queued' \in BOOLEAN, usable' \in BOOLEAN,
         timer' \in SUBSET {"reset", "delay"}, limit' \in 0..2, events' \in 0..MaxEvents[kind]
  PROVE  IInv'
<1>1. /\ TypeOK /\ RouteInv /\ HostInv
      /\ UNCHANGED <<mat, keys, lastId, minted, grantVars, rests, owner>>
  BY DEF IInv, OfAll, NotKey, NotGrant, NotVerdict, keyVars
<1>2. RouteInv'
  BY <1>1 DEF RouteInv
<1>3. HostInv'
  <2>1. NothingToShow
    BY <1>1 DEF NothingToShow
  <2>2. cached'.ref \in {cached.ref, obj.ref}
    OBVIOUS
  <2> QED BY <1>1, <2>1, <2>2, HostFrame
<1>4. TypeOK'
  BY <1>1 DEF TypeOK, ReconciledTypeOK, KeyTypeOK, CollaboratorTypeOK, ConnectionTypeOK, grantVars
<1> QED BY <1>2, <1>3, <1>4 DEF IInv

(* The parts and the types that follow from the invariant.                     *)
LEMMA IInvFacts ==
  ASSUME IInv
  PROVE  /\ TypeOK /\ VersionsInv /\ RouteInv /\ HostInv /\ kind \in Kinds
         /\ obj \in Objects /\ cached \in Objects /\ seen \in Objects
         /\ synced \in BOOLEAN /\ queued \in BOOLEAN /\ current \in BOOLEAN /\ usable \in BOOLEAN
         /\ shown \in Views /\ timer \in SUBSET {"reset", "delay"}
         /\ step \in Steps /\ found \in Numbers /\ secret \in Secrets /\ scached \in Secrets
         /\ limit \in 0..2 /\ events \in 0..MaxEvents[kind] /\ MaxEvents[kind] \in Nat
BY Bounds DEF IInv, TypeOK, ReconciledTypeOK

(* The bound on events holds after a step that counts one.                     *)
LEMMA EventCounted ==
  ASSUME IInv, events' = events \/ (events < MaxEvents[kind] /\ events' = events + 1)
  PROVE  events' \in 0..MaxEvents[kind] /\ events' \in Nat /\ events <= events'
<1>1. events \in 0..MaxEvents[kind] /\ MaxEvents[kind] \in Nat
  BY IInvFacts
<1> QED BY <1>1

(* The users' writes of the object preserve the invariant.                     *)
LEMMA WritesKept ==
  ASSUME IInv, EditSpec \/ DeleteObject \/ Recreate, OfAll, UNCHANGED gone
  PROVE  IInv'
<1>0. UNCHANGED <<kind, step, seen, found, secret, scached, queued, timer, usable, shown, limit>>
  BY DEF EditSpec, DeleteObject, Recreate, queueVars, secretVars, worldVars
<1>1. cached' = cached /\ synced' \in BOOLEAN /\ current' \in BOOLEAN
  BY IInvFacts DEF EditSpec, DeleteObject, Recreate, Write
<1>2. events' \in 0..MaxEvents[kind]
  <2>1. events' = events \/ (events < MaxEvents[kind] /\ events' = events + 1)
    BY DEF EditSpec, DeleteObject, Recreate, worldVars
  <2> QED BY <2>1, EventCounted
<1>3. VersionsInv' /\ obj' \in Objects
  BY IInvFacts, VersionsEditSpec, VersionsDeleteObject, VersionsRecreate
<1>4. NoNewReport /\ obj'.ref \in {0, obj.ref}
  <2>1. CASE EditSpec
    <3>1. PICK w \in Wants[kind] \ {obj.want} : Write([obj EXCEPT !.want = w, !.gen = @ + 1])
      BY <2>1 DEF EditSpec
    <3>2. obj' = [obj EXCEPT !.want = w, !.gen = @ + 1] /\ obj \in Objects
      BY <3>1, IInvFacts DEF Write
    <3>3. /\ obj'.uid = obj.uid /\ obj'.deleting = obj.deleting /\ obj'.fin = obj.fin /\ obj'.ref = obj.ref
          /\ obj'.gen = obj.gen + 1 /\ obj'.observed = obj.observed
      BY <3>2 DEF Objects
    <3>4. obj.observed <= obj.gen /\ obj.gen \in Nat /\ obj.observed \in Nat
      BY IInvFacts, ObjectFields DEF VersionsInv, ObjectInv
    <3>5. ~ReadyNow(obj')
      BY <3>3, <3>4 DEF ReadyNow
    <3> QED BY <3>3, <3>5 DEF NoNewReport, FirstUp
  <2>2. CASE DeleteObject
    <3>1. obj' = (IF obj.fin THEN [obj EXCEPT !.deleting = TRUE] ELSE Absent) /\ obj \in Objects
      BY <2>2, IInvFacts DEF DeleteObject, Write
    <3>2. CASE obj.fin
      <4>1. obj'.deleting /\ obj'.fin /\ obj'.ref = obj.ref
        BY <3>1, <3>2 DEF Objects
      <4> QED BY <4>1 DEF NoNewReport
    <3>3. CASE ~obj.fin
      BY <3>1, <3>3, AbsentFields DEF NoNewReport, ReadyNow
    <3> QED BY <3>2, <3>3
  <2>3. CASE Recreate
    <3>1. PICK w \in Wants[kind] : Write(Fresh(events + 2, w))
      BY <2>3 DEF Recreate
    <3>2. obj' = Fresh(events + 2, w) /\ obj = Absent /\ events \in Nat /\ events < MaxEvents[kind]
      BY <2>3, <3>1, IInvFacts DEF Write, Recreate, VersionsInv, ObjectInv
    <3>3. events + 2 \in Uids /\ w \in 0..2
      BY <3>2, IInvFacts, TypeFacts, ReconciledAssumption DEF Uids
    <3>4. obj'.reason = "none" /\ obj'.uid = events + 2 /\ obj'.ref = 0
      BY <3>2, <3>3, FreshFields
    <3> QED BY <3>2, <3>4, AbsentFields DEF NoNewReport, ReadyNow
  <2> QED BY <2>1, <2>2, <2>3
<1> QED BY <1>0, <1>1, <1>2, <1>3, <1>4, IInvFacts, QuietKept

(* The informers, the timers, the limit, references and what is shown preserve*)
(* the invariant.                                                              *)
LEMMA QuietWorldKept ==
  ASSUME IInv, OfAll, UNCHANGED gone,
         \/ Sync \/ TimerFires \/ LimitBegins \/ LimitEnds \/ ReferencesBreak \/ ReferencesHeal \/ Crowd
         \/ Bar \/ SyncSecret
  PROVE  IInv'
<1>1. UNCHANGED <<kind, obj, step, seen, found, secret, current>>
  BY DEF Sync, TimerFires, LimitBegins, LimitEnds, ReferencesBreak, ReferencesHeal, Crowd, Bar, SyncSecret,
         objectVars, queueVars, workVars, secretVars, worldVars
<1>2. /\ scached' \in {scached, secret} /\ shown' \in Views /\ (shown' = shown \/ shown = "all")
      /\ usable' \in BOOLEAN /\ limit' \in 0..2
  <2>1. scached' \in {scached, secret} /\ usable' \in {usable, TRUE, FALSE}
    BY DEF Sync, TimerFires, LimitBegins, LimitEnds, ReferencesBreak, ReferencesHeal, Crowd, Bar, SyncSecret,
           secretVars, worldVars
  <2>2. limit' \in {limit, 0, 1}
    BY DEF Sync, TimerFires, LimitBegins, LimitEnds, ReferencesBreak, ReferencesHeal, Crowd, Bar, SyncSecret, worldVars
  <2>3. shown' \in Views /\ (shown' = shown \/ shown = "all")
    <3>1. shown' = shown \/ (shown = "all" /\ shown' \in {"page", "nothing"})
      BY DEF Sync, TimerFires, LimitBegins, LimitEnds, ReferencesBreak, ReferencesHeal, Crowd, Bar, SyncSecret,
             worldVars
    <3> QED BY <3>1, IInvFacts DEF Views
  <2>4. usable' \in BOOLEAN
    BY <2>1, IInvFacts, Zenon
  <2>5. limit' \in 0..2
    BY <2>2, IInvFacts
  <2> QED BY <2>1, <2>3, <2>4, <2>5
<1>3. queued' \in BOOLEAN /\ timer' \in SUBSET {"reset", "delay"}
  <2>1. Notify \in BOOLEAN
    BY DEF Notify
  <2> QED
    BY <2>1, IInvFacts DEF Sync, TimerFires, LimitBegins, LimitEnds, ReferencesBreak, ReferencesHeal, Crowd, Bar, SyncSecret,
         objectVars, queueVars, workVars, secretVars, worldVars
<1>4. events' \in 0..MaxEvents[kind] /\ events <= events' /\ events' \in Nat
  <2>1. events' = events \/ (events < MaxEvents[kind] /\ events' = events + 1)
    BY DEF Sync, TimerFires, LimitBegins, LimitEnds, ReferencesBreak, ReferencesHeal, Crowd, Bar, SyncSecret, worldVars
  <2> QED BY <2>1, EventCounted
<1>5. VersionsInv' /\ cached' \in {cached, obj} /\ synced' \in BOOLEAN
  <2>1. CASE Sync
    BY <1>1, <1>4, <2>1, IInvFacts, VersionsSync DEF Sync
  <2>2. CASE ~Sync
    <3>1. UNCHANGED <<cached, synced>>
      BY <2>2 DEF TimerFires, LimitBegins, LimitEnds, ReferencesBreak, ReferencesHeal, Crowd, Bar, SyncSecret, objectVars
    <3> QED BY <1>1, <1>4, <3>1, IInvFacts, VersionsFrame
  <2> QED BY <2>1, <2>2
<1>6. NoNewReport
  BY <1>1 DEF NoNewReport, FirstUp
<1> QED BY <1>1, <1>2, <1>3, <1>4, <1>5, <1>6, IInvFacts, QuietKept

(* A restart loses Reconcile's place and refreshes the caches; nothing was     *)
(* promised on either.                                                         *)
LEMMA RestartKept ==
  ASSUME IInv, Restart
  PROVE  IInv'
<1>1. /\ UNCHANGED <<kind, obj, secret, usable, shown, keys, lastId, minted, grantVars, rests, owner, gone>>
      /\ mat' = NoKey /\ step' = "idle" /\ seen' = Absent /\ found' = 0 /\ current' = FALSE
      /\ cached' = obj /\ synced' = TRUE /\ timer' = {} /\ scached' = secret
  BY DEF Restart, Crash, Stop, OfKey, NotGrant, NotVerdict, keyVars
<1>2. events' \in 0..MaxEvents[kind] /\ events <= events' /\ events' \in Nat
  <2>1. events < MaxEvents[kind] /\ events' = events + 1
    BY DEF Restart, Crash
  <2> QED BY <2>1, EventCounted
<1>3. queued' \in BOOLEAN /\ limit' \in 0..2
  BY DEF Restart, Crash
<1>4. VersionsInv'
  BY <1>1, <1>2, IInvFacts, VersionsSync
<1>5. RouteInv'
  BY <1>1 DEF RouteInv, Undoing, Doing
<1>6. HostInv'
  <2>1. NoNewReport
    BY <1>1 DEF NoNewReport, FirstUp
  <2>2. NothingToShow
    BY <1>1 DEF NothingToShow
  <2>3. scached' \in {scached, secret} /\ shown' = shown /\ obj'.ref = obj.ref /\ cached'.ref = obj.ref
        /\ seen'.ref = 0
    BY <1>1, AbsentFields
  <2> QED BY <1>1, <2>1, <2>2, <2>3, IInvFacts, HostFrame
<1>7. TypeOK'
  <2>1. NoKey \in Materials /\ "idle" \in Steps /\ 0 \in Numbers
    BY ReconciledAssumption DEF NoKey, Materials, Given, Steps, Numbers
  <2> QED
    BY <1>1, <1>2, <1>3, <2>1, AbsentFields
       DEF IInv, TypeOK, ReconciledTypeOK, KeyTypeOK, CollaboratorTypeOK, ConnectionTypeOK, grantVars
<1> QED BY <1>4, <1>5, <1>6, <1>7 DEF IInv

(* The garbage collector takes the Secret of an owner that is gone, never that *)
(* of the first object while it is up.                                         *)
LEMMA CollectSecretKept ==
  ASSUME IInv, CollectSecret, OfAll, UNCHANGED gone
  PROVE  IInv'
<1>1. /\ UNCHANGED <<kind, obj, cached, synced, queued, timer, step, seen, current, found, scached,
                     usable, shown, limit, events>>
      /\ UNCHANGED <<mat, keys, lastId, minted, invited, members, declined, rests, owner, gone>>
      /\ secret' = NoSecret
  BY DEF CollectSecret, OfAll, NotKey, NotGrant, NotVerdict, keyVars, grantVars, objectVars, queueVars, workVars, worldVars
<1>2. kind = "DeployKey" => ~FirstUp
  <2>1. NoSecret.owner = 0 /\ [n |-> 1, owner |-> 1].owner = 1
    BY DEF NoSecret
  <2>2. SecretInv
    BY IInvFacts DEF HostInv
  <2> QED BY <2>1, <2>2 DEF SecretInv, FirstUp, CollectSecret
<1>3. RouteInv' /\ VersionsInv'
  <2>1. RouteInv'
    BY <1>1, IInvFacts DEF RouteInv
  <2>2. events \in Nat
    BY IInvFacts
  <2> QED BY <1>1, <2>1, <2>2, IInvFacts, VersionsFrame
<1>4. IdsInv' /\ RemovedInv'
  BY <1>1, IInvFacts DEF HostInv, IdsInv, RemovedInv
<1>5. SecretInv' /\ MaterialInv'
  BY <1>1, <1>2, IInvFacts DEF HostInv, SecretInv, MaterialInv, FirstUp
<1>6. InstalledInv'
  BY <1>1, <1>2, IInvFacts DEF HostInv, InstalledInv, Reported, Exists, KeyInstalled, FirstUp
<1>7. GrantInv'
  BY <1>1, IInvFacts DEF HostInv, GrantInv, Reported, Exists, AccessGranted, User
<1>8. RevokeInv'
  BY <1>1, IInvFacts DEF HostInv, RevokeInv, User
<1>9. TypeOK'
  <2>1. NoSecret \in Secrets
    BY ReconciledAssumption DEF NoSecret, Secrets, Numbers, Uids
  <2> QED
    BY <1>1, <2>1 DEF IInv, TypeOK, ReconciledTypeOK, KeyTypeOK, CollaboratorTypeOK, ConnectionTypeOK
<1> QED BY <1>3, <1>4, <1>5, <1>6, <1>7, <1>8, <1>9 DEF IInv, HostInv

(* With the finalizer goes the object, and what was removed for it is on record*)
(* in gone.                                                                    *)
LEMMA ReleaseKept ==
  ASSUME IInv, Release, OfAll
  PROVE  IInv'
<1>1. /\ UNCHANGED <<kind, timer, secret, scached, usable, shown, limit, events>>
      /\ UNCHANGED <<mat, keys, lastId, minted, grantVars, invited, members, declined, rests, owner>>
      /\ step' = "idle" /\ seen' = Absent /\ found' = 0 /\ step = "release" /\ Update(Absent) /\ Stop
      /\ gone' = (IF current THEN [what |-> found, repo |-> RepoOf(seen.want)] ELSE gone)
  BY DEF Release, RemoveFinalizer, Stop, OfAll, NotKey, NotGrant, NotVerdict, keyVars, grantVars,
         secretVars, worldVars
<1>2. queued' \in BOOLEAN /\ gone' \in [what : Numbers, repo : {1, 2}]
  <2>1. queued' \in BOOLEAN
    BY IInvFacts DEF Release, RemoveFinalizer
  <2>2. RepoOf(seen.want) \in {1, 2} /\ gone \in [what : Numbers, repo : {1, 2}] /\ found \in Numbers
    BY IInvFacts DEF RepoOf, TypeOK
  <2> QED BY <1>1, <2>1, <2>2
<1>3. RouteInv'
  BY <1>1 DEF RouteInv, Undoing, Doing
<1>4. VersionsInv'
  <2>1. seen.deleting
    BY <1>1, IInvFacts DEF RouteInv, Undoing
  <2>2. WritesBack(Absent)
    BY <2>1 DEF WritesBack
  <2> QED BY <1>1, <2>2, AbsentFields, IInvFacts, VersionsUpdate
<1>5. /\ HostInv' /\ obj' \in Objects /\ cached' \in Objects
      /\ synced' \in BOOLEAN /\ current' \in BOOLEAN
  <2>1. CASE ~current
    <3>1. UNCHANGED <<obj, cached, synced, current, gone>>
      BY <1>1, <2>1 DEF Update, objectVars
    <3>2. NoNewReport /\ NothingToShow
      BY <1>1, <3>1 DEF NoNewReport, FirstUp, NothingToShow
    <3>3. HostInv'
      BY <1>1, <3>1, <3>2, AbsentFields, IInvFacts, HostFrame
    <3> QED BY <3>1, <3>3, IInvFacts
  <2>2. CASE current
    <3>1. /\ obj' = Absent /\ cached' = cached /\ gone'.what = found /\ gone'.repo = RepoOf(seen.want)
          /\ synced' \in BOOLEAN /\ current' \in BOOLEAN
      BY <1>1, <2>2, IInvFacts DEF Update, Write
    <3>2. IdsInv' /\ RemovedInv'
      BY <1>1, <3>1, IInvFacts, AbsentFields, TypeFacts DEF HostInv, IdsInv, RemovedInv
    <3>3. SecretInv' /\ MaterialInv' /\ InstalledInv'
      BY <1>1, <3>1, AbsentFields DEF SecretInv, FirstUp, MaterialInv, InstalledInv, Reported, Exists
    <3>4. GrantInv'
      BY <1>1, <3>1, AbsentFields DEF GrantInv, Reported, Exists
    <3>5. RevokeInv'
      BY <1>1, <3>1, IInvFacts DEF HostInv, RevokeInv
    <3> QED BY <3>1, <3>2, <3>3, <3>4, <3>5, AbsentFields, IInvFacts DEF HostInv
  <2> QED BY <2>1, <2>2
<1>6. TypeOK'
  <2>1. "idle" \in Steps /\ 0 \in Numbers
    BY ReconciledAssumption DEF Steps, Numbers
  <2> QED
    BY <1>1, <1>2, <1>5, <2>1, AbsentFields
       DEF IInv, TypeOK, ReconciledTypeOK, KeyTypeOK, CollaboratorTypeOK, ConnectionTypeOK
<1> QED BY <1>3, <1>4, <1>5, <1>6 DEF IInv

-----------------------------------------------------------------------------
(* The start of Reconcile.                                                   *)

(* Reconcile goes to a step its copy's deletion mark and finalizer allow.      *)
LEMMA StartKept ==
  ASSUME IInv, NEW entry \in Steps, Start(entry), OfAll, UNCHANGED gone,
         entry \notin {"store", "list", "register", "record", "remove", "limited"},
         entry \in Undoing => cached.deleting /\ cached.fin,
         entry \in Doing => ~cached.deleting /\ cached.fin
  PROVE  IInv'
<1>1. /\ UNCHANGED <<kind, obj, cached, synced, timer, secret, scached, usable, shown, limit, events>>
      /\ UNCHANGED <<mat, keys, lastId, minted, grantVars, rests, owner, gone>>
      /\ queued' = FALSE /\ step = "idle"
  BY DEF Start, OfAll, NotKey, NotGrant, NotVerdict, keyVars, objectVars, secretVars, worldVars
<1>2. VersionsInv'
  BY IInvFacts, VersionsStart
<1>3. \/ step' = entry /\ seen' = cached /\ current' = synced /\ found' = 0
      \/ UNCHANGED <<step, seen, current, found>>
  BY DEF Start, workVars
<1>4. RouteInv'
  BY <1>3, IInvFacts DEF RouteInv
<1>5. HostInv'
  <2>1. NoNewReport
    BY <1>1 DEF NoNewReport, FirstUp
  <2>2. NothingToShow
    BY <1>1, <1>3 DEF NothingToShow
  <2>3. seen'.ref \in {0, seen.ref, cached.ref} /\ cached'.ref = cached.ref /\ obj'.ref = obj.ref
    BY <1>1, <1>3
  <2> QED BY <1>1, <2>1, <2>2, <2>3, IInvFacts, HostFrame
<1>6. TypeOK'
  <2>1. 0 \in Numbers
    BY ReconciledAssumption DEF Numbers
  <2>2. step' \in Steps /\ seen' \in Objects /\ current' \in BOOLEAN /\ found' \in Numbers
    BY <1>3, <2>1, IInvFacts
  <2> QED
    BY <1>1, <2>2 DEF IInv, TypeOK, ReconciledTypeOK, KeyTypeOK, CollaboratorTypeOK, ConnectionTypeOK, grantVars
<1> QED BY <1>2, <1>4, <1>5, <1>6 DEF IInv

(* The DeployKey controller starts where RouteInv allows.                      *)
LEMMA KeyReconcileKept ==
  ASSUME IInv, KeyReconcile, OfKey
  PROVE  IInv'
<1>1. OfAll /\ UNCHANGED gone /\ Start(KeyEntry)
  BY DEF KeyReconcile, OfKey, OfAll, NotKey
<1>2. \/ KeyEntry \in {"idle", "finalize", "Failed"}
      \/ KeyEntry \in {"delete", "unstore"} /\ cached.deleting /\ cached.fin
      \/ KeyEntry = "material" /\ ~cached.deleting /\ cached.fin
  BY IInvFacts, ObjectFields DEF KeyEntry
<1>3. KeyEntry \in Steps
  BY <1>2 DEF Steps, Reasons
<1> QED BY <1>1, <1>2, <1>3, StartKept DEF Undoing, Doing

(* The Collaborator controller starts where RouteInv allows.                   *)
LEMMA CollaboratorReconcileKept ==
  ASSUME IInv, CollaboratorReconcile, OfCollaborator
  PROVE  IInv'
<1>1. OfAll /\ UNCHANGED gone /\ Start(CollaboratorEntry)
  BY DEF CollaboratorReconcile, OfCollaborator, OfAll, NotGrant
<1>2. \/ CollaboratorEntry \in {"idle", "finalize", "Failed"}
      \/ CollaboratorEntry \in {"invitations", "release"} /\ cached.deleting /\ cached.fin
      \/ CollaboratorEntry = "grant" /\ ~cached.deleting /\ cached.fin
  BY IInvFacts, ObjectFields DEF CollaboratorEntry
<1>3. CollaboratorEntry \in Steps
  BY <1>2 DEF Steps, Reasons
<1> QED BY <1>1, <1>2, <1>3, StartKept DEF Undoing, Doing

(* The Connection controller starts where RouteInv allows.                     *)
LEMMA ConnectionReconcileKept ==
  ASSUME IInv, ConnectionReconcile, OfConnection
  PROVE  IInv'
<1>1. OfAll /\ UNCHANGED gone /\ Start(ConnectionEntry)
  BY DEF ConnectionReconcile, OfConnection, OfAll, NotVerdict
<1>2. \/ ConnectionEntry \in {"idle", "finalize"}
      \/ ConnectionEntry = "release" /\ cached.deleting /\ cached.fin
      \/ ConnectionEntry = "material" /\ ~cached.deleting /\ cached.fin
  BY IInvFacts, ObjectFields DEF ConnectionEntry
<1>3. ConnectionEntry \in Steps
  BY <1>2 DEF Steps, Reasons
<1> QED BY <1>1, <1>2, <1>3, StartKept DEF Undoing, Doing

-----------------------------------------------------------------------------
(* What a step inside Reconcile, or of the host, leaves alone, and what is left to be  *)
(* shown of it.                                                              *)
Inside ==
  UNCHANGED <<kind, obj, cached, synced, seen, current, queued, timer, shown, usable, scached, gone, owner>>

(* A step that leaves the object and its copies alone preserves the invariant  *)
(* when it preserves the host's part and the route.                            *)
LEMMA InsideKept ==
  ASSUME IInv, Inside, HostInv', KeyTypeOK', CollaboratorTypeOK', rests' \in Numbers,
         step' # "idle" => step # "idle", step' \in Steps, found' \in Numbers,
         step' \in Undoing => step \in Undoing, step' \in Doing => step \in Doing,
         step' = "store" => seen.want = 0, step' = "limited" => found' \in 0..2,
         secret' \in Secrets, limit' \in 0..2,
         events' = events \/ (events < MaxEvents[kind] /\ events' = events + 1)
  PROVE  IInv'
<1>1. events' \in 0..MaxEvents[kind] /\ events' \in Nat /\ events <= events'
  BY EventCounted
<1>2. UNCHANGED <<kind, obj, cached, synced, seen, current, queued, timer, shown, usable, scached, gone, owner>>
  BY DEF Inside
<1>3. VersionsInv'
  BY <1>1, <1>2, IInvFacts, VersionsFrame
<1>4. RouteInv'
  BY <1>2, IInvFacts DEF RouteInv
<1>5. TypeOK'
  BY <1>1, <1>2 DEF IInv, TypeOK, ReconciledTypeOK, ConnectionTypeOK
<1> QED BY <1>3, <1>4, <1>5 DEF IInv

(* While something is removed for its object, nothing is reported of it.        *)
LEMMA UndoingUnreported ==
  ASSUME IInv, step \in Undoing
  PROVE  ~FirstUp /\ ~Reported("DeployKey") /\ ~Reported("Collaborator")
<1>1. seen.deleting /\ seen.uid # 0 /\ CopyOK(seen)
  BY IInvFacts DEF RouteInv, VersionsInv, CopiesInv, Undoing
<1> QED BY <1>1 DEF CopyOK, FirstUp, Reported, Exists

(* A step that only moves on inside Reconcile and promises nothing.            *)
LEMMA MovesOn ==
  ASSUME IInv, Inside, UNCHANGED <<secret, mat, keyVars, grantVars, rests>>,
         step' \in Steps, found' \in Numbers, step # "idle",
         step' \in Undoing => step \in Undoing, step' \in Doing => step \in Doing,
         step' = "store" => seen.want = 0, step' = "limited" => found' \in 0..2,
         step' \notin {"list", "register", "record", "remove", "unstore", "release"},
         limit' \in 0..2,
         events' = events \/ (events < MaxEvents[kind] /\ events' = events + 1)
  PROVE  IInv'
<1>1. NoNewReport
  BY DEF NoNewReport, FirstUp, Inside
<1>2. NothingToShow
  BY DEF NothingToShow
<1>3. HostInv'
  BY <1>1, <1>2, IInvFacts, HostFrame DEF Inside, keyVars
<1>4. KeyTypeOK' /\ CollaboratorTypeOK' /\ rests' \in Numbers
  BY DEF IInv, TypeOK, KeyTypeOK, CollaboratorTypeOK, ConnectionTypeOK, keyVars, grantVars
<1> QED BY <1>3, <1>4, IInvFacts, InsideKept

-----------------------------------------------------------------------------
(* DeployKey.                                                                *)

(* What a step of the DeployKey controller leaves alone.                       *)
LEMMA InsideKey ==
  ASSUME IInv, KeyStep, UNCHANGED <<seen, current, scached>>, OfKey
  PROVE  /\ Inside /\ UNCHANGED <<grantVars, rests, events, limit>> /\ kind = "DeployKey"
         /\ CollaboratorTypeOK' /\ rests' \in Numbers
BY DEF KeyStep, OfKey, NotGrant, NotVerdict, Inside, objectVars, queueVars, worldVars, grantVars,
       IInv, TypeOK, CollaboratorTypeOK, ConnectionTypeOK

(* What a step does not touch that leaves keys and Secrets alone.               *)
LEMMA KeyHostFrame ==
  ASSUME IInv, kind = "DeployKey", Inside, UNCHANGED <<keys, lastId, minted, secret>>,
         step' \notin {"unstore", "release"}, MaterialInv'
  PROVE  HostInv'
<1>0. UNCHANGED <<kind, obj, cached, seen, scached, shown, gone>>
  BY DEF Inside
<1>1. IdsInv' /\ RemovedInv'
  BY <1>0, IInvFacts DEF HostInv, IdsInv, RemovedInv
<1>2. SecretInv' /\ InstalledInv'
  BY <1>0, IInvFacts DEF HostInv, SecretInv, InstalledInv, Reported, Exists, KeyInstalled, FirstUp
<1>3. GrantInv' /\ RevokeInv'
  BY <1>0 DEF GrantInv, RevokeInv
<1> QED BY <1>1, <1>2, <1>3 DEF HostInv

(* The material is the spec's, or the public half of the cached Secret.         *)
LEMMA RegisterKept ==
  ASSUME IInv, KeyStep, step \in {"material", "store"}, NEW m \in Materials, Register(m), OfKey,
         UNCHANGED <<secretVars, keyVars>>,
         \/ seen.want # 0 /\ m = Brought
         \/ seen.want = 0 /\ scached.n # 0 /\ m = Minted(scached.n)
  PROVE  IInv'
<1>1. /\ Inside /\ UNCHANGED <<grantVars, rests, events, limit>> /\ kind = "DeployKey"
      /\ CollaboratorTypeOK' /\ rests' \in Numbers
  BY InsideKey DEF Register, secretVars
<1>2. /\ step' = "list" /\ mat' = m /\ UNCHANGED <<seen, found, keys, lastId, minted, secret, obj, kind>>
  BY <1>1 DEF Register, secretVars, keyVars, Inside
<1>3. MaterialInv'
  <2>1. seen.want = 0 /\ FirstUp => scached = secret
    BY <1>1, <1>2, IInvFacts DEF HostInv, SecretInv, NoSecret
  <2>2. (seen.want # 0 => m = Brought) /\ (seen.want = 0 => m = Minted(scached.n) /\ scached.n # 0)
    OBVIOUS
  <2> QED BY <1>2, <2>1, <2>2 DEF MaterialInv, FirstUp
<1>4. HostInv'
  BY <1>1, <1>2, <1>3, KeyHostFrame
<1>5. KeyTypeOK'
  BY <1>2 DEF IInv, TypeOK, KeyTypeOK
<1>6. step' \in Steps /\ step' \in Doing /\ step' \notin Undoing /\ step \in Doing
  BY <1>2 DEF Steps, Doing, Undoing
<1> QED BY <1>1, <1>2, <1>4, <1>5, <1>6, IInvFacts, InsideKept

(* The material a spec brings, or a Secret holds, is a material.               *)
LEMMA MaterialsTyped ==
  ASSUME IInv
  PROVE  /\ Brought \in Materials /\ Minted(scached.n) \in Materials
         /\ seen.want \in 0..2 /\ scached.n \in Numbers /\ secret.n \in Numbers
<1>1. seen.want \in 0..2
  BY IInvFacts, ObjectFields
<1>2. scached.n \in Numbers /\ secret.n \in Numbers
  BY IInvFacts DEF Secrets
<1>3. Brought \in Materials
  BY DEF Brought, Materials
<1>4. Minted(scached.n) \in Materials
  BY <1>2 DEF Materials
<1> QED BY <1>1, <1>2, <1>3, <1>4

(* ensurePublicKey preserves the invariant.                                    *)
LEMMA KeyMaterialKept ==
  ASSUME IInv, KeyMaterial, OfKey
  PROVE  IInv'
<1>1. step = "material" /\ KeyStep /\ UNCHANGED <<secretVars, keyVars>>
  BY DEF KeyMaterial
<1>2. CASE seen.want # 0 /\ Register(Brought)
  BY <1>1, <1>2, MaterialsTyped, RegisterKept
<1>3. CASE seen.want = 0 /\ scached.n # 0 /\ Register(Minted(scached.n))
  BY <1>1, <1>3, MaterialsTyped, RegisterKept
<1>4. CASE seen.want = 0 /\ scached.n = 0 /\ Proceed("store") /\ UNCHANGED mat
  <2>1. /\ step' = "store" /\ UNCHANGED <<seen, current, found, scached, secret>>
    BY <1>1, <1>4 DEF Proceed, secretVars
  <2>2. /\ Inside /\ UNCHANGED <<grantVars, rests, events, limit>>
    BY <1>1, <2>1, InsideKey
  <2>3. step' \in Steps /\ step' \notin Undoing /\ step \in Doing
    BY <1>1, <2>1 DEF Steps, Undoing, Doing
  <2> QED BY <1>1, <1>4, <2>1, <2>2, <2>3, IInvFacts, MovesOn
<1> QED BY <1>2, <1>3, <1>4 DEF KeyMaterial

(* A DeployKey step that gives up preserves the invariant.                     *)
LEMMA KeyGivesUp ==
  ASSUME IInv, KeyStep, Proceed("Failed"), OfKey, step # "idle", UNCHANGED <<mat, secretVars, keyVars>>
  PROVE  IInv'
<1>1. /\ step' = "Failed" /\ UNCHANGED <<seen, current, found, scached, secret>>
  BY DEF Proceed, secretVars
<1>2. /\ Inside /\ UNCHANGED <<grantVars, rests, events, limit>>
  BY <1>1, InsideKey
<1>3. step' \in Steps /\ step' \notin Undoing /\ step' \notin Doing
  BY <1>1 DEF Steps, Undoing, Doing, Reasons
<1> QED BY <1>1, <1>2, <1>3, IInvFacts, MovesOn

(* The Secret is created before its key is registered; for the first object    *)
(* that happens once.                                                          *)
LEMMA StoreMaterialKept ==
  ASSUME IInv, StoreMaterial, OfKey
  PROVE  IInv'
<1>1. step = "store" /\ KeyStep /\ UNCHANGED <<scached, keys, lastId>> /\ seen.want = 0 /\ kind = "DeployKey"
  BY IInvFacts DEF StoreMaterial, RouteInv, KeyStep
<1>2. CASE /\ secret.n # 0
           /\ IF scached.n # 0 THEN Register(Minted(scached.n))
              ELSE Proceed("Failed") /\ UNCHANGED mat
           /\ UNCHANGED <<secret, minted>>
  <2>1. UNCHANGED <<secretVars, keyVars>>
    BY <1>1, <1>2 DEF secretVars, keyVars
  <2>2. CASE scached.n # 0
    BY <1>1, <1>2, <2>1, <2>2, MaterialsTyped, RegisterKept
  <2>3. CASE scached.n = 0
    BY <1>1, <1>2, <2>1, <2>3, KeyGivesUp
  <2> QED BY <2>2, <2>3
<1>3. CASE /\ secret.n = 0 /\ minted < MaxIds
           /\ minted' = minted + 1
           /\ secret' = [n |-> minted + 1, owner |-> seen.uid]
           /\ Register(Minted(minted + 1))
  <2>1. step' = "list" /\ mat' = Minted(minted + 1) /\ UNCHANGED <<seen, current, found>>
    BY <1>3 DEF Register
  <2>2. /\ Inside /\ UNCHANGED <<grantVars, rests, events, limit>> /\ kind = "DeployKey"
        /\ CollaboratorTypeOK' /\ rests' \in Numbers
    BY <1>1, <2>1, InsideKey
  <2>3. UNCHANGED <<kind, obj, cached, seen, scached, shown, gone>>
    BY <2>2 DEF Inside
  <2>4. minted + 1 \in Numbers /\ minted \in Nat
    BY <1>3, ReconciledAssumption DEF IInv, TypeOK, KeyTypeOK, Numbers
  <2>5. secret'.n = minted + 1 /\ secret' \in Secrets /\ Minted(minted + 1) \in Materials
    BY <1>3, <2>4, IInvFacts DEF Secrets, Materials, Objects
  <2>6. FirstUp => minted = 0 /\ scached = NoSecret /\ seen.uid = 1
    <3>1. FirstUp => secret = NoSecret /\ scached = NoSecret /\ minted = 0
      BY <1>1, <1>3, IInvFacts DEF HostInv, SecretInv
    <3>2. seen.uid # 0 /\ (obj.uid = 1 => seen.uid \in {0, 1})
      BY <1>1, IInvFacts DEF VersionsInv, CopiesInv, CopyOK
    <3> QED BY <3>1, <3>2 DEF FirstUp
  <2>7. IdsInv' /\ RemovedInv'
    BY <1>1, <2>1, <2>3, IInvFacts DEF HostInv, IdsInv, RemovedInv
  <2>8. SecretInv'
    <3>1. FirstUp' = FirstUp
      BY <2>3 DEF FirstUp
    <3>2. FirstUp => minted' = 1 /\ secret' = [n |-> 1, owner |-> 1]
      BY <1>3, <2>6
    <3> QED BY <2>3, <2>6, <3>1, <3>2 DEF SecretInv, NoSecret
  <2>9. MaterialInv'
    BY <1>1, <2>1, <2>3, <2>4, <2>5 DEF MaterialInv
  <2>10. InstalledInv'
    <3>1. Reported("DeployKey") => ~(obj.want = 0 /\ obj.uid = 1)
      BY <1>3, IInvFacts DEF HostInv, InstalledInv, FirstUp, Reported, Exists
    <3>2. Reported("DeployKey")' = Reported("DeployKey") /\ FirstUp' = FirstUp
      BY <2>3 DEF Reported, Exists, FirstUp
    <3>3. Reported("DeployKey") => KeyInstalled
      BY IInvFacts DEF HostInv, InstalledInv
    <3>4. Reported("DeployKey") => KeyInstalled'
      BY <1>1, <2>3, <3>1, <3>3 DEF KeyInstalled
    <3>5. secret'.n # 0
      BY <2>4, <2>5
    <3> QED BY <3>2, <3>4, <3>5 DEF InstalledInv
  <2>11. GrantInv' /\ RevokeInv'
    BY <2>2, <2>3 DEF GrantInv, RevokeInv
  <2>12. HostInv'
    BY <2>7, <2>8, <2>9, <2>10, <2>11 DEF HostInv
  <2>13. KeyTypeOK'
    BY <1>1, <1>3, <2>1, <2>4, <2>5 DEF IInv, TypeOK, KeyTypeOK
  <2>14. step' \in Steps /\ step' \notin Undoing /\ step \in Doing
    BY <1>1, <2>1 DEF Steps, Undoing, Doing
  <2> QED BY <1>1, <2>1, <2>2, <2>5, <2>12, <2>13, <2>14, IInvFacts, InsideKept
<1> QED BY <1>2, <1>3 DEF StoreMaterial

(* EnsureDeployKey's listing finds a key of the material asked for.            *)
LEMMA ListKeysKept ==
  ASSUME IInv, ListKeys, OfKey
  PROVE  IInv'
<1>1. /\ step = "list" /\ KeyStep /\ UNCHANGED <<mat, secretVars, keyVars, seen, current>>
      /\ UNCHANGED <<scached, secret, keys, lastId, minted>>
  BY DEF ListKeys, Proceed, secretVars, keyVars
<1>2. /\ Inside /\ UNCHANGED <<grantVars, rests, events, limit>> /\ kind = "DeployKey"
      /\ CollaboratorTypeOK' /\ rests' \in Numbers /\ UNCHANGED obj
  BY <1>1, InsideKey DEF Inside
<1>3. KeyTypeOK'
  BY <1>1 DEF IInv, TypeOK, KeyTypeOK
<1>4. CASE \E k \in Listed : step' = "record" /\ found' = k.id
  <2>1. PICK k \in Listed : step' = "record" /\ found' = k.id
    BY <1>4
  <2>2. k \in keys /\ k.mat = mat /\ k.repo = RepoOf(seen.want)
    BY <2>1 DEF Listed
  <2>3. found' \in Numbers
    BY <2>1, <2>2 DEF IInv, TypeOK, KeyTypeOK
  <2>4. MaterialInv'
    BY <1>1, <1>2, <2>1, <2>2, IInvFacts DEF HostInv, MaterialInv, FirstUp
  <2>5. step' \in Steps /\ step' \notin Undoing /\ step \in Doing
    BY <1>1, <2>1 DEF Steps, Undoing, Doing
  <2>6. HostInv'
    BY <1>1, <1>2, <2>1, <2>4, KeyHostFrame
  <2> QED BY <1>1, <1>2, <1>3, <2>1, <2>3, <2>5, <2>6, IInvFacts, InsideKept
<1>5. CASE Proceed("register")
  <2>1. step' = "register" /\ found' = found
    BY <1>5 DEF Proceed
  <2>2. MaterialInv'
    BY <1>1, <1>2, <2>1, IInvFacts DEF HostInv, MaterialInv, FirstUp
  <2>3. step' \in Steps /\ step' \notin Undoing /\ step \in Doing
    BY <1>1, <2>1 DEF Steps, Undoing, Doing
  <2>4. HostInv'
    BY <1>1, <1>2, <2>1, <2>2, KeyHostFrame
  <2> QED BY <1>1, <1>2, <1>3, <2>1, <2>3, <2>4, IInvFacts, InsideKept
<1>6. CASE Proceed("Failed")
  BY <1>1, <1>6, KeyGivesUp
<1> QED BY <1>4, <1>5, <1>6 DEF ListKeys

(* A new key has an id that no status and no record of a removal names.         *)
LEMMA KeyCreated ==
  ASSUME IInv, kind = "DeployKey", Inside, HostCreatesKey, UNCHANGED <<mat, secret, minted>>,
         step = "register", step' \notin {"list", "register", "unstore", "release"},
         step' = "record" => found' = lastId'
  PROVE  HostInv' /\ KeyTypeOK' /\ lastId' \in Numbers
<1>0. UNCHANGED <<kind, obj, cached, seen, scached, shown, gone, mat, secret, minted>>
  BY DEF Inside
<1>1. PICK k : k = [id |-> lastId + 1, mat |-> mat, repo |-> RepoOf(seen.want)]
  OBVIOUS
<1>2. lastId' = lastId + 1 /\ keys' = keys \cup {k} /\ lastId < MaxIds /\ k.id = lastId + 1 /\ k.mat = mat
      /\ k.repo = RepoOf(seen.want) /\ k.repo \in {1, 2}
  BY <1>1 DEF HostCreatesKey, RepoOf
<1>3. /\ keys \subseteq [id : Numbers, mat : Materials, repo : {1, 2}] /\ mat \in Materials
      /\ lastId \in Nat /\ MaxIds \in Nat /\ gone.what \in Nat
  BY IInvFacts, TypeFacts DEF IInv, TypeOK, KeyTypeOK
<1>4. lastId + 1 \in Numbers
  BY <1>2, <1>3 DEF Numbers
<1>5. k \in [id : Numbers, mat : Materials, repo : {1, 2}]
  BY <1>1, <1>2, <1>3, <1>4
<1>6. KeyTypeOK'
  BY <1>0, <1>2, <1>3, <1>4, <1>5 DEF IInv, TypeOK, KeyTypeOK
<1>7. /\ \A x \in keys : x.id \in Nat /\ x.id <= lastId
      /\ obj.ref <= lastId /\ cached.ref <= lastId /\ seen.ref <= lastId /\ gone.what <= lastId
      /\ obj.ref \in Nat /\ cached.ref \in Nat /\ seen.ref \in Nat
  BY <1>3, IInvFacts, ObjectFields DEF HostInv, IdsInv, Numbers
<1>8. IdsInv'
  <2>1. obj.ref <= lastId + 1 /\ cached.ref <= lastId + 1 /\ seen.ref <= lastId + 1 /\ gone.what <= lastId + 1
    BY <1>3, <1>7
  <2>2. \A x \in keys' : x.id <= lastId + 1
    BY <1>2, <1>3, <1>7
  <2> QED BY <1>0, <1>2, <2>1, <2>2 DEF IdsInv
<1>9. RemovedInv'
  <2>1. shown # "nothing" /\ gone.what # 0 => \A x \in keys : x.id = gone.what => x.repo # gone.repo
    BY IInvFacts DEF HostInv, RemovedInv
  <2>2. gone.what # lastId + 1
    BY <1>3, <1>7
  <2> QED BY <1>0, <1>2, <2>1, <2>2 DEF RemovedInv
<1>10. SecretInv'
  BY <1>0, IInvFacts DEF HostInv, SecretInv, FirstUp
<1>11. MaterialInv'
  <2>1. k \in keys'
    BY <1>2
  <2> QED BY <1>0, <1>2, <2>1, IInvFacts DEF HostInv, MaterialInv, FirstUp
<1>12. InstalledInv'
  <2>1. KeyInstalled => KeyInstalled'
    BY <1>0, <1>2 DEF KeyInstalled
  <2> QED BY <1>0, <2>1, IInvFacts DEF HostInv, InstalledInv, Reported, Exists, FirstUp
<1>13. GrantInv' /\ RevokeInv'
  BY <1>0 DEF GrantInv, RevokeInv
<1> QED BY <1>2, <1>4, <1>6, <1>8, <1>9, <1>10, <1>11, <1>12, <1>13 DEF HostInv

(* EnsureDeployKey's creation preserves the invariant.                         *)
LEMMA CreateKeyKept ==
  ASSUME IInv, CreateKey, OfKey
  PROVE  IInv'
<1>1. step = "register" /\ KeyStep /\ UNCHANGED <<mat, secretVars, minted, seen, current, scached, secret>>
  BY DEF CreateKey, Proceed, secretVars
<1>2. CASE HostCreatesKey /\ step' = "record" /\ found' = lastId'
  <2>1. /\ Inside /\ UNCHANGED <<grantVars, rests, events, limit>> /\ kind = "DeployKey"
        /\ CollaboratorTypeOK' /\ rests' \in Numbers
    BY <1>1, InsideKey
  <2>2. HostInv' /\ KeyTypeOK' /\ lastId' \in Numbers
    BY <1>1, <1>2, <2>1, KeyCreated
  <2>3. step' \in Steps /\ step' \notin Undoing /\ step \in Doing
    BY <1>1, <1>2 DEF Steps, Undoing, Doing
  <2> QED BY <1>1, <1>2, <2>1, <2>2, <2>3, IInvFacts, InsideKept
<1>3. CASE Proceed("Failed") /\ UNCHANGED <<keys, lastId>>
  BY <1>1, <1>3, KeyGivesUp DEF keyVars
<1> QED BY <1>2, <1>3 DEF CreateKey

(* A key that is removed is one that nothing is reported of.                    *)
LEMMA KeyRemoved ==
  ASSUME IInv, kind = "DeployKey", Inside, KeyDeleted, UNCHANGED <<mat, secret, lastId, minted>>,
         step = "delete", step' \in {"unstore", "Failed"}, step' = "unstore" => found' = seen.ref
  PROVE  HostInv' /\ KeyTypeOK'
<1>0. UNCHANGED <<kind, obj, cached, seen, scached, shown, gone, mat, secret, minted, lastId>>
  BY DEF Inside
<1>1. keys' = {k \in keys : shown = "nothing" \/ k.id # seen.ref \/ k.repo # RepoOf(seen.want)}
  BY DEF KeyDeleted
<1>2. ~FirstUp /\ ~Reported("DeployKey")
  BY UndoingUnreported DEF Undoing
<1>3. IdsInv' /\ RemovedInv'
  BY <1>0, <1>1, IInvFacts DEF HostInv, IdsInv, RemovedInv
<1>4. SecretInv' /\ MaterialInv' /\ InstalledInv'
  BY <1>0, <1>2 DEF SecretInv, MaterialInv, InstalledInv, FirstUp, Reported, Exists
<1>5. GrantInv' /\ RevokeInv'
  BY <1>0 DEF GrantInv, RevokeInv
<1>6. KeyTypeOK'
  BY <1>0, <1>1 DEF IInv, TypeOK, KeyTypeOK
<1> QED BY <1>3, <1>4, <1>5, <1>6 DEF HostInv

(* DeleteDeployKey preserves the invariant.                                    *)
LEMMA DeleteKeyKept ==
  ASSUME IInv, DeleteKey, OfKey
  PROVE  IInv'
<1>1. /\ step = "delete" /\ KeyStep /\ UNCHANGED <<mat, seen, current, scached, secret, lastId, minted>>
      /\ KeyDeleted /\ step' = "unstore" /\ found' = seen.ref
  BY DEF DeleteKey, secretVars
<1>2. /\ Inside /\ UNCHANGED <<grantVars, rests, events, limit>> /\ kind = "DeployKey"
      /\ CollaboratorTypeOK' /\ rests' \in Numbers
  BY <1>1, InsideKey
<1>3. HostInv' /\ KeyTypeOK'
  BY <1>1, <1>2, KeyRemoved
<1>4. step' \in Steps /\ step \in Undoing /\ step' \notin Doing /\ found' \in Numbers
  BY <1>1, IInvFacts DEF Steps, Undoing, Doing, Objects
<1> QED BY <1>1, <1>2, <1>3, <1>4, IInvFacts, InsideKept

(* deleteSecret preserves the invariant: the object is being deleted.          *)
LEMMA DeleteSecretKept ==
  ASSUME IInv, DeleteSecret, OfKey
  PROVE  IInv'
<1>1. /\ step = "unstore" /\ KeyStep /\ UNCHANGED <<mat, seen, current, found, scached, keys, lastId, minted>>
      /\ step' = "release" /\ secret' \in {secret, NoSecret}
  BY DEF DeleteSecret, Proceed, keyVars
<1>2. /\ Inside /\ UNCHANGED <<grantVars, rests, events, limit>> /\ kind = "DeployKey"
      /\ CollaboratorTypeOK' /\ rests' \in Numbers
  BY <1>1, InsideKey
<1>3. UNCHANGED <<kind, obj, cached, seen, scached, shown, gone>>
  BY <1>2 DEF Inside
<1>4. ~FirstUp /\ ~Reported("DeployKey")
  BY <1>1, UndoingUnreported DEF Undoing
<1>5. IdsInv' /\ RemovedInv'
  BY <1>1, <1>3, IInvFacts DEF HostInv, IdsInv, RemovedInv
<1>6. SecretInv' /\ MaterialInv' /\ InstalledInv'
  BY <1>1, <1>3, <1>4 DEF SecretInv, MaterialInv, InstalledInv, FirstUp, Reported, Exists
<1>7. GrantInv' /\ RevokeInv'
  BY <1>2, <1>3 DEF GrantInv, RevokeInv
<1>8. HostInv'
  BY <1>5, <1>6, <1>7 DEF HostInv
<1>9. KeyTypeOK'
  BY <1>1 DEF IInv, TypeOK, KeyTypeOK
<1>10. step' \in Steps /\ step \in Undoing /\ step' \notin Doing
  BY <1>1 DEF Steps, Undoing, Doing
<1>11. secret' \in Secrets
  <2>1. NoSecret \in Secrets
    BY ReconciledAssumption DEF NoSecret, Secrets, Numbers, Uids
  <2> QED BY <1>1, <2>1, IInvFacts
<1> QED BY <1>1, <1>2, <1>8, <1>9, <1>10, <1>11, IInvFacts, InsideKept

(* A call that fails, with or without its effect on the host, preserves the    *)
(* invariant.                                                                  *)
LEMMA KeyCallFailsKept ==
  ASSUME IInv, KeyCallFails, OfKey
  PROVE  IInv'
<1>1. /\ kind = "DeployKey" /\ UNCHANGED <<mat, seen, current, found, scached, secret>>
      /\ step' = "Failed" /\ events < MaxEvents[kind] /\ events' = events + 1 /\ limit' = limit
      /\ step # "idle" /\ UNCHANGED <<grantVars, rests>>
  BY DEF KeyCallFails, CallFails, Proceed, secretVars, OfKey, NotGrant, NotVerdict
<1>2. Inside
  BY DEF KeyCallFails, CallFails, Proceed, secretVars, objectVars, queueVars, Inside, OfKey, NotVerdict
<1>3. CollaboratorTypeOK' /\ rests' \in Numbers
  BY <1>1 DEF IInv, TypeOK, CollaboratorTypeOK, ConnectionTypeOK, grantVars
<1>4. step' \in Steps /\ step' \notin Undoing /\ step' \notin Doing
  BY <1>1 DEF Steps, Undoing, Doing, Reasons
<1>5. CASE UNCHANGED keyVars
  BY <1>1, <1>2, <1>4, <1>5, IInvFacts, MovesOn
<1>6. CASE step = "register" /\ HostCreatesKey /\ UNCHANGED minted
  <2>1. HostInv' /\ KeyTypeOK'
    BY <1>1, <1>2, <1>6, KeyCreated
  <2> QED BY <1>1, <1>2, <1>3, <1>4, <2>1, IInvFacts, InsideKept
<1>7. CASE step = "delete" /\ KeyDeleted /\ UNCHANGED <<lastId, minted>>
  <2>1. HostInv' /\ KeyTypeOK'
    BY <1>1, <1>2, <1>7, KeyRemoved
  <2> QED BY <1>1, <1>2, <1>3, <1>4, <2>1, IInvFacts, InsideKept
<1> QED BY <1>5, <1>6, <1>7 DEF KeyCallFails

(* A DeployKey call that the limit refuses preserves the invariant.            *)
LEMMA KeyRefusedKept ==
  ASSUME IInv, KeyRefused, OfKey
  PROVE  IInv'
<1>1. /\ UNCHANGED <<mat, seen, current, secret, keyVars, grantVars, rests, events>>
      /\ step' = "limited" /\ limit' \in {1, 2} /\ found' \in {limit, 1, 2} /\ step # "idle"
  BY DEF KeyRefused, Refused, secretVars, OfKey, NotGrant, NotVerdict
<1>2. Inside
  BY DEF KeyRefused, Refused, secretVars, objectVars, queueVars, Inside, OfKey, NotVerdict
<1>3. step' \in Steps /\ step' \notin Undoing /\ step' \notin Doing
  BY <1>1 DEF Steps, Undoing, Doing
<1>4. found' \in 0..2 /\ found' \in Numbers /\ limit' \in 0..2
  BY <1>1, IInvFacts, ReconciledAssumption DEF Numbers
<1> QED BY <1>1, <1>2, <1>3, <1>4, IInvFacts, MovesOn

-----------------------------------------------------------------------------
(* A verdict is written.                                                     *)

(* A write leaves well-typed copies.                                           *)
LEMMA UpdateTyped ==
  ASSUME IInv, NEW o \in Objects, Update(o)
  PROVE  obj' \in Objects /\ cached' \in Objects /\ synced' \in BOOLEAN /\ current' \in BOOLEAN
<1>1. CASE current
  BY <1>1, IInvFacts DEF Update, Write
<1>2. CASE ~current
  BY <1>2, IInvFacts DEF Update, objectVars
<1> QED BY <1>1, <1>2, IInvFacts

(* Reconcile ends with a verdict; what it says of the host is left to be shown.*)
LEMMA VerdictKept ==
  ASSUME IInv, step # "idle", NEW o \in Objects, WritesBack(o), Update(o), Stop, HostInv', Unrelated,
         owner' = owner, rests' \in Numbers, mat' \in Materials,
         queued' \in BOOLEAN, timer' \in SUBSET {"reset", "delay"}
  PROVE  IInv'
<1>1. /\ step' = "idle" /\ seen' = Absent /\ found' = 0
      /\ UNCHANGED <<kind, keys, lastId, minted, secret, scached, invited, members, declined, gone,
                     usable, shown, limit, events, owner>>
  BY DEF Stop, Unrelated, secretVars, grantVars, worldVars
<1>2. VersionsInv'
  BY <1>1, IInvFacts, VersionsUpdate
<1>3. RouteInv'
  BY <1>1 DEF RouteInv, Undoing, Doing
<1>4. TypeOK'
  <2>1. "idle" \in Steps /\ 0 \in Numbers
    BY ReconciledAssumption DEF Steps, Numbers
  <2> QED
    BY <1>1, <2>1, AbsentFields, UpdateTyped
       DEF IInv, TypeOK, ReconciledTypeOK, KeyTypeOK, CollaboratorTypeOK, ConnectionTypeOK
<1> QED BY <1>2, <1>3, <1>4 DEF IInv

(* A verdict that is refused changes nothing.                                *)
LEMMA RefusedVerdict ==
  ASSUME IInv, ~current, NEW o, Update(o), Stop, Unrelated
  PROVE  HostInv'
<1>1. /\ UNCHANGED <<obj, cached, synced, current>> /\ step' = "idle" /\ seen' = Absent
  BY DEF Update, Stop, objectVars
<1>2. NoNewReport
  BY <1>1 DEF NoNewReport, FirstUp
<1>3. NothingToShow
  BY <1>1 DEF NothingToShow
<1> QED BY <1>1, <1>2, <1>3, AbsentFields, IInvFacts, HostFrame DEF Unrelated, secretVars, worldVars

(* The id recorded is that of a key with the material of the spec it is        *)
(* recorded for.                                                               *)
LEMMA RecordKeyKept ==
  ASSUME IInv, RecordKey, OfKey
  PROVE  IInv'
<1>1. PICK o : o = [seen EXCEPT !.observed = seen.gen, !.ref = found, !.sref = (seen.want = 0),
                                !.reason = "Ready", !.at = 0]
  OBVIOUS
<1>2. /\ kind = "DeployKey" /\ step = "record" /\ Update(o) /\ Stop /\ mat' = NoKey /\ Unrelated
      /\ owner' = owner /\ rests' = rests /\ timer' = timer /\ queued' = (queued \/ ~current)
  BY <1>1 DEF RecordKey, OfKey, NotVerdict, NotGrant, keyVars, Unrelated
<1>3. /\ o \in Objects /\ o.uid = seen.uid /\ o.want = seen.want /\ o.gen = seen.gen /\ o.deleting = seen.deleting
      /\ o.fin = seen.fin /\ o.observed = seen.gen /\ o.ref = found /\ o.reason = "Ready"
  <2>1. seen \in Objects /\ found \in Numbers /\ "Ready" \in Reasons /\ (seen.want = 0) \in BOOLEAN /\ 0 \in 0..2
    BY IInvFacts DEF Reasons
  <2> QED BY <1>1, <2>1 DEF Objects
<1>4. WritesBack(o)
  BY <1>3 DEF WritesBack
<1>5. ~seen.deleting
  BY <1>2, IInvFacts DEF RouteInv, Doing
<1>6. /\ UNCHANGED <<kind, keys, lastId, minted, secret, scached, gone, shown>>
      /\ step' = "idle" /\ seen' = Absent
  BY <1>2 DEF Unrelated, Stop, secretVars, worldVars
<1>7. HostInv'
  <2>1. CASE ~current
    BY <1>2, <2>1, RefusedVerdict
  <2>2. CASE current
    <3>1. seen = obj /\ obj' = o /\ cached' = cached
      BY <1>2, <2>2, IInvFacts DEF VersionsInv, CopiesInv, Update, Write
    <3>2. PICK k \in keys : k.id = found /\ k.mat = mat /\ k.repo = RepoOf(seen.want)
      BY <1>2, IInvFacts DEF HostInv, MaterialInv
    <3>3. IdsInv'
      BY <1>3, <1>6, <3>1, <3>2, AbsentFields, IInvFacts, TypeFacts DEF HostInv, IdsInv
    <3>4. RemovedInv'
      BY <1>6, IInvFacts DEF HostInv, RemovedInv
    <3>5. SecretInv'
      BY <1>3, <1>6, <3>1, IInvFacts DEF HostInv, SecretInv, FirstUp
    <3>6. MaterialInv'
      BY <1>6 DEF MaterialInv
    <3>7. InstalledInv'
      <4>1. /\ seen.want # 0 => mat = Brought
            /\ seen.want = 0 /\ FirstUp => mat = Minted(secret.n) /\ secret.n # 0
        BY <1>2, IInvFacts DEF HostInv, MaterialInv
      <4>2. seen.uid = 1 => FirstUp
        BY <1>5, <3>1 DEF FirstUp
      <4>3. KeyInstalled'
        BY <1>3, <1>6, <3>1, <3>2, <4>1, <4>2 DEF KeyInstalled
      <4>4. obj'.want = 0 /\ FirstUp' => secret'.n # 0
        BY <1>3, <1>6, <3>1, <4>1, <4>2 DEF FirstUp
      <4> QED BY <4>3, <4>4 DEF InstalledInv
    <3>8. GrantInv' /\ RevokeInv'
      BY <1>2, <1>6 DEF GrantInv, RevokeInv
    <3> QED BY <3>3, <3>4, <3>5, <3>6, <3>7, <3>8 DEF HostInv
  <2> QED BY <2>1, <2>2
<1>8. mat' \in Materials /\ rests' \in Numbers /\ queued' \in BOOLEAN /\ timer' \in SUBSET {"reset", "delay"}
  <2>1. NoKey \in Materials
    BY DEF NoKey, Materials, Given
  <2>2. queued' \in BOOLEAN
    BY <1>2, IInvFacts
  <2> QED BY <1>2, <2>1, <2>2, IInvFacts DEF IInv, TypeOK, ConnectionTypeOK
<1> QED BY <1>2, <1>3, <1>4, <1>7, <1>8, VerdictKept

(* Every step of the DeployKey controller preserves the invariant.             *)
LEMMA KeyNextKept ==
  ASSUME IInv, KeyNext, OfKey
  PROVE  IInv'
BY KeyReconcileKept, KeyMaterialKept, StoreMaterialKept, ListKeysKept, CreateKeyKept, DeleteKeyKept,
   DeleteSecretKept, KeyCallFailsKept, KeyRefusedKept, RecordKeyKept DEF KeyNext

-----------------------------------------------------------------------------
(* Collaborator.                                                             *)

(* There are two users.                                                        *)
LEMMA UsersTyped ==
  ASSUME NEW w \in 0..2
  PROVE  UserOf(w) \in {1, 2}
BY DEF UserOf

(* What a step of the Collaborator controller leaves alone.                    *)
LEMMA InsideCollaborator ==
  ASSUME IInv, CollaboratorStep, UNCHANGED <<seen, current>>, OfCollaborator
  PROVE  /\ Inside /\ UNCHANGED <<mat, keyVars, secret, rests, events, limit>> /\ kind = "Collaborator"
         /\ KeyTypeOK' /\ rests' \in Numbers
BY DEF CollaboratorStep, OfCollaborator, NotKey, NotVerdict, Inside, objectVars, queueVars, worldVars, secretVars,
       keyVars, IInv, TypeOK, KeyTypeOK, ConnectionTypeOK

(* Of a Collaborator, the invariants of a DeployKey say nothing.                *)
LEMMA CollaboratorHost ==
  ASSUME kind = "Collaborator", kind' = kind, GrantInv', RevokeInv'
  PROVE  HostInv'
BY DEF HostInv, IdsInv, RemovedInv, SecretInv, MaterialInv, InstalledInv, Reported

(* The host grants what an object that has its finalizer asks for.             *)
LEMMA AccessGiven ==
  ASSUME IInv, kind = "Collaborator", Inside, Grant, step = "grant", step' \in {"record", "Failed"}
  PROVE  HostInv' /\ CollaboratorTypeOK'
<1>1. UNCHANGED <<kind, obj, seen, shown, gone>>
  BY DEF Inside
<1>2. /\ seen.want \in invited' \cup members' /\ declined' = declined
      /\ invited' \subseteq invited \cup {seen.want} /\ members' \subseteq members \cup {seen.want}
  BY DEF Grant
<1>3. seen.want \in 0..2
  BY IInvFacts, ObjectFields
<1>4. CollaboratorTypeOK'
  BY <1>2, <1>3 DEF IInv, TypeOK, CollaboratorTypeOK
<1>5. CopyOK(seen) /\ ~seen.deleting /\ seen.fin
  BY IInvFacts DEF VersionsInv, CopiesInv, RouteInv, Doing
<1>6. GrantInv'
  <2>1. Reported("Collaborator")' => obj'.want \in invited' \cup members'
    BY <1>1, <1>2, <1>5 DEF Reported, Exists, CopyOK, ReadyNow
  <2> QED BY <1>1, <1>2, <2>1 DEF GrantInv, AccessGranted
<1>7. RevokeInv'
  BY <1>1, <1>5 DEF RevokeInv, CopyOK
<1> QED BY <1>1, <1>4, <1>6, <1>7, CollaboratorHost

(* EnsureCollaborator preserves the invariant.                                 *)
LEMMA AddCollaboratorKept ==
  ASSUME IInv, AddCollaborator, OfCollaborator
  PROVE  IInv'
<1>1. step = "grant" /\ CollaboratorStep /\ UNCHANGED <<seen, current>>
  BY DEF AddCollaborator, Proceed
<1>2. /\ Inside /\ UNCHANGED <<mat, keyVars, secret, rests, events, limit>> /\ kind = "Collaborator"
      /\ KeyTypeOK' /\ rests' \in Numbers
  BY <1>1, InsideCollaborator
<1>3. CASE Grant /\ step' = "record" /\ found' \in {0, 1}
  <2>1. HostInv' /\ CollaboratorTypeOK'
    BY <1>1, <1>2, <1>3, AccessGiven
  <2>2. step' \in Steps /\ step' \notin Undoing /\ step \in Doing
    BY <1>1, <1>3 DEF Steps, Undoing, Doing
  <2>3. found' \in Numbers
    BY <1>3, ReconciledAssumption DEF Numbers
  <2> QED BY <1>1, <1>2, <1>3, <2>1, <2>2, <2>3, IInvFacts, InsideKept
<1>4. CASE Proceed("Failed") /\ UNCHANGED grantVars
  <2>1. step' = "Failed" /\ found' = found
    BY <1>4 DEF Proceed
  <2>2. step' \in Steps /\ step' \notin Undoing /\ step' \notin Doing
    BY <2>1 DEF Steps, Undoing, Doing, Reasons
  <2> QED BY <1>1, <1>2, <1>4, <2>1, <2>2, IInvFacts, MovesOn
<1>5. \/ Grant /\ step' = "record" /\ found' \in {0, 1}
      \/ Proceed("Failed") /\ UNCHANGED grantVars
  BY DEF AddCollaborator
<1> QED BY <1>3, <1>4, <1>5

(* Membership is removed next only when no invitation of the user was listed.  *)
LEMMA ListInvitationsKept ==
  ASSUME IInv, ListInvitations, OfCollaborator
  PROVE  IInv'
<1>1. /\ step = "invitations" /\ CollaboratorStep /\ UNCHANGED <<seen, current, found, invited, members, declined>>
      /\ step' \in {"remove", "uninvite"} /\ (step' = "remove" => shown # "all" \/ Of(User, invited) = {})
  BY DEF ListInvitations, Proceed, grantVars
<1>2. /\ Inside /\ UNCHANGED <<mat, keyVars, secret, rests, events, limit>> /\ kind = "Collaborator"
      /\ KeyTypeOK' /\ rests' \in Numbers
  BY <1>1, InsideCollaborator
<1>3. UNCHANGED <<kind, obj, seen, shown, gone>>
  BY <1>2 DEF Inside
<1>4. GrantInv'
  BY <1>1, <1>3, IInvFacts DEF HostInv, GrantInv, Reported, Exists, AccessGranted
<1>5. RevokeInv'
  BY <1>1, <1>3, IInvFacts DEF HostInv, RevokeInv, User
<1>6. HostInv' /\ CollaboratorTypeOK'
  BY <1>1, <1>2, <1>3, <1>4, <1>5, CollaboratorHost DEF IInv, TypeOK, CollaboratorTypeOK
<1>7. step' \in Steps /\ step \in Undoing /\ step' \notin Doing
  BY <1>1 DEF Steps, Undoing, Doing
<1> QED BY <1>1, <1>2, <1>6, <1>7, IInvFacts, InsideKept

(* Access that is taken away is access of which nothing is reported.            *)
LEMMA AccessTaken ==
  ASSUME IInv, kind = "Collaborator", Inside, step \in {"uninvite", "remove"},
         invited' \subseteq invited, members' \subseteq members, declined' = declined,
         step' \in {"remove", "release", "Failed"},
         shown = "all" /\ step' = "remove" => Of(User, invited') = {},
         step' = "release" =>
           found' = User /\ step = "remove" /\ (shown = "all" => members' = members \ Of(User, members))
  PROVE  HostInv' /\ CollaboratorTypeOK'
<1>1. UNCHANGED <<kind, obj, seen, shown, gone>>
  BY DEF Inside
<1>2. ~Reported("Collaborator")
  BY UndoingUnreported DEF Undoing
<1>3. GrantInv'
  BY <1>1, <1>2 DEF GrantInv, Reported, Exists
<1>4. \A u : Of(u, invited') \subseteq Of(u, invited)
             /\ Of(u, invited' \cup members') \subseteq Of(u, invited \cup members)
  BY DEF Of
<1>5. RevokeInv
  BY IInvFacts DEF HostInv
<1>6. step' = "release" /\ shown = "all" => Of(User, invited' \cup members') = {}
  BY <1>5 DEF RevokeInv, Of
<1>7. User' = User
  BY <1>1 DEF User
<1>8. RevokeInv'
  BY <1>1, <1>4, <1>5, <1>6, <1>7 DEF RevokeInv
<1>9. CollaboratorTypeOK'
  BY DEF IInv, TypeOK, CollaboratorTypeOK
<1> QED BY <1>1, <1>3, <1>8, <1>9, CollaboratorHost

(* The deletion of the invitation preserves the invariant.                     *)
LEMMA DeleteInvitationKept ==
  ASSUME IInv, DeleteInvitation, OfCollaborator
  PROVE  IInv'
<1>1. /\ step = "uninvite" /\ CollaboratorStep /\ UNCHANGED <<seen, current, found, members, declined>>
      /\ step' \in {"remove", "Failed"} /\ invited' \in {invited, invited \ Of(User, invited)}
      /\ shown # "nothing" => invited' = invited \ Of(User, invited)
  BY DEF DeleteInvitation, Proceed
<1>2. /\ Inside /\ UNCHANGED <<mat, keyVars, secret, rests, events, limit>> /\ kind = "Collaborator"
      /\ KeyTypeOK' /\ rests' \in Numbers
  BY <1>1, InsideCollaborator
<1>3. shown = "all" => Of(User, invited') = {}
  BY <1>1 DEF Of
<1>4. HostInv' /\ CollaboratorTypeOK'
  BY <1>1, <1>2, <1>3, AccessTaken
<1>5. step' \in Steps /\ step \in Undoing /\ step' \notin Doing
  BY <1>1 DEF Steps, Undoing, Doing, Reasons
<1> QED BY <1>1, <1>2, <1>4, <1>5, IInvFacts, InsideKept

(* After the removal of the member the user has neither membership nor         *)
(* invitation.                                                                 *)
LEMMA RemoveMemberKept ==
  ASSUME IInv, RemoveMember, OfCollaborator
  PROVE  IInv'
<1>1. /\ step = "remove" /\ CollaboratorStep /\ UNCHANGED <<seen, current, invited, declined>>
      /\ step' = "release" /\ found' = User /\ members' \in {members, members \ Of(User, members)}
      /\ shown # "nothing" => members' = members \ Of(User, members)
  BY DEF RemoveMember
<1>2. /\ Inside /\ UNCHANGED <<mat, keyVars, secret, rests, events, limit>> /\ kind = "Collaborator"
      /\ KeyTypeOK' /\ rests' \in Numbers
  BY <1>1, InsideCollaborator
<1>3. HostInv' /\ CollaboratorTypeOK'
  BY <1>1, <1>2, AccessTaken
<1>4. step' \in Steps /\ step \in Undoing /\ step' \notin Doing
  BY <1>1 DEF Steps, Undoing, Doing
<1>5. found' \in Numbers
  <2>1. User \in {1, 2}
    BY IInvFacts, ObjectFields, UsersTyped DEF User
  <2> QED BY <1>1, <2>1, ReconciledAssumption DEF Numbers
<1> QED BY <1>1, <1>2, <1>3, <1>4, <1>5, IInvFacts, InsideKept

(* A call that fails, with or without its effect on the host, preserves the    *)
(* invariant.                                                                  *)
LEMMA CollaboratorCallFailsKept ==
  ASSUME IInv, CollaboratorCallFails, OfCollaborator
  PROVE  IInv'
<1>1. /\ kind = "Collaborator" /\ UNCHANGED <<mat, keyVars, seen, current, found, secret, rests>>
      /\ step' = "Failed" /\ events < MaxEvents[kind] /\ events' = events + 1 /\ limit' = limit
      /\ step # "idle"
  BY DEF CollaboratorCallFails, CallFails, Proceed, secretVars, OfCollaborator, NotKey, NotVerdict
<1>2. Inside
  BY DEF CollaboratorCallFails, CallFails, Proceed, secretVars, objectVars, queueVars, Inside, OfCollaborator, NotVerdict
<1>3. KeyTypeOK' /\ rests' \in Numbers
  BY <1>1 DEF IInv, TypeOK, KeyTypeOK, ConnectionTypeOK, keyVars
<1>4. step' \in Steps /\ step' \notin Undoing /\ step' \notin Doing
  BY <1>1 DEF Steps, Undoing, Doing, Reasons
<1>5. CASE UNCHANGED grantVars
  BY <1>1, <1>2, <1>4, <1>5, IInvFacts, MovesOn
<1>6. ASSUME HostInv', CollaboratorTypeOK' PROVE IInv'
  BY <1>1, <1>2, <1>3, <1>4, <1>6, IInvFacts, InsideKept
<1>7. CASE step = "grant" /\ Grant
  BY <1>1, <1>2, <1>6, <1>7, AccessGiven
<1>8. CASE step = "uninvite" /\ invited' = invited \ Of(User, invited) /\ UNCHANGED <<members, declined>>
  BY <1>1, <1>2, <1>6, <1>8, AccessTaken
<1>9. CASE step = "remove" /\ members' = members \ Of(User, members) /\ UNCHANGED <<invited, declined>>
  BY <1>1, <1>2, <1>6, <1>9, AccessTaken
<1> QED BY <1>5, <1>7, <1>8, <1>9 DEF CollaboratorCallFails

(* A Collaborator call that the limit refuses preserves the invariant.         *)
LEMMA CollaboratorRefusedKept ==
  ASSUME IInv, CollaboratorRefused, OfCollaborator
  PROVE  IInv'
<1>1. /\ UNCHANGED <<mat, keyVars, seen, current, secret, grantVars, rests, events>>
      /\ step' \in {"limited", "Failed"} /\ limit' \in {1, 2} /\ found' \in {limit, found, 1, 2} /\ step # "idle"
      /\ step' = "limited" => found' \in {limit, 1, 2}
  BY DEF CollaboratorRefused, Refused, Proceed, secretVars, OfCollaborator, NotKey, NotVerdict
<1>2. Inside
  BY DEF CollaboratorRefused, Refused, Proceed, secretVars, objectVars, queueVars, Inside, OfCollaborator, NotVerdict
<1>3. step' \in Steps /\ step' \notin Undoing /\ step' \notin Doing
  BY <1>1 DEF Steps, Undoing, Doing, Reasons
<1>4. (step' = "limited" => found' \in 0..2) /\ found' \in Numbers /\ limit' \in 0..2
  BY <1>1, IInvFacts, ReconciledAssumption DEF Numbers
<1> QED BY <1>1, <1>2, <1>3, <1>4, IInvFacts, MovesOn

(* The grant recorded is the one of the spec it is recorded for.               *)
LEMMA RecordGrantKept ==
  ASSUME IInv, RecordGrant, OfCollaborator
  PROVE  IInv'
<1>1. PICK o : o = [seen EXCEPT !.observed = seen.gen, !.ref = found, !.reason = "Ready", !.at = 0]
  OBVIOUS
<1>2. /\ kind = "Collaborator" /\ step = "record" /\ Update(o) /\ Stop /\ Unrelated
      /\ owner' = owner /\ rests' = rests /\ mat' = mat /\ timer' = timer /\ queued' = (queued \/ ~current)
  BY <1>1 DEF RecordGrant, OfCollaborator, NotVerdict, NotKey, keyVars, Unrelated
<1>3. /\ o \in Objects /\ o.uid = seen.uid /\ o.want = seen.want /\ o.gen = seen.gen /\ o.deleting = seen.deleting
      /\ o.fin = seen.fin /\ o.observed = seen.gen
  <2>1. seen \in Objects /\ found \in Numbers /\ "Ready" \in Reasons /\ 0 \in 0..2
    BY IInvFacts DEF Reasons
  <2> QED BY <1>1, <2>1 DEF Objects
<1>4. WritesBack(o)
  BY <1>3 DEF WritesBack
<1>5. seen.fin
  BY <1>2, IInvFacts DEF RouteInv, Doing
<1>6. UNCHANGED <<kind, invited, members, declined, gone, shown>> /\ step' = "idle"
  BY <1>2 DEF Unrelated, Stop, grantVars, worldVars
<1>7. HostInv'
  <2>1. CASE ~current
    BY <1>2, <2>1, RefusedVerdict
  <2>2. CASE current
    <3>1. seen = obj /\ obj' = o
      BY <1>2, <2>2, IInvFacts DEF VersionsInv, CopiesInv, Update, Write
    <3>2. GrantInv'
      BY <1>2, <1>3, <1>6, <3>1, IInvFacts DEF HostInv, GrantInv, AccessGranted, User
    <3>3. RevokeInv'
      BY <1>3, <1>5, <1>6, <3>1 DEF RevokeInv
    <3> QED BY <1>2, <1>6, <3>2, <3>3, CollaboratorHost
  <2> QED BY <2>1, <2>2
<1>8. mat' \in Materials /\ rests' \in Numbers /\ queued' \in BOOLEAN /\ timer' \in SUBSET {"reset", "delay"}
  <2>1. queued' \in BOOLEAN
    BY <1>2, IInvFacts
  <2> QED BY <1>2, <2>1, IInvFacts DEF IInv, TypeOK, KeyTypeOK, ConnectionTypeOK
<1> QED BY <1>2, <1>3, <1>4, <1>7, <1>8, VerdictKept

(* The user's answer gives no access that was not on offer.                     *)
LEMMA AnswerKept ==
  ASSUME IInv, Accept \/ Decline, OfCollaborator
  PROVE  IInv'
<1>1. CollaboratorStep /\ UNCHANGED <<step, seen, current, found>>
  BY DEF Accept, Decline, workVars
<1>2. /\ Inside /\ UNCHANGED <<mat, keyVars, secret, rests, events, limit>> /\ kind = "Collaborator"
      /\ KeyTypeOK' /\ rests' \in Numbers
  BY <1>1, InsideCollaborator
<1>3. UNCHANGED <<kind, obj, seen, shown, gone>>
  BY <1>2 DEF Inside
<1>4. /\ invited' \subseteq invited /\ invited' \cup members' \subseteq invited \cup members
      /\ declined \subseteq declined'
      /\ \A w \in invited \cup members : w \in invited' \cup members' \/ UserOf(w) \in declined'
  <2>1. CASE Accept
    <3>1. PICK w \in invited : invited' = invited \ {w} /\ members' = members \cup {w}
      BY <2>1 DEF Accept
    <3> QED BY <2>1, <3>1 DEF Accept
  <2>2. CASE Decline
    <3>1. PICK w \in invited : invited' = invited \ {w} /\ declined' = declined \cup {UserOf(w)}
      BY <2>2 DEF Decline
    <3> QED BY <2>2, <3>1 DEF Decline
  <2> QED BY <2>1, <2>2
<1>5. GrantInv'
  <2>1. step = "record" => seen.want \in invited' \cup members' \/ UserOf(seen.want) \in declined'
    BY <1>2, <1>4, IInvFacts DEF HostInv, GrantInv, User
  <2>2. Reported("Collaborator") => obj.want \in invited' \cup members' \/ UserOf(obj.want) \in declined'
    BY <1>2, <1>4, IInvFacts DEF HostInv, GrantInv, AccessGranted
  <2> QED BY <1>1, <1>3, <2>1, <2>2 DEF GrantInv, AccessGranted, User, Reported, Exists
<1>6. RevokeInv'
  <2>1. \A u : Of(u, invited') \subseteq Of(u, invited)
               /\ Of(u, invited' \cup members') \subseteq Of(u, invited \cup members)
    BY <1>4 DEF Of
  <2>2. RevokeInv /\ User' = User
    BY <1>3, IInvFacts DEF HostInv, User
  <2> QED BY <1>1, <1>3, <2>1, <2>2 DEF RevokeInv
<1>7. CollaboratorTypeOK'
  <2>1. invited \subseteq 0..2 /\ members \subseteq 0..2 /\ declined \subseteq {1, 2}
    BY DEF IInv, TypeOK, CollaboratorTypeOK
  <2>2. declined' \subseteq {1, 2}
    <3>1. \A w \in invited : UserOf(w) \in {1, 2}
      BY <2>1, UsersTyped
    <3>2. CASE Accept
      BY <2>1, <3>2 DEF Accept
    <3>3. CASE Decline
      <4>1. PICK w \in invited : declined' = declined \cup {UserOf(w)}
        BY <3>3 DEF Decline
      <4> QED BY <2>1, <3>1, <4>1
    <3> QED BY <3>2, <3>3
  <2> QED BY <1>4, <2>1, <2>2 DEF CollaboratorTypeOK
<1>8. HostInv'
  BY <1>2, <1>3, <1>5, <1>6, CollaboratorHost
<1>9. (step' = "store" => seen.want = 0) /\ (step' = "limited" => found' \in 0..2)
  BY <1>1, IInvFacts DEF RouteInv
<1> QED BY <1>1, <1>2, <1>7, <1>8, <1>9, IInvFacts, InsideKept

(* Every step of the Collaborator controller, the host and the user preserves  *)
(* the invariant.                                                              *)
LEMMA CollaboratorNextKept ==
  ASSUME IInv, CollaboratorNext, OfCollaborator
  PROVE  IInv'
BY CollaboratorReconcileKept, AddCollaboratorKept, ListInvitationsKept, DeleteInvitationKept, RemoveMemberKept,
   CollaboratorCallFailsKept, CollaboratorRefusedKept, RecordGrantKept, AnswerKept DEF CollaboratorNext

-----------------------------------------------------------------------------
(* Connection.                                                               *)

(* Of a Connection, the invariants of the host say nothing.                     *)
LEMMA ConnectionHost ==
  ASSUME kind = "Connection", kind' = kind
  PROVE  HostInv'
BY DEF HostInv, IdsInv, RemovedInv, SecretInv, MaterialInv, InstalledInv, Reported, GrantInv, RevokeInv

(* Resolving and validating a credential preserve the invariant.               *)
LEMMA ConnectionInsideKept ==
  ASSUME IInv, ResolveCredential \/ Validate \/ ValidateFails \/ ConnectionRefused, OfConnection
  PROVE  IInv'
<1>1. /\ kind = "Connection" /\ UNCHANGED <<mat, keyVars, grantVars, secret, rests>> /\ step \in {"material", "validate"}
      /\ step' \in {"validate", "CredentialUnavailable", "record", "ValidationFailed", "limited"}
  BY DEF ResolveCredential, Validate, ValidateFails, ConnectionRefused, Proceed, Refused, CallFails, ConnectionStep,
         OfConnection, NotKey, NotGrant, secretVars
<1>2. Inside
  BY DEF ResolveCredential, Validate, ValidateFails, ConnectionRefused, Proceed, Refused, CallFails, ConnectionStep,
         OfConnection, Inside, objectVars, queueVars, secretVars, worldVars
<1>3. events' = events \/ (events < MaxEvents[kind] /\ events' = events + 1)
  BY DEF ResolveCredential, Validate, ValidateFails, ConnectionRefused, Refused, CallFails, ConnectionStep, worldVars
<1>4. /\ limit' \in {limit, 1, 2} /\ found' \in {found, scached.n, limit, 1, 2}
      /\ step' = "limited" => found' \in {limit, 1, 2}
  BY DEF ResolveCredential, Validate, ValidateFails, ConnectionRefused, Proceed, Refused, CallFails, ConnectionStep,
         worldVars
<1>5. limit' \in 0..2 /\ found' \in Numbers /\ (step' = "limited" => found' \in 0..2)
  <2>1. limit \in Numbers /\ 1 \in Numbers /\ 2 \in Numbers /\ scached.n \in Numbers
    BY IInvFacts, MaterialsTyped, ReconciledAssumption DEF Numbers
  <2> QED BY <1>4, <2>1, IInvFacts
<1>6. HostInv'
  BY <1>1, <1>2, ConnectionHost DEF Inside
<1>7. KeyTypeOK' /\ CollaboratorTypeOK' /\ rests' \in Numbers
  BY <1>1 DEF IInv, TypeOK, KeyTypeOK, CollaboratorTypeOK, ConnectionTypeOK, keyVars, grantVars
<1>8. step' \in Steps /\ step \in Doing /\ step' \notin Undoing
  BY <1>1 DEF Steps, Doing, Undoing, Reasons
<1> QED BY <1>1, <1>2, <1>3, <1>5, <1>6, <1>7, <1>8, IInvFacts, InsideKept

(* Changes of a Connection's Secret preserve the invariant.                    *)
LEMMA EditSecretKept ==
  ASSUME IInv, EditSecret, OfConnection
  PROVE  IInv'
<1>1. /\ kind = "Connection" /\ UNCHANGED <<mat, keyVars, grantVars, rests, limit, step, found>>
      /\ events < MaxEvents[kind] /\ events' = events + 1
      /\ secret' \in {NoSecret, [n |-> events + 1, owner |-> IF owner = "none" THEN 0 ELSE obj.uid]}
  BY DEF EditSecret, OfConnection, NotKey, NotGrant, workVars
<1>2. Inside
  BY DEF EditSecret, OfConnection, Inside, objectVars, queueVars, workVars
<1>3. secret' \in Secrets
  <2>1. events + 1 \in Numbers /\ 0 \in Numbers /\ 0 \in Uids /\ obj.uid \in Uids
    BY <1>1, IInvFacts, TypeFacts DEF Numbers, Uids, Objects
  <2> QED BY <1>1, <2>1 DEF Secrets, NoSecret
<1>4. HostInv'
  BY <1>1, <1>2, ConnectionHost DEF Inside
<1>5. KeyTypeOK' /\ CollaboratorTypeOK' /\ rests' \in Numbers
  BY <1>1 DEF IInv, TypeOK, KeyTypeOK, CollaboratorTypeOK, ConnectionTypeOK, keyVars, grantVars
<1>6. (step' = "store" => seen.want = 0) /\ (step' = "limited" => found' \in 0..2)
  BY <1>1, IInvFacts DEF RouteInv
<1> QED BY <1>1, <1>2, <1>3, <1>4, <1>5, <1>6, IInvFacts, InsideKept

(* The verdict on a credential, good or bad, preserves the invariant.          *)
LEMMA ConnectionVerdictKept ==
  ASSUME IInv, RecordLogin \/ Swallow, OfConnection
  PROVE  IInv'
<1>1. /\ kind = "Connection" /\ Stop /\ Unrelated /\ owner' = owner /\ mat' = mat /\ step # "idle"
      /\ rests' \in {found, rests}
  BY DEF RecordLogin, Swallow, Conclude, OfConnection, NotKey, NotGrant, keyVars, Unrelated
<1>2. queued' \in BOOLEAN /\ timer' \in SUBSET {"reset", "delay"}
  <2>1. queued' \in BOOLEAN
    BY IInvFacts DEF RecordLogin, Swallow, Requeue
  <2>2. timer' \in SUBSET {"reset", "delay"}
    BY IInvFacts DEF RecordLogin, Swallow, Requeue
  <2> QED BY <2>1, <2>2
<1>3. HostInv'
  BY <1>1, ConnectionHost DEF Unrelated
<1>4. mat' \in Materials /\ rests' \in Numbers
  BY <1>1, IInvFacts DEF IInv, TypeOK, KeyTypeOK, ConnectionTypeOK
<1>5. CASE RecordLogin
  <2>1. PICK o : o = [seen EXCEPT !.observed = seen.gen, !.ref = found, !.reason = "Ready", !.at = 0]
    OBVIOUS
  <2>2. seen \in Objects /\ found \in Numbers /\ "Ready" \in Reasons /\ 0 \in 0..2
    BY IInvFacts DEF Reasons
  <2>3. /\ o \in Objects /\ o.uid = seen.uid /\ o.want = seen.want /\ o.gen = seen.gen /\ o.deleting = seen.deleting
        /\ o.fin = seen.fin /\ o.observed = seen.gen
    BY <2>1, <2>2 DEF Objects
  <2>4. WritesBack(o) /\ Update(o)
    BY <1>5, <2>1, <2>3 DEF WritesBack, RecordLogin
  <2> QED BY <1>1, <1>2, <1>3, <1>4, <2>3, <2>4, VerdictKept
<1>6. CASE Swallow
  <2>1. PICK o : o = NotReady(step, 0)
    OBVIOUS
  <2>2. step \in Reasons
    BY <1>6 DEF Swallow, Reasons
  <2>3. /\ o \in Objects /\ o.uid = seen.uid /\ o.want = seen.want /\ o.gen = seen.gen
        /\ o.deleting = seen.deleting /\ o.fin = seen.fin /\ o.observed = seen.gen
    BY <2>1, <2>2, NotReadyFields
  <2>4. WritesBack(o) /\ Update(o)
    BY <1>6, <2>1, <2>3 DEF WritesBack, Swallow
  <2> QED BY <1>1, <1>2, <1>3, <1>4, <2>3, <2>4, VerdictKept
<1> QED BY <1>5, <1>6

(* Every step of the Connection controller preserves the invariant.            *)
LEMMA ConnectionNextKept ==
  ASSUME IInv, ConnectionNext, OfConnection
  PROVE  IInv'
BY ConnectionReconcileKept, ConnectionInsideKept, EditSecretKept, ConnectionVerdictKept DEF ConnectionNext

-----------------------------------------------------------------------------
(* The theorems.                                                             *)

(* A new object, not yet seen by its controller, satisfies the invariant.      *)
LEMMA InitEstablishes == Init => IInv
<1> SUFFICES ASSUME Init PROVE IInv
  OBVIOUS
<1>0. /\ cached = Absent /\ synced = FALSE /\ queued = FALSE /\ timer = {}
      /\ step = "idle" /\ seen = Absent /\ current = FALSE /\ found = 0
      /\ secret = NoSecret /\ scached = NoSecret
      /\ usable = TRUE /\ shown = "all" /\ limit = 0 /\ events = 0
      /\ mat = NoKey /\ lastId = 1 /\ minted = 0 /\ invited = {} /\ members \in {{}, {0}} /\ declined = {}
      /\ rests = 0 /\ owner \in Ownerships /\ gone = [what |-> 0, repo |-> 1] /\ kind \in Kinds
  BY KindsAssumption DEF Init, ReconciledInit, KeyInit, CollaboratorInit, ConnectionInit
<1>1. PICK w \in Wants[kind] : obj = Fresh(1, w)
  BY DEF Init, ReconciledInit
<1>2. 1 \in Uids /\ w \in 0..2 /\ 0 \in Numbers /\ 1 \in Numbers
  BY <1>0, ReconciledAssumption DEF Uids, Numbers
<1>3. /\ obj \in Objects /\ obj.uid = 1 /\ ~obj.deleting /\ ~obj.fin /\ obj.gen = 1 /\ obj.observed = 0
      /\ obj.reason = "none" /\ obj.ref = 0
  BY <1>1, <1>2, FreshFields
<1>4. \A k \in keys : k = [id |-> 1, mat |-> Brought, repo |-> 1]
  BY DEF Init, KeyInit
<1>5. NoKey \in Materials /\ Brought \in Materials
  BY DEF NoKey, Brought, Materials
<1>6. TypeOK
  <2>1. ReconciledTypeOK
    <3>1. "idle" \in Steps
      BY DEF Steps
    <3>2. NoSecret \in Secrets
      BY ReconciledAssumption DEF NoSecret, Secrets, Numbers, Uids
    <3>3. MaxEvents[kind] \in Nat
      BY <1>0, ReconciledAssumption
    <3>4. 0 \in 0..MaxEvents[kind] /\ 0 \in 0..2
      BY <3>3
    <3> QED BY <1>0, <1>2, <1>3, <3>1, <3>2, <3>4, AbsentFields DEF ReconciledTypeOK, Views
  <2>2. KeyTypeOK
    <3>1. [id |-> 1, mat |-> Brought, repo |-> 1] \in [id : Numbers, mat : Materials, repo : {1, 2}]
      BY <1>2, <1>5
    <3> QED BY <1>0, <1>2, <1>4, <1>5, <3>1 DEF KeyTypeOK
  <2>3. CollaboratorTypeOK /\ ConnectionTypeOK /\ gone \in [what : Numbers, repo : {1, 2}]
    BY <1>0, <1>2 DEF CollaboratorTypeOK, ConnectionTypeOK
  <2> QED BY <2>1, <2>2, <2>3 DEF TypeOK
<1>7. RouteInv
  BY <1>0 DEF RouteInv, Undoing, Doing
<1>8. VersionsInv
  BY <1>0, <1>3, AbsentFields DEF VersionsInv, ObjectInv, CopiesInv, CopyOK, ReadyNow
<1>9. HostInv
  <2>1. \A k \in keys : k.id = 1
    BY <1>4
  <2>2. IdsInv /\ RemovedInv
    BY <1>0, <1>3, <2>1, AbsentFields DEF IdsInv, RemovedInv
  <2>3. SecretInv /\ MaterialInv
    BY <1>0 DEF SecretInv, MaterialInv
  <2>4. InstalledInv /\ GrantInv
    BY <1>0, <1>3 DEF InstalledInv, GrantInv, Reported
  <2>5. RevokeInv
    BY <1>0 DEF RevokeInv
  <2> QED BY <2>2, <2>3, <2>4, <2>5 DEF HostInv
<1> QED BY <1>6, <1>7, <1>8, <1>9 DEF IInv

(* A stuttering step preserves the invariant.                                  *)
LEMMA StutterKept ==
  ASSUME IInv, UNCHANGED vars
  PROVE  IInv'
<1>1. /\ Inside /\ UNCHANGED <<secret, mat, keys, lastId, minted, invited, members, declined, rests, step, found,
                               limit, events>>
  BY DEF vars, Inside, objectVars, queueVars, workVars, secretVars, worldVars, keyVars, grantVars
<1>2. NoNewReport
  BY <1>1 DEF NoNewReport, FirstUp, Inside
<1>3. NothingToShow
  BY <1>1 DEF NothingToShow, Inside
<1>4. HostInv'
  BY <1>1, <1>2, <1>3, IInvFacts, HostFrame DEF Inside, grantVars
<1>5. KeyTypeOK' /\ CollaboratorTypeOK' /\ rests' \in Numbers
  BY <1>1 DEF IInv, TypeOK, KeyTypeOK, CollaboratorTypeOK, ConnectionTypeOK
<1>6. (step' = "store" => seen.want = 0) /\ (step' = "limited" => found' \in 0..2)
  BY <1>1, IInvFacts DEF RouteInv
<1> QED BY <1>1, <1>4, <1>5, <1>6, IInvFacts, InsideKept

(* Every step preserves the invariant.                                         *)
LEMMA NextKept ==
  ASSUME IInv, [Next]_vars
  PROVE  IInv'
<1>1. CASE (World \/ SyncSecret) /\ OfAll /\ UNCHANGED gone
  BY <1>1, WritesKept, QuietWorldKept, CollectSecretKept DEF World
<1> QED
  BY <1>1, KeyNextKept, CollaboratorNextKept, ConnectionNextKept, ReleaseKept, EndsKept, RestartKept, StutterKept
     DEF Next

(* The inductive invariant: where Reconcile may be, what its copies still say  *)
(* of the object, and what the host has for it.                                *)
THEOREM Invariance == Spec => []IInv
BY InitEstablishes, NextKept, PTL DEF Spec

(* Every variable keeps its type, whatever is edited, deleted, recreated, lost *)
(* or restarted (deploykey, collaborator and connection controllers).          *)
THEOREM TypeCorrect == Spec => []TypeOK
<1>1. IInv => TypeOK
  BY DEF IInv
<1> QED BY <1>1, Invariance, PTL

(* ReadyIsReal: a DeployKey or Collaborator reported Ready for its present spec*)
(* has on the host the key or the access that spec asks for, and of a generated*)
(* key the Secret its private half (deploykey/controller.go,                   *)
(* collaborator/controller.go: Reconcile).                                     *)
THEOREM Real == Spec => []ReadyIsReal
<1>1. IInv => ReadyIsReal
  BY DEF IInv, HostInv, InstalledInv, GrantInv, ReadyIsReal, Reported
<1> QED BY <1>1, Invariance, PTL

(* Revoked: an object released with its references resolving, by a token that  *)
(* may act on the repository, leaves neither the key it recorded in the        *)
(* repository its spec named then, nor its user's membership or listed         *)
(* invitation there (DeleteDeployKey, RemoveCollaborator).                     *)
THEOREM AccessRevoked == Spec => []Revoked
<1>1. ASSUME IInv PROVE Revoked
  <2>1. obj.uid = 0 => ~obj.fin
    BY <1>1, IInvFacts, AbsentFields DEF VersionsInv, ObjectInv
  <2> QED BY <1>1, <2>1, IInvFacts DEF HostInv, RemovedInv, RevokeInv, Revoked
<1> QED BY <1>1, Invariance, PTL
=============================================================================
