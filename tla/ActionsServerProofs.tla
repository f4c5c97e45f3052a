------------------------- MODULE ActionsServerProofs -------------------------
(***************************************************************************)
(* Theorems about ActionsServer, for any number of calls, slots, uploads, pull *)
(* requests and events, any quotas and any order of what happens.            *)
(***************************************************************************)
EXTENDS ActionsServer, FiniteSums, SequenceTheorems

(* Where a call is, or goes after the identity check.                        *)
Place(r) == IF r.step = "check" THEN r.next ELSE r.step

(* Which requests get to a step, before which the identity is checked, and where *)
(* no snapshot slot is taken yet.                                            *)
RouteOK(r, q) ==
  /\ r.step = "check" =>
       r.next \in {"verify", "head", "find", "create", "read", "edit", "before", "checks",
                   "after", "comment"}
  /\ r.step \in {"authorize", "admit"} => ~r.held
  /\ r.step \in HostSteps \ {"check"} => r.known # "unchecked"
  /\ Place(r) = "store" => q.act = "stage"
  /\ Place(r) = "verify" => q.act \in {"prepare", "publish"}
  /\ Place(r) = "push" => q.act = "publish"
  /\ Place(r) = "head" => q.act \in {"head", "create"}
  /\ Place(r) = "find" => q.act = "find"
  /\ Place(r) = "create" => q.act = "create"
  /\ Place(r) \in {"read", "edit"} => q.act = "update"
  /\ Place(r) \in {"before", "checks", "reviews", "after"} => q.act = "feedback"
  /\ Place(r) = "comment" => q.act = "comment"

(* A request under way to the host belongs to a call that checked the identity *)
(* and waits for it, or that ended with the outcome open.                      *)
SentOK(r, underway) ==
  /\ r.step # "done" => r.answer = "none"
  /\ underway => /\ r.step \in {"wait", "done"} /\ r.answer \in {"none", "unconfirmed"}
                 /\ r.known # "unchecked"

(* What is verified was staged by the caller; what is pushed is sound too.   *)
StagedOK(r, q, underway, st) ==
  /\ Place(r) \in {"verify", "push"} \/ (underway /\ q.act = "publish") =>
       <<q.scope, q.snap>> \in st
  /\ Place(r) = "push" \/ (underway /\ q.act = "publish") => q.snap \in Sound

(* What a call collected are checks of the number it saw, none of them twice.  *)
Complete(got) ==
  Cardinality(got) \in {3, 4} /\ \A id \in got : NameOf(id) \in 1..Cardinality(got)
PagesOK(r, q) ==
  /\ IsFiniteSet(r.got)
  /\ Place(r) \notin {"checks", "reviews", "after", "done"} => r.got = {}
  /\ Place(r) = "checks" /\ r.got # {} =>
       /\ r.total \in {3, 4} /\ Cardinality(r.got) < r.total
       /\ \A id \in r.got : NameOf(id) \in 1..r.total
  /\ Place(r) \in {"reviews", "after"} \/ (q.act = "feedback" /\ r.answer = "ok") =>
       Complete(r.got)

(* A call that knows the repository knows the one it is bound to; one told that it  *)
(* succeeded did what it was asked to.                                       *)
BoundOK(r, q, id, d) ==
  /\ r.known = "checked" => id = 1
  /\ q.act \in {"create", "update"} /\ r.answer = "ok" => d = q.at

CallOK(r, q, underway, st, id, d) ==
  /\ r \in CallRecords /\ RouteOK(r, q) /\ SentOK(r, underway) /\ StagedOK(r, q, underway, st)
  /\ PagesOK(r, q) /\ BoundOK(r, q, id, d)
CallsInv == \A c \in Calls : CallOK(call[c], req[c], c \in sent, staged, host.id, did[c])

(* The slots in use are those of the calls under way.                        *)
Active == {c \in Calls : call[c].step \notin {"new", "done"}}
Holding == {c \in Calls : call[c].held}
SlotInv ==
  /\ slots = Cardinality(Active) /\ snapshotSlots = Cardinality(Holding)
  /\ Holding \subseteq Active

(* A file is what its caller uploaded.                                       *)
FilesInv ==
  \A f \in files :
    IF f.name = "final" THEN <<f.scope, f.snap>> \in staged
    ELSE f.scope = req[f.name].scope /\ f.snap = req[f.name].snap

(* There are three checks, or four once one was added; a check keeps its name.  *)
ChecksInv ==
  /\ Len(host.checks) \in {3, 4}
  /\ \A i \in 1..Len(host.checks) :
       host.checks[i] >= 1 /\ NameOf(host.checks[i]) \in 1..Len(host.checks)

QuotaInv == IsFiniteSet(files) /\ Quota

IInv ==
  TypeOK /\ CallsInv /\ SlotInv /\ FilesInv /\ ChecksInv /\ QuotaInv /\ astray = {}

(* Publications that expect the branch as it was before any.                 *)
FromBase == \A c \in Calls : req[c].act = "publish" => req[c].at \in {"none", "base"}

(* A branch at its base accounts for a publication that may still land.      *)
LandInv ==
  \A s \in Snaps : moves[s] + (IF host.head \in {"none", "base"} THEN 1 ELSE 0) <= 1 + restores

-----------------------------------------------------------------------------
(* The slots.                                                                *)

Occupies(r) == IF r.step \in {"new", "done"} THEN 0 ELSE 1
Holds(r) == IF r.held THEN 1 ELSE 0

(* The step of one call, with what it does to the slots.                     *)
SlotStep(c, r) ==
  /\ call' = [call EXCEPT ![c] = r]
  /\ slots' = slots - Occupies(call[c]) + Occupies(r)
  /\ snapshotSlots' = snapshotSlots - Holds(call[c]) + Holds(r)
  /\ r.held => Occupies(r) = 1

(* Two sets that differ in one element at most differ in size by what that     *)
(* element counts in each.                                                     *)
LEMMA CountOne ==
  ASSUME NEW S, NEW T, NEW c, IsFiniteSet(S),
         \A d : d # c => (d \in S <=> d \in T)
  PROVE  /\ IsFiniteSet(T) /\ Cardinality(S) \in Nat /\ Cardinality(T) \in Nat
         /\ Cardinality(T) = Cardinality(S) - (IF c \in S THEN 1 ELSE 0) + (IF c \in T THEN 1 ELSE 0)
<1> DEFINE U == S \ {c}
<1>1. IsFiniteSet(U) /\ Cardinality(U) = (IF c \in S THEN Cardinality(S) - 1 ELSE Cardinality(S))
      /\ Cardinality(S) \in Nat /\ Cardinality(U) \in Nat
  BY FS_RemoveElement, FS_CardinalityType
<1>2. CASE c \in T
  <2>1. T = U \cup {c}
    BY <1>2
  <2>2. IsFiniteSet(T) /\ Cardinality(T) = Cardinality(U) + 1
    <3> HIDE DEF U
    <3>1. c \notin U
      BY DEF U
    <3> QED BY <1>1, <2>1, <3>1, FS_AddElement
  <2> HIDE DEF U
  <2> QED BY <1>1, <1>2, <2>2
<1>3. CASE c \notin T
  <2>1. T = U
    BY <1>3
  <2> QED BY <1>1, <1>3, <2>1
<1> QED BY <1>2, <1>3

(* A step that takes and returns the slots of its call as SlotStep says keeps  *)
(* both counters equal to the calls that use them.                             *)
LEMMA SlotsKept ==
  ASSUME SlotInv, call \in [Calls -> CallRecords], NEW c \in Calls, NEW r \in CallRecords,
         SlotStep(c, r)
  PROVE  SlotInv' /\ slots \in Nat /\ snapshotSlots \in Nat /\ slots' \in Nat /\ snapshotSlots' \in Nat
<1>1. call'[c] = r /\ \A d \in Calls : d # c => call'[d] = call[d]
  BY DEF SlotStep
<1>2. IsFiniteSet(Active) /\ IsFiniteSet(Holding)
  BY ActionCallsAssumption, FS_Subset DEF Active, Holding
<1>3. (\A d : d # c => (d \in Active <=> d \in Active')) /\ (\A d : d # c => (d \in Holding <=> d \in Holding'))
  BY <1>1 DEF Active, Holding
<1>4. /\ Cardinality(Active) \in Nat /\ Cardinality(Active') \in Nat
      /\ Cardinality(Active') = Cardinality(Active) - (IF c \in Active THEN 1 ELSE 0)
                                + (IF c \in Active' THEN 1 ELSE 0)
  BY <1>2, <1>3, CountOne
<1>5. /\ Cardinality(Holding) \in Nat /\ Cardinality(Holding') \in Nat
      /\ Cardinality(Holding') = Cardinality(Holding) - (IF c \in Holding THEN 1 ELSE 0)
                                + (IF c \in Holding' THEN 1 ELSE 0)
  BY <1>2, <1>3, CountOne
<1>6. /\ Occupies(call[c]) = (IF c \in Active THEN 1 ELSE 0)
      /\ Occupies(r) = (IF c \in Active' THEN 1 ELSE 0)
  BY <1>1 DEF Occupies, Active
<1>7. /\ Holds(call[c]) = (IF c \in Holding THEN 1 ELSE 0)
      /\ Holds(r) = (IF c \in Holding' THEN 1 ELSE 0)
  BY <1>1 DEF Holds, Holding
<1>8. slots' = Cardinality(Active') /\ slots = Cardinality(Active)
  BY <1>4, <1>6 DEF SlotInv, SlotStep
<1>9. snapshotSlots' = Cardinality(Holding') /\ snapshotSlots = Cardinality(Holding)
  BY <1>5, <1>7 DEF SlotInv, SlotStep
<1>10. Holding' \subseteq Active'
  <2> SUFFICES ASSUME NEW d \in Holding' PROVE d \in Active'
    OBVIOUS
  <2>1. CASE d = c
    BY <1>1, <2>1 DEF SlotStep, Holding, Active, Occupies
  <2>2. CASE d # c
    BY <1>3, <2>2 DEF SlotInv
  <2> QED BY <2>1, <2>2
<1> QED BY <1>4, <1>5, <1>8, <1>9, <1>10 DEF SlotInv

-----------------------------------------------------------------------------
(* The step of one call.                                                     *)

(* A step of one call keeps the others in order: what they rely on (their      *)
(* request, the uploads, the repository) is as it was or more.                 *)
LEMMA CallsKept ==
  ASSUME CallsInv, call \in [Calls -> CallRecords], NEW c \in Calls, NEW r,
         call' = [call EXCEPT ![c] = r],
         CallOK(r, req[c], c \in sent', staged', host'.id, did'[c]),
         req' = req, staged \subseteq staged', host'.id = host.id,
         \A d \in Calls : d # c => did'[d] = did[d] /\ (d \in sent' <=> d \in sent)
  PROVE  CallsInv'
<1> SUFFICES ASSUME NEW d \in Calls
             PROVE  CallOK(call'[d], req[d], d \in sent', staged', host'.id, did'[d])
  BY DEF CallsInv
<1>1. CASE d = c
  BY <1>1
<1>2. CASE d # c
  <2>1. call'[d] = call[d] /\ did'[d] = did[d] /\ (d \in sent' <=> d \in sent)
    BY <1>2
  <2>2. CallOK(call[d], req[d], d \in sent, staged, host.id, did[d])
    BY DEF CallsInv
  <2> QED BY <2>1, <2>2 DEF CallOK, SentOK, StagedOK, BoundOK
<1> QED BY <1>1, <1>2

(* What ending a call asks for: a success is told only when it is one, and a request  *)
(* that is still under way leaves the outcome open.                          *)
MayEnd(c, a) ==
  /\ a \in Answers \ {"none"}
  /\ c \in sent' => c \in sent /\ a = "unconfirmed"
  /\ a = "ok" /\ req[c].act = "feedback" => Complete(call[c].got)
  /\ a = "ok" /\ req[c].act \in {"create", "update"} => did'[c] = req[c].at

(* A call that has not arrived is a call record.                               *)
LEMMA NewCallOK == NewCall \in CallRecords
BY DEF NewCall, CallRecords, Steps, HostSteps, Answers, Commits

(* Every return of ServeHTTP gives back the slots the call has, and leaves a   *)
(* record in order when MayEnd allows its answer.                              *)
LEMMA EndsStep ==
  ASSUME NEW c \in Calls, CallOK(call[c], req[c], c \in sent, staged, host.id, did[c]),
         slots \in Nat, snapshotSlots \in Nat,
         call[c].step \notin {"new", "done"}, NEW a, Ends(c, a), MayEnd(c, a),
         staged \subseteq staged', host'.id = host.id
  PROVE  \E r : SlotStep(c, r) /\ CallOK(r, req[c], c \in sent', staged', host'.id, did'[c])
<1>1. call[c] \in CallRecords
  BY DEF CallOK
<1>2. PICK r : r = [NewCall EXCEPT !.step = "done", !.answer = a, !.known = call[c].known,
                                   !.got = call[c].got]
  OBVIOUS
<1>3. /\ r.step = "done" /\ r.answer = a /\ r.known = call[c].known /\ r.got = call[c].got
      /\ ~r.held
  BY <1>2 DEF NewCall
<1>4. r \in CallRecords
  BY <1>1, <1>2, NewCallOK DEF CallRecords, MayEnd, Steps
<1>5. SlotStep(c, r)
  <2>1. Occupies(call[c]) = 1 /\ Occupies(r) = 0 /\ Holds(r) = 0
    BY <1>3 DEF Occupies, Holds
  <2>2. call' = [call EXCEPT ![c] = r] /\ slots' = slots - 1
        /\ snapshotSlots' = IF call[c].held THEN snapshotSlots - 1 ELSE snapshotSlots
    BY <1>2 DEF Ends
  <2> QED BY <1>3, <2>1, <2>2 DEF SlotStep, Holds
<1>6. Place(r) = "done"
  BY <1>3 DEF Place
<1>7. RouteOK(r, req[c])
  BY <1>3, <1>6 DEF RouteOK, HostSteps
<1>8. SentOK(r, c \in sent')
  BY <1>3 DEF CallOK, SentOK, MayEnd
<1>9. StagedOK(r, req[c], c \in sent', staged')
  BY <1>6 DEF CallOK, StagedOK, MayEnd
<1>10. PagesOK(r, req[c])
  BY <1>3, <1>6 DEF CallOK, PagesOK, MayEnd
<1>11. BoundOK(r, req[c], host'.id, did'[c])
  BY <1>3 DEF CallOK, BoundOK, MayEnd
<1> QED BY <1>4, <1>5, <1>7, <1>8, <1>9, <1>10, <1>11 DEF CallOK

(* What going on to step s, before or after an identity check, asks for.       *)
MayGo(c, s) ==
  /\ s \in Steps \ {"new", "done", "check", "wait"}
  /\ s \in {"authorize", "admit"} => ~call[c].held
  /\ s = "store" => req[c].act = "stage"
  /\ s = "verify" => req[c].act \in {"prepare", "publish"}
  /\ s = "push" => req[c].act = "publish"
  /\ s = "head" => req[c].act \in {"head", "create"}
  /\ s = "find" => req[c].act = "find"
  /\ s = "create" => req[c].act = "create"
  /\ s \in {"read", "edit"} => req[c].act = "update"
  /\ s \in {"before", "checks", "reviews", "after"} => req[c].act = "feedback"
  /\ s = "comment" => req[c].act = "comment"
  /\ s \in {"verify", "push"} => <<req[c].scope, req[c].snap>> \in staged
  /\ s = "push" => req[c].snap \in Sound
Checkable == {"verify", "head", "find", "create", "read", "edit", "before", "checks", "after",
              "comment"}

(* A call that goes on from one step to another, with its slots.               *)
LEMMA GoesStep ==
  ASSUME NEW c \in Calls, CallOK(call[c], req[c], c \in sent, staged, host.id, did[c]),
         slots \in Nat, snapshotSlots \in Nat, call[c].step \notin {"new", "done", "wait"},
         NEW r \in CallRecords, NEW s, MayGo(c, s),
         r.step = s \/ (r.step = "check" /\ r.next = s /\ s \in Checkable),
         r.held = call[c].held, r.answer = call[c].answer,
         r.known = call[c].known \/ (r.known = "checked" /\ host.id = 1),
         r.step \in HostSteps \ {"check"} => r.known # "unchecked",
         PagesOK(r, req[c]), call' = [call EXCEPT ![c] = r],
         UNCHANGED <<slots, snapshotSlots, sent, did>>, staged \subseteq staged', host'.id = host.id
  PROVE  SlotStep(c, r) /\ CallOK(r, req[c], c \in sent', staged', host'.id, did'[c])
<1>1. Place(r) = s
  BY DEF Place, MayGo
<1>2. r.step \notin {"new", "done", "wait"} /\ c \notin sent /\ r.answer = "none"
  BY DEF MayGo, CallOK, SentOK
<1>3. SlotStep(c, r)
  <2>1. Occupies(call[c]) = 1 /\ Occupies(r) = 1 /\ Holds(call[c]) = Holds(r) /\ Holds(r) \in {0, 1}
    BY <1>2 DEF Occupies, Holds
  <2> QED BY <2>1 DEF SlotStep
<1>4. RouteOK(r, req[c])
  BY <1>1 DEF RouteOK, MayGo, Checkable
<1>5. SentOK(r, c \in sent')
  BY <1>2 DEF SentOK
<1>6. StagedOK(r, req[c], c \in sent', staged')
  BY <1>1, <1>2 DEF StagedOK, MayGo
<1>7. BoundOK(r, req[c], host'.id, did'[c])
  BY <1>2 DEF CallOK, BoundOK
<1> QED BY <1>3, <1>4, <1>5, <1>6, <1>7 DEF CallOK

-----------------------------------------------------------------------------
(* What every step of a call keeps.                                          *)

CallStep(c) ==
  \E r \in CallRecords :
    /\ SlotStep(c, r) /\ slots' <= Slots /\ snapshotSlots' <= SnapshotSlots
    /\ CallOK(r, req[c], c \in sent', staged', host'.id, did'[c])

(* What the invariant says of one call.                                        *)
LEMMA CallFacts ==
  ASSUME IInv, NEW c \in Calls
  PROVE  /\ call \in [Calls -> CallRecords] /\ call[c] \in CallRecords
         /\ req[c] \in Requests /\ CallOK(call[c], req[c], c \in sent, staged, host.id, did[c])
         /\ slots \in Nat /\ snapshotSlots \in Nat /\ slots <= Slots /\ snapshotSlots <= SnapshotSlots
         /\ Slots \in Nat /\ SnapshotSlots \in Nat
BY ActionCallsAssumption DEF IInv, TypeOK, CallsTypeOK, CallsInv

(* A return is a step of its call that keeps the slots within their limits.    *)
LEMMA EndsCall ==
  ASSUME IInv, NEW c \in Calls, call[c].step \notin {"new", "done"}, NEW a, Ends(c, a), MayEnd(c, a),
         staged \subseteq staged', host'.id = host.id
  PROVE  CallStep(c)
<1>1. PICK r : SlotStep(c, r) /\ CallOK(r, req[c], c \in sent', staged', host'.id, did'[c])
  BY CallFacts, EndsStep
<1>2. slots' <= Slots /\ snapshotSlots' <= SnapshotSlots
  BY CallFacts DEF Ends
<1>3. r \in CallRecords
  BY <1>1 DEF CallOK
<1> QED BY <1>1, <1>2, <1>3 DEF CallStep

(* Going on to the next step is a step of its call that takes no slot.         *)
LEMMA GoesCall ==
  ASSUME IInv, NEW c \in Calls, call[c].step \notin {"new", "done", "wait"},
         NEW r \in CallRecords, NEW s, MayGo(c, s),
         r.step = s \/ (r.step = "check" /\ r.next = s /\ s \in Checkable),
         r.held = call[c].held, r.answer = call[c].answer,
         r.known = call[c].known \/ (r.known = "checked" /\ host.id = 1),
         r.step \in HostSteps \ {"check"} => r.known # "unchecked",
         PagesOK(r, req[c]), call' = [call EXCEPT ![c] = r],
         UNCHANGED <<slots, snapshotSlots, sent, did>>, staged \subseteq staged', host'.id = host.id
  PROVE  CallStep(c)
<1>1. SlotStep(c, r) /\ CallOK(r, req[c], c \in sent', staged', host'.id, did'[c])
  BY CallFacts, GoesStep
<1> QED BY <1>1, CallFacts DEF CallStep

(* What a step of a call keeps, whatever it does to the uploads and the host.  *)
LEMMA CallStepKept ==
  ASSUME IInv, NEW c \in Calls, CallStep(c), UNCHANGED worldVars,
         staged \subseteq staged', host'.id = host.id,
         \A d \in Calls : d # c => did'[d] = did[d] /\ (d \in sent' <=> d \in sent)
  PROVE  CallsTypeOK' /\ CallsInv' /\ SlotInv'
<1>1. PICK r \in CallRecords :
        /\ SlotStep(c, r) /\ slots' <= Slots /\ snapshotSlots' <= SnapshotSlots
        /\ CallOK(r, req[c], c \in sent', staged', host'.id, did'[c])
  BY DEF CallStep
<1>2. SlotInv' /\ slots' \in Nat /\ snapshotSlots' \in Nat
  BY <1>1, CallFacts, SlotsKept DEF IInv
<1>3. call' = [call EXCEPT ![c] = r] /\ req' = req
  BY <1>1 DEF SlotStep, worldVars
<1>4. CallsInv'
  BY <1>1, <1>3, CallFacts, CallsKept DEF IInv
<1>5. call' \in [Calls -> CallRecords]
  BY <1>3, CallFacts
<1>6. CallsTypeOK'
  BY <1>1, <1>2, <1>5, CallFacts DEF CallsTypeOK, IInv, TypeOK, worldVars
<1> QED BY <1>2, <1>4, <1>6

(* A step that is its call's alone.                                          *)
LEMMA OwnStepKept ==
  ASSUME IInv, NEW c \in Calls, CallStep(c), UNCHANGED <<worldVars, storeVars, hostVars>>
  PROVE  IInv'
<1>1. CallsTypeOK' /\ CallsInv' /\ SlotInv'
  BY CallStepKept DEF storeVars, hostVars
<1> QED
  BY <1>1 DEF IInv, TypeOK, StoreTypeOK, HostTypeOK, FilesInv, ChecksInv, QuotaInv, Quota, worldVars,
              storeVars, hostVars

-----------------------------------------------------------------------------
(* ServeHTTP.                                                                *)

(* A call collected nothing before its feedback.                             *)
LEMMA NothingCollected ==
  ASSUME IInv, NEW c \in Calls, call[c].step \in {"authorize", "admit", "body", "resolve", "perform", "store"}
  PROVE  call[c].got = {} /\ call[c].answer = "none" /\ c \notin sent
BY CallFacts DEF CallOK, PagesOK, SentOK, Place

(* A call with nothing collected is in order wherever it is on the way.      *)
LEMMA EmptyPages ==
  ASSUME NEW r, NEW q, r.got = {}, r.answer = "none", Place(r) \notin {"reviews", "after"}
  PROVE  PagesOK(r, q)
BY FS_EmptySet DEF PagesOK

(* Arrive: the call takes a slot when one is free, and is refused otherwise.   *)
LEMMA ArriveStep ==
  ASSUME IInv, NEW c \in Calls, Arrive(c), UNCHANGED <<worldVars, storeVars, hostVars>>
  PROVE  CallStep(c)
<1>1. CallOK(call[c], req[c], c \in sent, staged, host.id, did[c]) /\ call[c] \in CallRecords
  BY CallFacts
<1>2. call[c].step = "new" /\ call[c].answer = "none" /\ c \notin sent /\ call[c].got = {}
  BY <1>1 DEF Arrive, CallOK, SentOK, PagesOK, Place
<1>3. ~call[c].held
  BY <1>1, <1>2 DEF IInv, SlotInv, Holding, Active, CallRecords
<1>4. CASE slots < Slots
  <2>1. PICK r : r = [call[c] EXCEPT !.step = "authorize"]
    OBVIOUS
  <2>2. r \in CallRecords
    BY <1>1, <2>1 DEF CallRecords, Steps
  <2>3. r.step = "authorize" /\ r.answer = "none" /\ r.got = {} /\ ~r.held /\ r.known = call[c].known
    BY <1>1, <1>2, <1>3, <2>1 DEF CallRecords
  <2>4. call' = [call EXCEPT ![c] = r] /\ slots' = slots + 1 /\ snapshotSlots' = snapshotSlots
    BY <1>4, <2>1 DEF Arrive
  <2>5. SlotStep(c, r) /\ slots' <= Slots /\ snapshotSlots' <= SnapshotSlots
    BY <1>2, <1>3, <1>4, <2>3, <2>4, CallFacts DEF SlotStep, Occupies, Holds
  <2>6. Place(r) = "authorize"
    BY <2>3 DEF Place
  <2>7. PagesOK(r, req[c])
    BY <2>3, <2>6, EmptyPages
  <2>8. UNCHANGED <<sent, staged, host, did>>
    BY DEF storeVars, hostVars
  <2>9. CallOK(r, req[c], c \in sent', staged', host'.id, did'[c])
    BY <1>1, <1>2, <2>2, <2>3, <2>6, <2>7, <2>8
       DEF CallOK, RouteOK, SentOK, StagedOK, BoundOK, HostSteps
  <2> QED BY <2>2, <2>5, <2>9 DEF CallStep
<1>5. CASE ~(slots < Slots)
  <2>1. PICK r : r = [call[c] EXCEPT !.step = "done", !.answer = "capacity"]
    OBVIOUS
  <2>2. r \in CallRecords
    BY <1>1, <2>1 DEF CallRecords, Steps, Answers
  <2>3. r.step = "done" /\ r.answer = "capacity" /\ r.got = {} /\ ~r.held /\ r.known = call[c].known
    BY <1>1, <1>2, <1>3, <2>1 DEF CallRecords
  <2>4. call' = [call EXCEPT ![c] = r] /\ slots' = slots /\ snapshotSlots' = snapshotSlots
    BY <1>5, <2>1 DEF Arrive
  <2>5. SlotStep(c, r) /\ slots' <= Slots /\ snapshotSlots' <= SnapshotSlots
    BY <1>2, <1>3, <2>3, <2>4, CallFacts DEF SlotStep, Occupies, Holds
  <2>6. Place(r) = "done"
    BY <2>3 DEF Place
  <2>7. PagesOK(r, req[c])
    BY <2>3, <2>6, FS_EmptySet DEF PagesOK
  <2>8. UNCHANGED <<sent, staged, host, did>>
    BY DEF storeVars, hostVars
  <2>9. CallOK(r, req[c], c \in sent', staged', host'.id, did'[c])
    BY <1>1, <1>2, <2>2, <2>3, <2>6, <2>7, <2>8
       DEF CallOK, RouteOK, SentOK, StagedOK, BoundOK, HostSteps
  <2> QED BY <2>2, <2>5, <2>9 DEF CallStep
<1> QED BY <1>4, <1>5

(* A refusal ends a call that sent nothing.                                  *)
LEMMA RefusesCall ==
  ASSUME IInv, NEW c \in Calls, call[c].step \notin {"new", "done"}, NEW a \in Answers \ {"none", "ok"},
         Ends(c, a), staged \subseteq staged', host'.id = host.id,
         c \in sent' => c \in sent /\ a = "unconfirmed"
  PROVE  CallStep(c)
<1>1. MayEnd(c, a)
  BY DEF MayEnd
<1> QED BY <1>1, EndsCall

(* Authorize: the call sees the Repository, or is refused.                     *)
LEMMA AuthorizeStep ==
  ASSUME IInv, NEW c \in Calls, Authorize(c), UNCHANGED <<worldVars, storeVars, hostVars>>
  PROVE  CallStep(c)
<1>1. call[c].got = {} /\ call[c].answer = "none" /\ c \notin sent /\ call[c].step = "authorize"
  BY NothingCollected DEF Authorize
<1>2. UNCHANGED <<sent, staged, host, did>>
  BY DEF storeVars, hostVars
<1>3. CASE obj.uid = 0 /\ Ends(c, "forbidden")
  BY <1>1, <1>2, <1>3, RefusesCall DEF Answers
<1>4. CASE call' = [call EXCEPT ![c].vis = obj, ![c].step = "admit"] /\ UNCHANGED <<slots, snapshotSlots>>
  <2>1. PICK r : r = [call[c] EXCEPT !.vis = obj, !.step = "admit"]
    OBVIOUS
  <2>2. obj \in [uid : 0..2, spec : 0..4]
    BY DEF IInv, TypeOK, CallsTypeOK
  <2>3. r \in CallRecords
    BY <2>1, <2>2, CallFacts DEF CallRecords, Steps
  <2>4. r.step = "admit" /\ r.answer = "none" /\ r.got = {} /\ r.held = call[c].held
        /\ r.known = call[c].known
    BY <1>1, <2>1, CallFacts DEF CallRecords
  <2>5. MayGo(c, "admit") /\ PagesOK(r, req[c])
    BY <1>1, <2>4, EmptyPages, CallFacts DEF MayGo, Steps, Place, CallOK, RouteOK
  <2>6. call' = [call EXCEPT ![c] = r]
    BY <1>4, <2>1
  <2> QED BY <1>1, <1>2, <1>4, <2>3, <2>4, <2>5, <2>6, GoesCall DEF HostSteps
<1> QED BY <1>3, <1>4 DEF Authorize

(* Goes, to a step of ServeHTTP.                                             *)
LEMMA ServesOn ==
  ASSUME IInv, NEW c \in Calls, call[c].step \in {"admit", "body", "resolve", "perform"},
         NEW s \in {"body", "resolve", "perform", "store"}, s = "store" => req[c].act = "stage",
         Goes(c, s), UNCHANGED <<staged, hostVars>>
  PROVE  CallStep(c)
<1>1. call[c].got = {} /\ call[c].answer = "none" /\ c \notin sent
  BY NothingCollected
<1>2. PICK r : r = [call[c] EXCEPT !.step = s]
  OBVIOUS
<1>3. r \in CallRecords
  BY <1>2, CallFacts DEF CallRecords, Steps
<1>4. r.step = s /\ r.answer = "none" /\ r.got = {} /\ r.held = call[c].held /\ r.known = call[c].known
  BY <1>1, <1>2, CallFacts DEF CallRecords
<1>5. MayGo(c, s) /\ PagesOK(r, req[c])
  BY <1>4, EmptyPages DEF MayGo, Steps, Place
<1>6. call' = [call EXCEPT ![c] = r] /\ UNCHANGED <<slots, snapshotSlots, sent, did, staged, host>>
  BY <1>2 DEF Goes, hostVars
<1> QED BY <1>1, <1>3, <1>4, <1>5, <1>6, GoesCall DEF HostSteps

(* AdmitSnapshot: a call that handles a snapshot takes a slot for it or is     *)
(* refused; a refusal returns the other slot too.                              *)
LEMMA AdmitSnapshotStep ==
  ASSUME IInv, NEW c \in Calls, AdmitSnapshot(c), UNCHANGED <<worldVars, storeVars, hostVars>>
  PROVE  CallStep(c)
<1>1. call[c].got = {} /\ call[c].answer = "none" /\ c \notin sent /\ call[c].step = "admit"
  BY NothingCollected DEF AdmitSnapshot
<1>2. UNCHANGED <<sent, staged, host, did>>
  BY DEF storeVars, hostVars
<1>3. CASE Goes(c, "body")
  BY <1>1, <1>2, <1>3, ServesOn
<1>4. CASE RefuseSnapshot(c)
  BY <1>1, <1>2, <1>4, RefusesCall DEF Answers, RefuseSnapshot
<1>5. CASE /\ Snapshotting(c) /\ snapshotSlots < SnapshotSlots
           /\ snapshotSlots' = snapshotSlots + 1
           /\ call' = [call EXCEPT ![c].held = TRUE, ![c].step = "body"]
           /\ UNCHANGED slots
  <2>1. PICK r : r = [call[c] EXCEPT !.held = TRUE, !.step = "body"]
    OBVIOUS
  <2>2. r \in CallRecords
    BY <2>1, CallFacts DEF CallRecords, Steps
  <2>3. r.step = "body" /\ r.answer = "none" /\ r.got = {} /\ r.held /\ r.known = call[c].known
    BY <1>1, <2>1, CallFacts DEF CallRecords
  <2>4. Place(r) = "body" /\ PagesOK(r, req[c])
    BY <2>3, EmptyPages DEF Place
  <2>5. ~call[c].held
    BY <1>1, CallFacts DEF CallOK, RouteOK
  <2>6. SlotStep(c, r) /\ slots' <= Slots /\ snapshotSlots' <= SnapshotSlots
    <3>1. call' = [call EXCEPT ![c] = r]
      BY <1>5, <2>1
    <3>2. Occupies(call[c]) = 1 /\ Occupies(r) = 1 /\ Holds(call[c]) = 0 /\ Holds(r) = 1
      BY <1>1, <2>3, <2>5 DEF Occupies, Holds
    <3>3. slots \in Nat /\ snapshotSlots \in Nat /\ slots <= Slots /\ SnapshotSlots \in Nat
      BY CallFacts
    <3>4. slots' = slots /\ snapshotSlots' = snapshotSlots + 1 /\ snapshotSlots < SnapshotSlots
      BY <1>5
    <3>5. slots' <= Slots /\ snapshotSlots' <= SnapshotSlots
      BY <3>3, <3>4
    <3>6. slots' = slots - 1 + 1 /\ snapshotSlots' = snapshotSlots - 0 + 1
      BY <3>3, <3>4
    <3> QED BY <3>1, <3>2, <3>5, <3>6 DEF SlotStep
  <2>7. CallOK(r, req[c], c \in sent', staged', host'.id, did'[c])
    BY <1>1, <1>2, <2>2, <2>3, <2>4, CallFacts
       DEF CallOK, RouteOK, SentOK, StagedOK, BoundOK, HostSteps
  <2> QED BY <2>2, <2>6, <2>7 DEF CallStep
<1> QED BY <1>3, <1>4, <1>5 DEF AdmitSnapshot

(* ReadActionRequest: the body arrives, or the call ends.                      *)
LEMMA ReadActionRequestStep ==
  ASSUME IInv, NEW c \in Calls, ReadActionRequest(c), UNCHANGED <<worldVars, storeVars, hostVars>>
  PROVE  CallStep(c)
<1>1. c \notin sent /\ call[c].step = "body"
  BY NothingCollected DEF ReadActionRequest
<1>2. UNCHANGED <<sent, staged, host, did>>
  BY DEF storeVars, hostVars
<1>3. CASE Goes(c, "resolve")
  BY <1>1, <1>2, <1>3, ServesOn
<1>4. CASE Ends(c, "invalid")
  BY <1>1, <1>2, <1>4, RefusesCall DEF Answers
<1> QED BY <1>3, <1>4 DEF ReadActionRequest

(* Resolve: the Repository is the one that was authorised, or the call ends.   *)
LEMMA ResolveStep ==
  ASSUME IInv, NEW c \in Calls, Resolve(c), UNCHANGED <<worldVars, storeVars, hostVars>>
  PROVE  CallStep(c)
<1>1. c \notin sent /\ call[c].step = "resolve"
  BY NothingCollected DEF Resolve
<1>2. UNCHANGED <<sent, staged, host, did>>
  BY DEF storeVars, hostVars
<1>3. CASE Goes(c, "perform")
  BY <1>1, <1>2, <1>3, ServesOn
<1>4. CASE Ends(c, "forbidden")
  BY <1>1, <1>2, <1>4, RefusesCall DEF Answers
<1> QED BY <1>3, <1>4 DEF Resolve

(* Deadline: the call ends with the outcome open, also when its request is     *)
(* still under way.                                                            *)
LEMMA DeadlineStep ==
  ASSUME IInv, NEW c \in Calls, Deadline(c), UNCHANGED <<worldVars, storeVars, hostVars>>
  PROVE  CallStep(c)
<1>1. UNCHANGED <<sent, staged, host, did>> /\ Ends(c, "unconfirmed") /\ call[c].step \notin {"new", "done"}
  BY DEF storeVars, hostVars, Deadline, HostSteps
<1> QED BY <1>1, RefusesCall DEF Answers

-----------------------------------------------------------------------------
(* The calls of the backend.                                                 *)

(* A call that is not reading feedback collected nothing.                    *)
LEMMA NothingYet ==
  ASSUME IInv, NEW c \in Calls, call[c].step \notin {"new", "done", "check", "wait", "checks", "reviews", "after"}
  PROVE  call[c].got = {} /\ call[c].answer = "none" /\ c \notin sent
BY CallFacts DEF CallOK, PagesOK, SentOK, Place

(* Checks, before a step that collects.                                      *)
LEMMA ChecksOn ==
  ASSUME IInv, NEW c \in Calls,
         call[c].step \notin {"new", "done", "check", "wait", "checks", "reviews", "after"},
         NEW s \in Checkable \ {"after"}, MayGo(c, s), Checks(c, s), UNCHANGED <<staged, hostVars>>
  PROVE  CallStep(c)
<1>1. call[c].got = {} /\ call[c].answer = "none" /\ c \notin sent
  BY NothingYet
<1>2. PICK r : r = [call[c] EXCEPT !.step = "check", !.next = s]
  OBVIOUS
<1>3. r \in CallRecords
  <2>1. s \in Steps /\ "check" \in Steps
    BY DEF Steps, HostSteps, Checkable
  <2> QED BY <1>2, <2>1, CallFacts DEF CallRecords
<1>4. r.step = "check" /\ r.next = s /\ r.answer = "none" /\ r.got = {} /\ r.held = call[c].held
      /\ r.known = call[c].known
  BY <1>1, <1>2, CallFacts DEF CallRecords
<1>5. PagesOK(r, req[c])
  BY <1>4, EmptyPages DEF Place, Checkable
<1>6. call' = [call EXCEPT ![c] = r] /\ UNCHANGED <<slots, snapshotSlots, sent, did, staged, host>>
  BY <1>2 DEF Checks, hostVars
<1> QED BY <1>1, <1>3, <1>4, <1>5, <1>6, GoesCall

(* Perform: each kind of request goes to its first identity check.             *)
LEMMA PerformStep ==
  ASSUME IInv, NEW c \in Calls, Perform(c), UNCHANGED <<worldVars, storeVars, hostVars>>
  PROVE  CallStep(c)
<1> DEFINE s == First[req[c].act]
<1>1. DOMAIN First = {"head", "find", "create", "update", "feedback", "comment"}
  BY DEF First
<1>2. s \in Checkable \ {"after"} /\ MayGo(c, s)
  BY <1>1 DEF Perform, First, Checkable, MayGo, Steps, HostSteps
<1>3. call[c].step = "perform" /\ Checks(c, s) /\ UNCHANGED <<staged, hostVars>>
  BY DEF Perform, storeVars
<1> HIDE DEF s
<1> QED BY <1>2, <1>3, ChecksOn

(* CheckIdentity: a call that passes knows the repository it is bound to.      *)
LEMMA CheckIdentityStep ==
  ASSUME IInv, NEW c \in Calls, CheckIdentity(c), UNCHANGED <<worldVars, storeVars, hostVars>>
  PROVE  CallStep(c)
<1>1. call[c].step = "check" /\ call[c] \in CallRecords
      /\ CallOK(call[c], req[c], c \in sent, staged, host.id, did[c])
  BY CallFacts DEF CheckIdentity
<1>2. UNCHANGED <<sent, staged, host, did>> /\ c \notin sent
  BY <1>1 DEF storeVars, hostVars, CallOK, SentOK
<1>3. CASE ~Identity(c)
  BY <1>1, <1>2, <1>3, RefusesCall DEF CheckIdentity, Answers
<1>4. CASE Identity(c)
  <2>1. PICK s : s = call[c].next
    OBVIOUS
  <2>2. PICK r : r = [call[c] EXCEPT !.step = s, !.known = "checked"]
    OBVIOUS
  <2>3. s \in Checkable /\ Place(call[c]) = s
    BY <1>1, <2>1 DEF CallOK, RouteOK, Place, Checkable
  <2>4. r \in CallRecords
    BY <1>1, <2>2, <2>3 DEF CallRecords, Steps, HostSteps, Checkable
  <2>5. r.step = s /\ r.answer = call[c].answer /\ r.got = call[c].got /\ r.held = call[c].held
        /\ r.total = call[c].total /\ r.known = "checked"
    BY <1>1, <2>2 DEF CallRecords
  <2>6. Place(r) = s
    BY <2>3, <2>5 DEF Place, Checkable
  <2>7. MayGo(c, s)
    BY <1>1, <2>3 DEF MayGo, CallOK, RouteOK, StagedOK, Checkable, Steps, HostSteps
  <2>8. PagesOK(r, req[c])
    BY <1>1, <2>3, <2>5, <2>6 DEF CallOK, PagesOK
  <2>9. call' = [call EXCEPT ![c] = r] /\ UNCHANGED <<slots, snapshotSlots>> /\ host.id = 1
    BY <1>4, <2>1, <2>2 DEF CheckIdentity, Identity
  <2> QED BY <1>1, <1>2, <2>4, <2>5, <2>7, <2>8, <2>9, GoesCall
<1> QED BY <1>3, <1>4

(* An answer that says no more than that a read was done.                    *)
LEMMA AnswersCall ==
  ASSUME IInv, NEW c \in Calls, call[c].step \notin {"new", "done", "wait"},
         NEW a \in Answers \ {"none"}, Ends(c, a),
         a = "ok" => req[c].act \notin {"feedback", "create", "update"},
         staged \subseteq staged', UNCHANGED <<sent, host>>
  PROVE  CallStep(c)
<1>1. c \notin sent
  BY CallFacts DEF CallOK, SentOK
<1>2. MayEnd(c, a)
  BY <1>1 DEF MayEnd
<1> QED BY <1>2, EndsCall

(* BranchHead: the answer of a read, or the check before a pull request is     *)
(* created.                                                                    *)
LEMMA BranchHeadStep ==
  ASSUME IInv, NEW c \in Calls, BranchHead(c), UNCHANGED <<worldVars, storeVars, hostVars>>
  PROVE  CallStep(c)
<1>1. call[c].step = "head" /\ req[c].act \in {"head", "create"}
  BY CallFacts DEF BranchHead, CallOK, RouteOK, Place
<1>2. UNCHANGED <<sent, staged, host, did>> /\ c \notin sent
  BY <1>1, CallFacts DEF storeVars, hostVars, CallOK, SentOK
<1>3. CASE req[c].act = "head"
  BY <1>1, <1>2, <1>3, AnswersCall DEF BranchHead, Answers
<1>4. CASE req[c].act # "head" /\ host.head = req[c].at
  <2>1. Checks(c, "create")
    BY <1>4 DEF BranchHead
  <2>2. MayGo(c, "create") /\ "create" \in Checkable \ {"after"}
    BY <1>1, <1>4 DEF MayGo, Checkable, Steps, HostSteps
  <2>3. UNCHANGED <<staged, hostVars>>
    BY DEF storeVars
  <2> QED BY <1>1, <2>1, <2>2, <2>3, ChecksOn
<1>5. CASE req[c].act # "head" /\ host.head # req[c].at
  BY <1>1, <1>2, <1>5, RefusesCall DEF BranchHead, Answers
<1> QED BY <1>3, <1>4, <1>5

(* FindPullRequest answers.                                                    *)
LEMMA FindPullRequestStep ==
  ASSUME IInv, NEW c \in Calls, FindPullRequest(c), UNCHANGED <<worldVars, storeVars, hostVars>>
  PROVE  CallStep(c)
<1>1. call[c].step = "find" /\ req[c].act = "find"
  BY CallFacts DEF FindPullRequest, CallOK, RouteOK, Place
<1>2. PICK a \in {"ok", "unconfirmed"} : Ends(c, a)
  BY DEF FindPullRequest
<1>3. UNCHANGED <<sent, staged, host>>
  BY DEF storeVars, hostVars
<1> QED BY <1>1, <1>2, <1>3, AnswersCall DEF Answers

(* What the invariant says of the host.                                        *)
LEMMA HostFacts ==
  ASSUME IInv
  PROVE  /\ host \in [id : 1..2, head : Commits, checks : Seq(Nat), pulls : Seq(Pulls)]
         /\ host.pulls # <<>> => host.pulls[1] \in Pulls
<1>1. host \in [id : 1..2, head : Commits, checks : Seq(Nat), pulls : Seq(Pulls)]
  BY DEF IInv, TypeOK, HostTypeOK
<1>2. ASSUME NEW s \in Seq(Pulls), s # <<>> PROVE s[1] \in Pulls
  BY <1>2, EmptySeq, LenProperties, ElementOfSeq
<1> QED BY <1>1, <1>2

(* ReadPull: the pull request has the commit that was asked for, or the call   *)
(* ends.                                                                       *)
LEMMA ReadPullStep ==
  ASSUME IInv, NEW c \in Calls, ReadPull(c), UNCHANGED <<worldVars, storeVars, hostVars>>
  PROVE  CallStep(c)
<1>1. call[c].step \in {"read", "before"} /\ req[c].act = (IF call[c].step = "read" THEN "update" ELSE "feedback")
  BY CallFacts DEF ReadPull, CallOK, RouteOK, Place
<1>2. UNCHANGED <<sent, staged, host, did>> /\ c \notin sent /\ call[c].got = {} /\ call[c].answer = "none"
  BY <1>1, NothingYet DEF storeVars, hostVars
<1>3. CASE Ends(c, "unconfirmed")
  BY <1>1, <1>2, <1>3, RefusesCall DEF Answers
<1>4. CASE Ends(c, "conflict")
  BY <1>1, <1>2, <1>4, RefusesCall DEF Answers
<1>5. CASE /\ host.pulls # <<>> /\ host.pulls[1].commit = req[c].at
           /\ call' = [call EXCEPT ![c].step = "check",
                                   ![c].next = IF req[c].act = "update" THEN "edit" ELSE "checks",
                                   ![c].pull = host.pulls[1].commit, ![c].open = host.pulls[1].open]
           /\ UNCHANGED <<slots, snapshotSlots>>
  <2>1. PICK s : s = IF req[c].act = "update" THEN "edit" ELSE "checks"
    OBVIOUS
  <2>2. PICK r : r = [call[c] EXCEPT !.step = "check", !.next = s, !.pull = host.pulls[1].commit,
                                     !.open = host.pulls[1].open]
    OBVIOUS
  <2>3. host.pulls[1].commit \in Commits /\ host.pulls[1].open \in BOOLEAN
    BY <1>5, HostFacts DEF Pulls
  <2>4. r \in CallRecords
    <3>1. s \in Steps /\ "check" \in Steps
      BY <2>1 DEF Steps, HostSteps
    <3> QED BY <2>2, <2>3, <3>1, CallFacts DEF CallRecords
  <2>5. r.step = "check" /\ r.next = s /\ r.answer = "none" /\ r.got = {} /\ r.held = call[c].held
        /\ r.known = call[c].known
    BY <1>2, <2>2, CallFacts DEF CallRecords
  <2>6. MayGo(c, s) /\ s \in Checkable /\ s # "after"
    BY <1>1, <2>1 DEF MayGo, Checkable, Steps, HostSteps
  <2>7. PagesOK(r, req[c])
    BY <2>1, <2>5, EmptyPages DEF Place
  <2>8. call' = [call EXCEPT ![c] = r]
    BY <1>5, <2>1, <2>2
  <2> QED BY <1>1, <1>2, <1>5, <2>4, <2>5, <2>6, <2>7, <2>8, GoesCall
<1> QED BY <1>3, <1>4, <1>5 DEF ReadPull

(* A page that was read adds one check to what was collected.                 *)
LEMMA OneMorePage ==
  ASSUME IInv, NEW c \in Calls, call[c].step = "checks", ~PageBreaks(c)
  PROVE  LET n == Len(host.checks)
             k == Collected(c) + 1
             got == call[c].got \cup {host.checks[k]}
         IN  /\ n \in {3, 4} /\ k \in 1..n /\ host.checks[k] \in Nat /\ call[c].got \subseteq Nat
             /\ IsFiniteSet(got) /\ got # {} /\ Cardinality(got) = k
             /\ \A id \in got : NameOf(id) \in 1..n
<1> DEFINE n == Len(host.checks)
           k == Collected(c) + 1
           id == host.checks[k]
<1>1. n \in {3, 4} /\ \A i \in 1..n : host.checks[i] >= 1 /\ NameOf(host.checks[i]) \in 1..n
  BY DEF IInv, ChecksInv
<1>2. host.checks \in Seq(Nat)
  BY HostFacts
<1>3. PagesOK(call[c], req[c]) /\ Place(call[c]) = "checks" /\ call[c].got \subseteq Nat
  BY CallFacts DEF CallOK, Place, CallRecords
<1>4. IsFiniteSet(call[c].got) /\ Collected(c) \in Nat /\ (call[c].got = {} <=> Collected(c) = 0)
  BY <1>3, FS_EmptySet, FS_CardinalityType DEF PagesOK, Collected
<1>5. call[c].got # {} => Collected(c) < n /\ \A i \in call[c].got : NameOf(i) \in 1..n
  BY <1>3 DEF PagesOK, PageBreaks, Collected
<1>6. k \in 1..n
  BY <1>1, <1>4, <1>5
<1>7. id \in Nat /\ NameOf(id) \in 1..n /\ id \notin call[c].got
  BY <1>1, <1>2, <1>6 DEF PageBreaks
<1>8. /\ IsFiniteSet(call[c].got \cup {id})
      /\ Cardinality(call[c].got \cup {id}) = k
  <2>1. Collected(c) = Cardinality(call[c].got)
    BY DEF Collected
  <2>2. ASSUME NEW got, NEW x, IsFiniteSet(got), x \notin got
        PROVE  IsFiniteSet(got \cup {x}) /\ Cardinality(got \cup {x}) = Cardinality(got) + 1
    BY <2>2, FS_AddElement
  <2> HIDE DEF id
  <2> QED BY <1>4, <1>7, <2>1, <2>2
<1>9. \A i \in call[c].got \cup {id} : NameOf(i) \in 1..n
  BY <1>5, <1>7
<1> HIDE DEF n, k, id
<1>10. /\ n \in {3, 4} /\ k \in 1..n /\ id \in Nat /\ call[c].got \subseteq Nat
       /\ IsFiniteSet(call[c].got \cup {id}) /\ call[c].got \cup {id} # {}
       /\ Cardinality(call[c].got \cup {id}) = k /\ \A i \in call[c].got \cup {id} : NameOf(i) \in 1..n
  BY <1>1, <1>3, <1>6, <1>7, <1>8, <1>9
<1> QED BY <1>10 DEF n, k, id

(* ReadChecks: a page that fits is collected; the last one completes what is   *)
(* collected.                                                                  *)
LEMMA ReadChecksStep ==
  ASSUME IInv, NEW c \in Calls, ReadChecks(c), UNCHANGED <<worldVars, storeVars, hostVars>>
  PROVE  CallStep(c)
<1>1. call[c].step = "checks" /\ req[c].act = "feedback"
  BY CallFacts DEF ReadChecks, CallOK, RouteOK, Place
<1>2. UNCHANGED <<sent, staged, host, did>> /\ c \notin sent /\ call[c].answer = "none"
  BY <1>1, CallFacts DEF storeVars, hostVars, CallOK, SentOK
<1>3. CASE PageBreaks(c)
  BY <1>1, <1>2, <1>3, RefusesCall DEF ReadChecks, Answers
<1>4. CASE ~PageBreaks(c)
  <2>1. PICK n : n = Len(host.checks)
    OBVIOUS
  <2>2. PICK k : k = Collected(c) + 1
    OBVIOUS
  <2>3. PICK got : got = call[c].got \cup {host.checks[k]}
    OBVIOUS
  <2>4. /\ n \in {3, 4} /\ k \in 1..n /\ got \subseteq Nat
        /\ IsFiniteSet(got) /\ got # {} /\ Cardinality(got) = k
        /\ \A id \in got : NameOf(id) \in 1..n
    BY <1>1, <1>4, <2>1, <2>2, <2>3, OneMorePage
  <2>5. PICK s : s = IF LastPage(c) THEN "reviews" ELSE "checks"
    OBVIOUS
  <2>6. PICK r : r = [call[c] EXCEPT !.got = got, !.total = n, !.step = s]
    OBVIOUS
  <2>7. r \in CallRecords
    <3>1. s \in Steps /\ n \in Nat
      BY <2>4, <2>5 DEF Steps, HostSteps
    <3>2. call[c] \in CallRecords
      BY CallFacts
    <3> QED BY <2>4, <2>6, <3>1, <3>2 DEF CallRecords
  <2>8. r.step = s /\ r.got = got /\ r.total = n /\ r.answer = "none" /\ r.held = call[c].held
        /\ r.known = call[c].known
    BY <1>2, <2>6, CallFacts DEF CallRecords
  <2>9. MayGo(c, s) /\ Place(r) = s
    BY <1>1, <2>5, <2>8 DEF MayGo, Steps, HostSteps, Place
  <2>10. PagesOK(r, req[c])
    <3>1. CASE s = "reviews"
      <4>1. k = n
        BY <2>1, <2>2, <2>5, <3>1 DEF LastPage
      <4>2. Complete(got)
        BY <2>4, <4>1 DEF Complete
      <4> QED BY <2>4, <2>8, <2>9, <3>1, <4>2 DEF PagesOK
    <3>2. CASE s = "checks"
      <4>1. k # n
        BY <2>1, <2>2, <2>5, <3>2 DEF LastPage
      <4>2. k < n
        BY <2>4, <4>1
      <4> QED BY <1>1, <2>4, <2>8, <2>9, <3>2, <4>2 DEF PagesOK
    <3> QED BY <2>5, <3>1, <3>2
  <2>11. call' = [call EXCEPT ![c] = r] /\ UNCHANGED <<slots, snapshotSlots>>
    BY <1>4, <2>1, <2>2, <2>3, <2>5, <2>6 DEF ReadChecks
  <2>12. r.known # "unchecked"
    BY <1>1, <2>8, CallFacts DEF CallOK, RouteOK, HostSteps
  <2> QED BY <1>1, <1>2, <2>7, <2>8, <2>9, <2>10, <2>11, <2>12, GoesCall
<1> QED BY <1>3, <1>4

(* ReadReviews goes on to the last look at the pull request with the checks    *)
(* complete.                                                                   *)
LEMMA ReadReviewsStep ==
  ASSUME IInv, NEW c \in Calls, ReadReviews(c), UNCHANGED <<worldVars, storeVars, hostVars>>
  PROVE  CallStep(c)
<1>1. call[c].step = "reviews" /\ req[c].act = "feedback" /\ PagesOK(call[c], req[c])
  BY CallFacts DEF ReadReviews, CallOK, RouteOK, Place
<1>2. UNCHANGED <<sent, staged, host, did>> /\ c \notin sent /\ call[c].answer = "none"
  BY <1>1, CallFacts DEF storeVars, hostVars, CallOK, SentOK
<1>3. PICK r : r = [call[c] EXCEPT !.step = "check", !.next = "after"]
  OBVIOUS
<1>4. r \in CallRecords
  <2>1. "check" \in Steps /\ "after" \in Steps
    BY DEF Steps, HostSteps
  <2> QED BY <1>3, <2>1, CallFacts DEF CallRecords
<1>5. r.step = "check" /\ r.next = "after" /\ r.answer = "none" /\ r.got = call[c].got
      /\ r.held = call[c].held /\ r.known = call[c].known
  BY <1>2, <1>3, CallFacts DEF CallRecords
<1>6. MayGo(c, "after") /\ "after" \in Checkable
  BY <1>1 DEF MayGo, Checkable, Steps, HostSteps
<1>7. PagesOK(r, req[c])
  BY <1>1, <1>5 DEF PagesOK, Place
<1>8. call' = [call EXCEPT ![c] = r] /\ UNCHANGED <<slots, snapshotSlots>>
  BY <1>3 DEF ReadReviews, Checks
<1> QED BY <1>1, <1>2, <1>4, <1>5, <1>6, <1>7, <1>8, GoesCall

(* ReadAfter answers feedback only when its checks are complete.               *)
LEMMA ReadAfterStep ==
  ASSUME IInv, NEW c \in Calls, ReadAfter(c), UNCHANGED <<worldVars, storeVars, hostVars>>
  PROVE  CallStep(c)
<1>1. call[c].step = "after" /\ req[c].act = "feedback" /\ PagesOK(call[c], req[c])
  BY CallFacts DEF ReadAfter, CallOK, RouteOK, Place
<1>2. UNCHANGED <<sent, staged, host, did>> /\ c \notin sent
  BY <1>1, CallFacts DEF storeVars, hostVars, CallOK, SentOK
<1>3. PICK a \in {"ok", "unconfirmed", "conflict"} : Ends(c, a)
  BY DEF ReadAfter
<1>4. Complete(call[c].got)
  BY <1>1 DEF PagesOK, Place
<1>5. MayEnd(c, a)
  BY <1>1, <1>2, <1>3, <1>4 DEF MayEnd, Answers
<1> QED BY <1>1, <1>2, <1>3, <1>5, EndsCall

(* Verify: only a sound snapshot is pushed, and only one that was staged gets  *)
(* here.                                                                       *)
LEMMA VerifyStep ==
  ASSUME IInv, NEW c \in Calls, Verify(c), UNCHANGED <<worldVars, storeVars, hostVars>>
  PROVE  CallStep(c)
<1>1. call[c].step = "verify" /\ req[c].act \in {"prepare", "publish"}
      /\ <<req[c].scope, req[c].snap>> \in staged
  BY CallFacts DEF Verify, CallOK, RouteOK, StagedOK, Place
<1>2. UNCHANGED <<sent, staged, host, did>> /\ c \notin sent /\ call[c].got = {} /\ call[c].answer = "none"
  BY <1>1, NothingYet DEF storeVars, hostVars
<1>3. CASE Ends(c, "unconfirmed")
  BY <1>1, <1>2, <1>3, RefusesCall DEF Answers
<1>4. CASE Ends(c, "ok")
  BY <1>1, <1>2, <1>4, AnswersCall DEF Answers
<1>5. CASE req[c].snap \in Sound /\ req[c].act = "publish" /\ Goes(c, "push")
  <2>1. PICK r : r = [call[c] EXCEPT !.step = "push"]
    OBVIOUS
  <2>2. r \in CallRecords
    <3>1. "push" \in Steps
      BY DEF Steps, HostSteps
    <3> QED BY <2>1, <3>1, CallFacts DEF CallRecords
  <2>3. r.step = "push" /\ r.answer = "none" /\ r.got = {} /\ r.held = call[c].held
        /\ r.known = call[c].known
    BY <1>2, <2>1, CallFacts DEF CallRecords
  <2>4. MayGo(c, "push") /\ PagesOK(r, req[c])
    BY <1>1, <1>5, <2>3, EmptyPages DEF MayGo, Steps, HostSteps, Place
  <2>5. call' = [call EXCEPT ![c] = r] /\ UNCHANGED <<slots, snapshotSlots>>
    BY <1>5, <2>1 DEF Goes
  <2>6. r.known # "unchecked"
    BY <1>1, <2>3, CallFacts DEF CallOK, RouteOK, HostSteps
  <2> QED BY <1>1, <1>2, <2>2, <2>3, <2>4, <2>5, <2>6, GoesCall
<1> QED BY <1>3, <1>4, <1>5 DEF Verify

(* The reads of the backend keep the invariant.                                *)
LEMMA ReadsStep ==
  ASSUME IInv, NEW c \in Calls, Reads(c), UNCHANGED <<worldVars, storeVars, hostVars>>
  PROVE  IInv'
<1>1. CallStep(c)
  BY PerformStep, CheckIdentityStep, BranchHeadStep, FindPullRequestStep, ReadPullStep,
     ReadChecksStep, ReadReviewsStep, ReadAfterStep, VerifyStep DEF Reads
<1> QED BY <1>1, OwnStepKept

(* The steps of ServeHTTP keep the invariant.                                  *)
LEMMA ServesStep ==
  ASSUME IInv, NEW c \in Calls, Serves(c) \/ Arrives(c)
  PROVE  IInv'
<1>1. CallStep(c) /\ UNCHANGED <<worldVars, storeVars, hostVars>>
  BY ArriveStep, AuthorizeStep, AdmitSnapshotStep, ReadActionRequestStep, ResolveStep, DeadlineStep
     DEF Serves, Arrives
<1> QED BY <1>1, OwnStepKept

-----------------------------------------------------------------------------
(* The request of a call, and the host.                                      *)

(* Send: the request of a call is under way; a push that is under way is of a  *)
(* staged and sound snapshot.                                                  *)
LEMMA SendStep ==
  ASSUME IInv, NEW c \in Calls, Send(c), UNCHANGED <<worldVars, storeVars, host, did, moves, restores, astray>>
  PROVE  IInv'
<1>1. call[c].step \in {"push", "create", "edit", "comment"} /\ call[c] \in CallRecords
      /\ CallOK(call[c], req[c], c \in sent, staged, host.id, did[c])
  BY CallFacts DEF Send
<1>2. c \notin sent /\ call[c].got = {} /\ call[c].answer = "none"
  BY <1>1, NothingYet
<1>3. UNCHANGED <<staged, host, did>> /\ sent' = sent \cup {c}
  BY DEF storeVars, Send
<1>4. PICK r : r = [call[c] EXCEPT !.step = "wait"]
  OBVIOUS
<1>5. r \in CallRecords
  <2>1. "wait" \in Steps
    BY DEF Steps, HostSteps
  <2> QED BY <1>1, <1>4, <2>1 DEF CallRecords
<1>6. r.step = "wait" /\ r.answer = "none" /\ r.got = {} /\ r.held = call[c].held
      /\ r.known = call[c].known
  BY <1>1, <1>2, <1>4 DEF CallRecords
<1>7. call' = [call EXCEPT ![c] = r] /\ UNCHANGED <<slots, snapshotSlots>>
  BY <1>4 DEF Send, Goes
<1>8. SlotStep(c, r) /\ slots' <= Slots /\ snapshotSlots' <= SnapshotSlots
  <2>1. Occupies(call[c]) = 1 /\ Occupies(r) = 1 /\ Holds(call[c]) = Holds(r) /\ Holds(r) \in {0, 1}
    BY <1>1, <1>6 DEF Occupies, Holds
  <2> QED BY <1>7, <2>1, CallFacts DEF SlotStep
<1>9. Place(r) = "wait" /\ PagesOK(r, req[c])
  BY <1>6, EmptyPages DEF Place
<1>10. CallOK(r, req[c], c \in sent', staged', host'.id, did'[c])
  <2>1. RouteOK(r, req[c]) /\ SentOK(r, c \in sent')
    <3>1. r.known # "unchecked"
      BY <1>1, <1>6 DEF CallOK, RouteOK, HostSteps
    <3> QED BY <1>6, <1>9, <3>1 DEF RouteOK, SentOK
  <2>2. StagedOK(r, req[c], c \in sent', staged')
    BY <1>1, <1>3, <1>9 DEF StagedOK, CallOK, RouteOK, Place
  <2>3. BoundOK(r, req[c], host'.id, did'[c])
    BY <1>1, <1>3, <1>6 DEF BoundOK, CallOK
  <2> QED BY <1>5, <1>9, <2>1, <2>2, <2>3 DEF CallOK
<1>11. CallStep(c)
  BY <1>5, <1>8, <1>10 DEF CallStep
<1>12. CallsTypeOK' /\ CallsInv' /\ SlotInv'
  BY <1>3, <1>11, CallStepKept
<1> QED
  BY <1>3, <1>12 DEF IInv, TypeOK, StoreTypeOK, HostTypeOK, FilesInv, ChecksInv, QuotaInv, Quota,
                     worldVars, storeVars

(* Tells: a call that still waits is answered; one that does not is left as it *)
(* is.                                                                         *)
LEMMA TellsStep ==
  ASSUME IInv, NEW c \in Calls, c \in sent, sent' = sent \ {c}, NEW a \in Answers \ {"none"}, Tells(c, a),
         a = "ok" => /\ req[c].act # "feedback"
                     /\ req[c].act \in {"create", "update"} => did'[c] = req[c].at,
         staged' = staged, host'.id = host.id
  PROVE  CallStep(c)
<1>1. CASE call[c].step = "wait"
  <2>1. MayEnd(c, a)
    BY DEF MayEnd
  <2> QED BY <1>1, <2>1, EndsCall DEF Tells
<1>2. CASE call[c].step # "wait"
  <2>1. UNCHANGED <<call, slots, snapshotSlots>>
    BY <1>2 DEF Tells, callVars
  <2>2. PICK r \in CallRecords : r = call[c]
    BY CallFacts
  <2>3. call' = [call EXCEPT ![c] = r]
    BY <2>1, <2>2, CallFacts
  <2>4. r.held => Occupies(r) = 1
    BY <2>2 DEF IInv, SlotInv, Holding, Active, Occupies
  <2>5. SlotStep(c, r) /\ slots' <= Slots /\ snapshotSlots' <= SnapshotSlots
    <3>1. Occupies(r) \in Int /\ Holds(r) \in Int
      BY DEF Occupies, Holds
    <3>2. slots \in Nat /\ snapshotSlots \in Nat /\ slots <= Slots /\ snapshotSlots <= SnapshotSlots
      BY CallFacts
    <3>3. slots' = slots - Occupies(r) + Occupies(r) /\ snapshotSlots' = snapshotSlots - Holds(r) + Holds(r)
      BY <2>1, <3>1, <3>2
    <3> QED BY <2>1, <2>2, <2>3, <2>4, <3>2, <3>3 DEF SlotStep
  <2>6. CallOK(r, req[c], c \in sent, staged, host.id, did[c])
    BY <2>2, CallFacts
  <2>7. r.answer # "ok"
    BY <2>6 DEF CallOK, SentOK
  <2>8. CallOK(r, req[c], c \in sent', staged', host'.id, did'[c])
    BY <2>6, <2>7 DEF CallOK, SentOK, StagedOK, BoundOK
  <2> QED BY <2>5, <2>8 DEF CallStep
<1> QED BY <1>1, <1>2

(* A sequence changed element by element.                                    *)
LEMMA MappedSeq ==
  ASSUME NEW S, NEW T, NEW s \in Seq(S), NEW t, t = [i \in DOMAIN s |-> t[i]],
         \A i \in DOMAIN s : t[i] \in T
  PROVE  t \in Seq(T) /\ Len(t) = Len(s)
<1>1. DOMAIN s = 1..Len(s) /\ Len(s) \in Nat
  BY LenProperties
<1>2. t \in [1..Len(s) -> T]
  BY <1>1
<1> QED BY <1>1, <1>2, LenProperties

(* A branch that moves takes the open pull requests with it and leaves the rest*)
(* of the host.                                                                *)
LEMMA AtHeadType ==
  ASSUME IInv, NEW h \in Commits
  PROVE  /\ AtHead(h) \in [id : 1..2, head : Commits, checks : Seq(Nat), pulls : Seq(Pulls)]
         /\ AtHead(h).id = host.id /\ AtHead(h).checks = host.checks /\ AtHead(h).head = h
<1>1. PICK p : p = [i \in DOMAIN host.pulls |-> IF host.pulls[i].open THEN [host.pulls[i] EXCEPT !.commit = h]
                                                ELSE host.pulls[i]]
  OBVIOUS
<1>2. host.pulls \in Seq(Pulls)
  BY HostFacts
<1>3. \A i \in DOMAIN host.pulls : p[i] \in Pulls
  <2> SUFFICES ASSUME NEW i \in DOMAIN host.pulls PROVE p[i] \in Pulls
    OBVIOUS
  <2>1. host.pulls[i] \in Pulls
    BY <1>2
  <2> QED BY <1>1, <2>1 DEF Pulls
<1>4. p \in Seq(Pulls)
  <2>1. p = [i \in DOMAIN host.pulls |-> p[i]]
    BY <1>1
  <2> QED BY <1>2, <1>3, <2>1, MappedSeq
<1>5. AtHead(h) = [host EXCEPT !.head = h, !.pulls = p]
  BY <1>1 DEF AtHead
<1> QED BY <1>4, <1>5, HostFacts

(* What a delivered request leaves of the host, whatever it was.             *)
HostKept ==
  /\ host' \in [id : 1..2, head : Commits, checks : Seq(Nat), pulls : Seq(Pulls)]
  /\ host'.id = host.id /\ host'.checks = host.checks
  /\ did' \in [Calls -> Commits] /\ moves' \in [Snaps -> Nat]

(* A request that was sent is for the repository the call checked, or for one  *)
(* that took its name since.                                                   *)
LEMMA NoneAstray ==
  ASSUME IInv, NEW c \in Calls, c \in sent, Lost(c)
  PROVE  astray' = {}
<1>1. call[c].known \in {"unchecked", "checked", "overtaken"}
  BY CallFacts DEF CallRecords
<1>2. call[c].known # "unchecked" /\ (call[c].known = "checked" => host.id = 1)
  BY CallFacts DEF CallOK, SentOK, BoundOK
<1> QED BY <1>1, <1>2 DEF IInv, Lost

(* Push keeps the call and the host in order.                                  *)
LEMMA PushStep ==
  ASSUME IInv, NEW c \in Calls, c \in sent, sent' = sent \ {c}, Push(c), staged' = staged
  PROVE  CallStep(c) /\ HostKept /\ astray' = {} /\ did' = did
<1>1. did \in [Calls -> Commits] /\ moves \in [Snaps -> Nat] /\ astray = {} /\ did' = did
      /\ req[c].act = "publish" /\ req[c].snap \in Snaps /\ req[c].snap \in Commits
  BY CallFacts DEF IInv, TypeOK, HostTypeOK, Push, Requests, Commits
<1>2. CASE UNCHANGED <<host, moves, astray>> /\ (Tells(c, "ok") \/ Tells(c, "unconfirmed"))
  <2>1. HostKept
    BY <1>1, <1>2, HostFacts DEF HostKept
  <2>2. CallStep(c)
    BY <1>1, <1>2, TellsStep DEF Answers
  <2> QED BY <1>1, <1>2, <2>1, <2>2
<1>3. CASE /\ ~UpToDate(c) /\ Leased(c) /\ host' = AtHead(req[c].snap)
           /\ moves' = [moves EXCEPT ![req[c].snap] = @ + 1]
           /\ Tells(c, "ok") /\ Lost(c)
  <2>1. moves' \in [Snaps -> Nat]
    BY <1>1, <1>3
  <2>2. HostKept
    BY <1>1, <1>3, <2>1, AtHeadType DEF HostKept
  <2>3. CallStep(c)
    BY <1>1, <1>3, <2>2, TellsStep DEF Answers, HostKept
  <2> QED BY <1>1, <1>3, <2>2, <2>3, NoneAstray
<1> QED BY <1>2, <1>3 DEF Push

(* CreatePull: the caller is told of success only when the pull request has the*)
(* commit it named.                                                            *)
LEMMA CreatePullStep ==
  ASSUME IInv, NEW c \in Calls, c \in sent, sent' = sent \ {c}, CreatePull(c), staged' = staged
  PROVE  CallStep(c) /\ HostKept /\ astray' = {} /\ \A d \in Calls : d # c => did'[d] = did[d]
<1>1. did \in [Calls -> Commits] /\ moves' = moves /\ moves \in [Snaps -> Nat] /\ astray = {}
      /\ req[c].act = "create"
  BY DEF IInv, TypeOK, HostTypeOK, CreatePull
<1>2. CASE HasOpen \/ host.head = "none"
  <2>1. HostKept /\ astray' = {} /\ did' = did
    BY <1>1, <1>2, HostFacts DEF HostKept, CreatePull
  <2>2. CallStep(c)
    BY <1>2, <2>1, TellsStep DEF Answers, CreatePull, HostKept
  <2> QED BY <2>1, <2>2
<1>3. CASE ~(HasOpen \/ host.head = "none")
  <2>1. PICK p : p = Append(host.pulls, [open |-> TRUE, commit |-> host.head])
    OBVIOUS
  <2>2. p \in Seq(Pulls)
    <3>1. [open |-> TRUE, commit |-> host.head] \in Pulls
      BY HostFacts DEF Pulls
    <3> QED BY <2>1, <3>1, HostFacts, AppendProperties
  <2>3. host' = [host EXCEPT !.pulls = p] /\ did' = [did EXCEPT ![c] = host.head]
        /\ Tells(c, IF PullMatches(c, host.head) THEN "ok" ELSE "conflict") /\ Lost(c)
    BY <1>3, <2>1 DEF CreatePull
  <2>4. HostKept
    BY <1>1, <2>2, <2>3, HostFacts DEF HostKept
  <2>5. did'[c] = host.head /\ \A d \in Calls : d # c => did'[d] = did[d]
    BY <1>1, <2>3
  <2>6. CallStep(c)
    <3>1. CASE PullMatches(c, host.head)
      <4>1. Tells(c, "ok") /\ did'[c] = req[c].at
        BY <2>3, <2>5, <3>1 DEF PullMatches
      <4> QED BY <1>1, <2>4, <4>1, TellsStep DEF Answers, HostKept
    <3>2. CASE ~PullMatches(c, host.head)
      <4>1. Tells(c, "conflict")
        BY <2>3, <3>2
      <4> QED BY <2>4, <4>1, TellsStep DEF Answers, HostKept
    <3> QED BY <3>1, <3>2
  <2> QED BY <2>3, <2>4, <2>5, <2>6, NoneAstray
<1> QED BY <1>2, <1>3

(* EditPull: the caller is told of success only when the pull request has the  *)
(* commit it named.                                                            *)
LEMMA EditPullStep ==
  ASSUME IInv, NEW c \in Calls, c \in sent, sent' = sent \ {c}, EditPull(c), staged' = staged
  PROVE  CallStep(c) /\ HostKept /\ astray' = {} /\ \A d \in Calls : d # c => did'[d] = did[d]
<1>1. did \in [Calls -> Commits] /\ moves' = moves /\ moves \in [Snaps -> Nat] /\ astray = {}
      /\ req[c].act = "update" /\ host' = host
  BY DEF IInv, TypeOK, HostTypeOK, EditPull
<1>2. CASE host.pulls = <<>>
  <2>1. HostKept /\ astray' = {} /\ did' = did
    BY <1>1, <1>2, HostFacts DEF HostKept, EditPull
  <2>2. CallStep(c)
    BY <1>2, <2>1, TellsStep DEF Answers, EditPull, HostKept
  <2> QED BY <2>1, <2>2
<1>3. CASE host.pulls # <<>>
  <2>1. PICK h : h = host.pulls[1].commit
    OBVIOUS
  <2>2. h \in Commits
    BY <1>3, <2>1, HostFacts DEF Pulls
  <2>3. did' = [did EXCEPT ![c] = h] /\ Tells(c, IF PullMatches(c, h) THEN "ok" ELSE "conflict") /\ Lost(c)
    BY <1>3, <2>1 DEF EditPull
  <2>4. HostKept
    BY <1>1, <2>2, <2>3, HostFacts DEF HostKept
  <2>5. did'[c] = h /\ \A d \in Calls : d # c => did'[d] = did[d]
    BY <1>1, <2>3
  <2>6. CallStep(c)
    <3>1. CASE PullMatches(c, h)
      <4>1. Tells(c, "ok") /\ did'[c] = req[c].at
        BY <2>3, <2>5, <3>1 DEF PullMatches
      <4> QED BY <1>1, <2>4, <4>1, TellsStep DEF Answers, HostKept
    <3>2. CASE ~PullMatches(c, h)
      <4>1. Tells(c, "conflict")
        BY <2>3, <3>2
      <4> QED BY <2>4, <4>1, TellsStep DEF Answers, HostKept
    <3> QED BY <3>1, <3>2
  <2> QED BY <2>3, <2>4, <2>5, <2>6, NoneAstray
<1> QED BY <1>2, <1>3

(* AddComment keeps the call and the host in order.                            *)
LEMMA AddCommentStep ==
  ASSUME IInv, NEW c \in Calls, c \in sent, sent' = sent \ {c}, AddComment(c), staged' = staged
  PROVE  CallStep(c) /\ HostKept /\ astray' = {} /\ did' = did
<1>1. did \in [Calls -> Commits] /\ moves \in [Snaps -> Nat] /\ req[c].act = "comment"
      /\ UNCHANGED <<host, did, moves>> /\ Tells(c, "ok") /\ Lost(c)
  BY DEF IInv, TypeOK, HostTypeOK, AddComment
<1>2. HostKept
  BY <1>1, HostFacts DEF HostKept
<1>3. CallStep(c)
  BY <1>1, TellsStep DEF Answers
<1> QED BY <1>1, <1>2, <1>3, NoneAstray

(* A request that the host gets keeps the invariant, also one whose call has   *)
(* ended.                                                                      *)
LEMMA DeliverStep ==
  ASSUME IInv, NEW c \in Calls, Delivers(c)
  PROVE  IInv'
<1>1. c \in sent /\ sent' = sent \ {c} /\ UNCHANGED <<worldVars, files, staged, restores>>
  BY DEF Delivers, Deliver, storeVars
<1>2. CallStep(c) /\ HostKept /\ astray' = {} /\ \A d \in Calls : d # c => did'[d] = did[d]
  BY <1>1, PushStep, CreatePullStep, EditPullStep, AddCommentStep DEF Delivers, Deliver
<1>3. CallsTypeOK' /\ CallsInv' /\ SlotInv'
  BY <1>1, <1>2, CallStepKept DEF HostKept
<1>4. HostTypeOK'
  BY <1>1, <1>2 DEF HostTypeOK, HostKept, IInv, TypeOK
<1> QED
  BY <1>1, <1>2, <1>3, <1>4 DEF IInv, TypeOK, StoreTypeOK, FilesInv, ChecksInv, QuotaInv, Quota, HostKept,
                                worldVars

-----------------------------------------------------------------------------
(* What nobody answers for: losses, crashes, others and the tenant.          *)

(* A lost request keeps the invariant.                                         *)
LEMMA DropStep ==
  ASSUME IInv, NEW c \in Calls, Drop(c)
  PROVE  IInv'
<1>1. sent' = sent \ {c} /\ events' \in Nat
      /\ UNCHANGED <<req, kinds, callVars, obj, storeVars, host, did, moves, restores, astray>>
  BY DEF Drop, Event, IInv, TypeOK, CallsTypeOK
<1>2. CallsInv'
  <2> SUFFICES ASSUME NEW d \in Calls
               PROVE  CallOK(call[d], req[d], d \in sent', staged, host.id, did[d])
    BY <1>1 DEF CallsInv, callVars, storeVars
  <2>1. CallOK(call[d], req[d], d \in sent, staged, host.id, did[d])
    BY CallFacts
  <2> QED BY <1>1, <2>1 DEF CallOK, SentOK, StagedOK
<1>3. SlotInv'
  BY <1>1 DEF IInv, SlotInv, Active, Holding, callVars
<1> QED
  BY <1>1, <1>2, <1>3 DEF IInv, TypeOK, CallsTypeOK, StoreTypeOK, HostTypeOK, FilesInv, ChecksInv, QuotaInv,
                          Quota, callVars, storeVars

(* A crash ends every call and returns every slot.                             *)
LEMMA CrashStep ==
  ASSUME IInv, Crash
  PROVE  IInv'
<1>1. /\ events' \in Nat /\ slots' = 0 /\ snapshotSlots' = 0
      /\ UNCHANGED <<req, kinds, obj, files, staged, host, sent, did, moves, restores, astray>>
  <2>1. Event("crash") /\ slots' = 0 /\ snapshotSlots' = 0 /\ UNCHANGED <<obj, storeVars, hostVars>>
    BY DEF Crash
  <2>2. events \in Nat
    BY DEF IInv, TypeOK, CallsTypeOK
  <2> QED BY <2>1, <2>2 DEF Event, storeVars, hostVars
<1>2. ASSUME NEW c \in Calls
      PROVE  /\ call'[c] \in CallRecords /\ call'[c].step \in {"new", "done"} /\ ~call'[c].held
             /\ CallOK(call'[c], req[c], c \in sent, staged, host.id, did[c])
  <2>1. CallOK(call[c], req[c], c \in sent, staged, host.id, did[c]) /\ call[c] \in CallRecords
    BY CallFacts
  <2>2. CASE call[c].step \in {"new", "done"}
    <3>1. call'[c] = call[c]
      BY <2>2 DEF Crash
    <3>2. ~call[c].held
      BY <2>1, <2>2 DEF IInv, SlotInv, Holding, Active
    <3> QED BY <2>1, <2>2, <3>1, <3>2
  <2>3. CASE call[c].step \notin {"new", "done"}
    <3>1. PICK r : r = [NewCall EXCEPT !.step = "done", !.known = call[c].known]
      OBVIOUS
    <3>2. call'[c] = r
      BY <2>3, <3>1 DEF Crash
    <3>3. r.step = "done" /\ r.answer = "none" /\ r.got = {} /\ ~r.held /\ r.known = call[c].known
      BY <3>1 DEF NewCall
    <3>4. r \in CallRecords
      <4>1. "done" \in Steps
        BY DEF Steps
      <4> QED BY <2>1, <3>1, <4>1, NewCallOK DEF CallRecords
    <3>5. Place(r) = "done" /\ PagesOK(r, req[c])
      BY <3>3, EmptyPages DEF Place
    <3>6. CallOK(r, req[c], c \in sent, staged, host.id, did[c])
      BY <2>1, <3>3, <3>4, <3>5 DEF CallOK, RouteOK, SentOK, StagedOK, BoundOK, HostSteps
    <3> QED BY <3>2, <3>3, <3>4, <3>6
  <2> QED BY <2>2, <2>3
<1>3. call' \in [Calls -> CallRecords]
  <2>1. call' = [c \in Calls |-> call'[c]]
    BY DEF Crash
  <2> QED BY <1>2, <2>1
<1>4. CallsInv'
  BY <1>1, <1>2 DEF CallsInv
<1>5. SlotInv'
  <2>1. Active' = {} /\ Holding' = {}
    BY <1>2 DEF Active, Holding
  <2> QED BY <1>1, <2>1, FS_EmptySet DEF SlotInv
<1>6. CallsTypeOK'
  BY <1>1, <1>3, ActionCallsAssumption DEF CallsTypeOK, IInv, TypeOK
<1> QED
  BY <1>1, <1>4, <1>5, <1>6 DEF IInv, TypeOK, StoreTypeOK, HostTypeOK, FilesInv, ChecksInv, QuotaInv, Quota

(* The host changed by others; the calls and the files as they were.           *)
LEMMA HostMoved ==
  ASSUME IInv, host' \in [id : 1..2, head : Commits, checks : Seq(Nat), pulls : Seq(Pulls)],
         host'.id = host.id, ChecksInv', restores' \in Nat, events' \in Nat,
         UNCHANGED <<req, kinds, callVars, obj, storeVars, sent, did, moves, astray>>
  PROVE  IInv'
<1>1. CallsInv'
  BY DEF IInv, CallsInv, callVars, storeVars
<1>2. SlotInv'
  BY DEF IInv, SlotInv, Active, Holding, callVars
<1> QED
  BY <1>1, <1>2 DEF IInv, TypeOK, CallsTypeOK, StoreTypeOK, HostTypeOK, FilesInv, QuotaInv, Quota,
                    callVars, storeVars

(* Closing the pull requests leaves the checks and the repository.             *)
LEMMA ClosePullType ==
  ASSUME IInv, ClosePull
  PROVE  /\ host' \in [id : 1..2, head : Commits, checks : Seq(Nat), pulls : Seq(Pulls)]
         /\ host'.id = host.id /\ host'.checks = host.checks
<1>1. PICK p : p = [i \in DOMAIN host.pulls |-> [host.pulls[i] EXCEPT !.open = FALSE]]
  OBVIOUS
<1>2. host.pulls \in Seq(Pulls)
  BY HostFacts
<1>3. \A i \in DOMAIN host.pulls : p[i] \in Pulls
  <2> SUFFICES ASSUME NEW i \in DOMAIN host.pulls PROVE p[i] \in Pulls
    OBVIOUS
  <2>1. host.pulls[i] \in Pulls
    BY <1>2
  <2> QED BY <1>1, <2>1 DEF Pulls
<1>4. p \in Seq(Pulls)
  <2>1. p = [i \in DOMAIN host.pulls |-> p[i]]
    BY <1>1
  <2> QED BY <1>2, <1>3, <2>1, MappedSeq
<1>5. host' = [host EXCEPT !.pulls = p]
  BY <1>1 DEF ClosePull
<1> QED BY <1>4, <1>5, HostFacts

(* A check that is run again keeps its name, and none is lost.               *)
LEMMA RerunName ==
  ASSUME NEW x \in Nat, x >= 1
  PROVE  NameOf(x + 4) = NameOf(x)
BY DEF NameOf

(* A check that runs again moves to the front with its name; the listing keeps *)
(* its length.                                                                 *)
LEMMA RerunStep ==
  ASSUME IInv, NEW i \in DOMAIN host.checks, Rerun(i)
  PROVE  /\ host' \in [id : 1..2, head : Commits, checks : Seq(Nat), pulls : Seq(Pulls)]
         /\ host'.id = host.id /\ ChecksInv'
<1>1. PICK s : s = host.checks
  OBVIOUS
<1>2. PICK n : n = Len(s)
  OBVIOUS
<1>3. PICK t : t = Renewed(s, i)
  OBVIOUS
<1>4. s \in Seq(Nat) /\ DOMAIN s = 1..n /\ n \in {3, 4}
  BY <1>1, <1>2, HostFacts, LenProperties DEF IInv, ChecksInv
<1>5. \A k \in 1..n : s[k] \in Nat /\ s[k] >= 1 /\ NameOf(s[k]) \in 1..n
  BY <1>1, <1>2, <1>4 DEF IInv, ChecksInv
<1>6. ASSUME NEW k \in 1..n
      PROVE  t[k] \in Nat /\ t[k] >= 1 /\ NameOf(t[k]) \in 1..n
  <2>1. t[k] = IF k = 1 THEN s[i] + 4 ELSE IF k <= i THEN s[k - 1] ELSE s[k]
    BY <1>3, <1>4 DEF Renewed
  <2>2. CASE k = 1
    <3>1. i \in 1..n
      BY <1>1, <1>4
    <3>2. t[k] = s[i] + 4 /\ s[i] \in Nat /\ s[i] >= 1 /\ NameOf(s[i]) \in 1..n
      BY <1>5, <2>1, <2>2, <3>1
    <3>3. NameOf(s[i] + 4) = NameOf(s[i])
      BY <3>2, RerunName
    <3> QED BY <3>2, <3>3
  <2>3. CASE k # 1 /\ k <= i
    <3>1. t[k] = s[k - 1] /\ k - 1 \in 1..n
      BY <1>4, <2>1, <2>3
    <3> QED BY <1>5, <3>1
  <2>4. CASE k # 1 /\ ~(k <= i)
    BY <1>5, <2>1, <2>4
  <2> QED BY <2>2, <2>3, <2>4
<1>7. t \in Seq(Nat) /\ Len(t) = n
  <2>1. t = [k \in DOMAIN s |-> t[k]]
    BY <1>3 DEF Renewed
  <2> QED BY <1>2, <1>4, <1>6, <2>1, MappedSeq
<1>8. host' = [host EXCEPT !.checks = t]
  BY <1>1, <1>3 DEF Rerun
<1>9. host'.checks = t /\ host'.id = host.id
      /\ host' \in [id : 1..2, head : Commits, checks : Seq(Nat), pulls : Seq(Pulls)]
  BY <1>7, <1>8, HostFacts
<1> QED BY <1>4, <1>6, <1>7, <1>9 DEF ChecksInv

(* A fourth check is listed before the three there were.                       *)
LEMMA AddCheckStep ==
  ASSUME IInv, AddCheck
  PROVE  /\ host' \in [id : 1..2, head : Commits, checks : Seq(Nat), pulls : Seq(Pulls)]
         /\ host'.id = host.id /\ ChecksInv'
<1>1. PICK s : s = host.checks
  OBVIOUS
<1>2. PICK t : t = <<4>> \o s
  OBVIOUS
<1>3. s \in Seq(Nat) /\ Len(s) = 3 /\ \A k \in 1..3 : s[k] \in Nat /\ s[k] >= 1 /\ NameOf(s[k]) \in 1..3
  BY <1>1, HostFacts DEF IInv, ChecksInv, AddCheck
<1>4. t \in Seq(Nat) /\ Len(t) = 4 /\ t[1] = 4 /\ \A k \in 2..4 : t[k] = s[k - 1]
  <2>1. PICK u : u = <<4>>
    OBVIOUS
  <2>2. u \in Seq(Nat) /\ Len(u) = 1 /\ u[1] = 4
    BY <2>1
  <2>3. t = u \o s
    BY <1>2, <2>1
  <2>4. /\ u \o s \in Seq(Nat) /\ Len(u \o s) = Len(u) + Len(s)
        /\ \A k \in 1..Len(u) + Len(s) : (u \o s)[k] = IF k <= Len(u) THEN u[k] ELSE s[k - Len(u)]
    BY <1>3, <2>2, ConcatProperties
  <2>5. t \in Seq(Nat) /\ Len(t) = 4
    BY <1>3, <2>2, <2>3, <2>4
  <2>6. ASSUME NEW k \in 1..4 PROVE t[k] = IF k <= 1 THEN u[k] ELSE s[k - 1]
    <3>1. Len(u) = 1 /\ k \in 1..Len(u) + Len(s)
      BY <1>3, <2>2
    <3>2. (u \o s)[k] = IF k <= Len(u) THEN u[k] ELSE s[k - Len(u)]
      BY <2>4, <3>1
    <3> QED BY <2>3, <3>1, <3>2
  <2> QED BY <2>2, <2>5, <2>6
<1>5. \A k \in 1..4 : t[k] >= 1 /\ NameOf(t[k]) \in 1..4
  <2>1. NameOf(4) = 4
    BY DEF NameOf
  <2>2. ASSUME NEW k \in 2..4 PROVE t[k] >= 1 /\ NameOf(t[k]) \in 1..4
    <3>1. t[k] = s[k - 1] /\ k - 1 \in 1..3
      BY <1>4
    <3>2. s[k - 1] >= 1 /\ NameOf(s[k - 1]) \in 1..3
      BY <1>3, <3>1
    <3> QED BY <3>1, <3>2
  <2>3. \A k \in 1..4 : k = 1 \/ k \in 2..4
    OBVIOUS
  <2> QED BY <1>4, <2>1, <2>2, <2>3
<1>6. host' = [host EXCEPT !.checks = t]
  BY <1>1, <1>2 DEF AddCheck
<1>7. host'.checks = t /\ host'.id = host.id
      /\ host' \in [id : 1..2, head : Commits, checks : Seq(Nat), pulls : Seq(Pulls)]
  BY <1>4, <1>6, HostFacts
<1> QED BY <1>4, <1>5, <1>7 DEF ChecksInv

(* A repository that is replaced overtakes the calls that checked it.          *)
LEMMA ReplaceStep ==
  ASSUME IInv, Event("replace"), Replace, UNCHANGED <<slots, snapshotSlots, restores>>,
         UNCHANGED <<obj, storeVars, sent, did, moves, astray>>
  PROVE  IInv'
<1>1. events' \in Nat /\ UNCHANGED <<req, kinds>>
  BY DEF Event, IInv, TypeOK, CallsTypeOK
<1>2. PICK p : p = <<>> /\ host' = [host EXCEPT !.id = 2, !.pulls = p]
  BY DEF Replace
<1>3. p \in Seq(Pulls)
  BY <1>2, EmptySeq
<1>4. host'.checks = host.checks
      /\ host' \in [id : 1..2, head : Commits, checks : Seq(Nat), pulls : Seq(Pulls)]
  <2>1. PICK k : k = 2 /\ host' = [host EXCEPT !.id = k, !.pulls = p]
    BY <1>2
  <2>2. k \in 1..2
    BY <2>1
  <2>3. host' = [host EXCEPT !.id = k, !.pulls = p]
    BY <2>1
  <2> QED BY <1>3, <2>2, <2>3, HostFacts
<1>5. ASSUME NEW c \in Calls
      PROVE  /\ call'[c] \in CallRecords /\ call'[c].step = call[c].step /\ call'[c].held = call[c].held
             /\ CallOK(call'[c], req[c], c \in sent, staged, host'.id, did[c])
  <2>1. CallOK(call[c], req[c], c \in sent, staged, host.id, did[c]) /\ call[c] \in CallRecords
    BY CallFacts
  <2>2. PICK r : r = call'[c]
    OBVIOUS
  <2>3. PICK k : k = IF call[c].known = "checked" THEN "overtaken" ELSE call[c].known
    OBVIOUS
  <2>4. r = [call[c] EXCEPT !.known = k] /\ r \in CallRecords
    <3>1. r = [call[c] EXCEPT !.known = k]
      BY <2>2, <2>3 DEF Replace
    <3> QED BY <2>1, <2>3, <3>1 DEF CallRecords
  <2>5. r.step = call[c].step /\ r.next = call[c].next /\ r.held = call[c].held /\ r.known = k
        /\ r.got = call[c].got /\ r.total = call[c].total /\ r.answer = call[c].answer
    BY <2>1, <2>4 DEF CallRecords
  <2>6. Place(r) = Place(call[c])
    BY <2>5 DEF Place
  <2>7. RouteOK(r, req[c]) /\ SentOK(r, c \in sent) /\ StagedOK(r, req[c], c \in sent, staged)
    BY <2>1, <2>3, <2>5, <2>6 DEF CallOK, RouteOK, SentOK, StagedOK
  <2>8. PagesOK(r, req[c]) /\ BoundOK(r, req[c], host'.id, did[c])
    BY <2>1, <2>3, <2>5, <2>6 DEF CallOK, PagesOK, BoundOK
  <2> QED BY <2>2, <2>4, <2>5, <2>7, <2>8 DEF CallOK
<1>6. call' \in [Calls -> CallRecords]
  <2>1. call' = [c \in Calls |-> call'[c]]
    BY DEF Replace
  <2> QED BY <1>5, <2>1
<1>7. CallsInv'
  BY <1>1, <1>5 DEF CallsInv, storeVars
<1>8. SlotInv'
  <2>1. Active' = Active /\ Holding' = Holding
    BY <1>5 DEF Active, Holding
  <2> QED BY <2>1 DEF IInv, SlotInv
<1>9. ChecksInv'
  BY <1>4 DEF IInv, ChecksInv
<1> QED
  BY <1>1, <1>4, <1>6, <1>7, <1>8, <1>9 DEF IInv, TypeOK, CallsTypeOK, StoreTypeOK, HostTypeOK, FilesInv,
                                        QuotaInv, Quota, storeVars

(* What others do to the host keeps the invariant.                             *)
LEMMA OthersStep ==
  ASSUME IInv, OthersAct
  PROVE  IInv'
<1>1. UNCHANGED <<obj, storeVars, sent, did, moves, astray>> /\ events \in Nat /\ restores \in Nat
  BY DEF OthersAct, IInv, TypeOK, CallsTypeOK, HostTypeOK
<1>2. ASSUME NEW h \in {"none", "base", "other"}, Event("branch"), MoveBranch(h), UNCHANGED callVars
      PROVE  IInv'
  <2>1. events' \in Nat /\ restores' \in Nat /\ UNCHANGED <<req, kinds>>
    BY <1>1, <1>2 DEF Event, MoveBranch
  <2>2. h \in Commits /\ host' = AtHead(h)
    BY <1>2 DEF Commits, MoveBranch
  <2>3. host' \in [id : 1..2, head : Commits, checks : Seq(Nat), pulls : Seq(Pulls)]
        /\ host'.id = host.id /\ host'.checks = host.checks
    BY <2>2, AtHeadType
  <2>4. ChecksInv'
    BY <2>3 DEF IInv, ChecksInv
  <2> QED BY <1>1, <1>2, <2>1, <2>3, <2>4, HostMoved
<1>3. ASSUME Event("pull"), ClosePull, UNCHANGED <<callVars, restores>>
      PROVE  IInv'
  <2>1. events' \in Nat /\ UNCHANGED <<req, kinds>>
    BY <1>1, <1>3 DEF Event
  <2>2. ChecksInv'
    BY <1>3, ClosePullType DEF IInv, ChecksInv
  <2> QED BY <1>1, <1>3, <2>1, <2>2, ClosePullType, HostMoved
<1>4. ASSUME Event("checks"), AddCheck \/ \E i \in DOMAIN host.checks : Rerun(i),
             UNCHANGED <<callVars, restores>>
      PROVE  IInv'
  <2>1. events' \in Nat /\ UNCHANGED <<req, kinds>>
    BY <1>1, <1>4 DEF Event
  <2>2. host' \in [id : 1..2, head : Commits, checks : Seq(Nat), pulls : Seq(Pulls)]
        /\ host'.id = host.id /\ ChecksInv'
    BY <1>4, AddCheckStep, RerunStep
  <2> QED BY <1>1, <1>4, <2>1, <2>2, HostMoved
<1>5. ASSUME Event("replace"), Replace, UNCHANGED <<slots, snapshotSlots, restores>>
      PROVE  IInv'
  BY <1>1, <1>5, ReplaceStep
<1> QED BY <1>2, <1>3, <1>4, <1>5 DEF OthersAct

(* What the tenant does to the Repository keeps the invariant.                 *)
LEMMA TenantStep ==
  ASSUME IInv, TenantActs
  PROVE  IInv'
<1>1. UNCHANGED <<callVars, storeVars, hostVars>> /\ obj \in [uid : 0..2, spec : 1..4] /\ events \in Nat
  BY DEF TenantActs, IInv, TypeOK, CallsTypeOK
<1>2. events' \in Nat /\ UNCHANGED <<req, kinds>>
  BY <1>1 DEF TenantActs, EditObject, RecreateObject, Event
<1>3. obj' \in [uid : 0..2, spec : 1..4]
  BY <1>1 DEF TenantActs, EditObject, RecreateObject
<1>4. CallsInv' /\ SlotInv'
  BY <1>1, <1>2 DEF IInv, CallsInv, SlotInv, Active, Holding, callVars, storeVars, hostVars
<1> QED
  BY <1>1, <1>2, <1>3, <1>4 DEF IInv, TypeOK, CallsTypeOK, StoreTypeOK, HostTypeOK, FilesInv, ChecksInv,
                                QuotaInv, Quota, callVars, storeVars, hostVars

-----------------------------------------------------------------------------
(* The staged snapshots.                                                     *)

Weight(fs) == [f \in fs |-> Size[f.snap]]

(* The bytes of a set of files are a sum over it.                              *)
LEMMA BytesIsSum == \A fs : Bytes(fs) = SumOver(Weight(fs), fs)
BY DEF Bytes, SumOver, Weight

(* Fewer files have no more bytes.                                             *)
LEMMA BytesOfSubset ==
  ASSUME NEW S \in SUBSET Files, IsFiniteSet(S), NEW T \in SUBSET S
  PROVE  /\ IsFiniteSet(T) /\ Bytes(T) \in Nat /\ Bytes(S) \in Nat /\ Bytes(T) <= Bytes(S)
         /\ Cardinality(T) \in Nat /\ Cardinality(S) \in Nat /\ Cardinality(T) <= Cardinality(S)
<1>1. \A f \in S : f.snap \in Snaps /\ Size[f.snap] \in Nat
  BY SnapshotStoreAssumption DEF Files
<1>2. \A f \in S : Weight(S)[f] \in Nat
  BY <1>1 DEF Weight
<1>3. IsFiniteSet(T) /\ Cardinality(T) \in Nat /\ Cardinality(S) \in Nat /\ Cardinality(T) <= Cardinality(S)
  BY FS_Subset, FS_CardinalityType
<1>4. SumOver(Weight(T), T) = SumOver(Weight(S), T)
  <2>1. \A f \in T : Weight(T)[f] = Weight(S)[f]
    BY DEF Weight
  <2> QED BY <1>3, <2>1, SumSame
<1>5. SumOver(Weight(S), T) \in Nat /\ SumOver(Weight(S), S) \in Nat
      /\ SumOver(Weight(S), T) <= SumOver(Weight(S), S)
  BY <1>2, SumSubset
<1> QED BY <1>3, <1>4, <1>5, BytesIsSum

(* One more file adds its size at most.                                        *)
LEMMA BytesOfOneMore ==
  ASSUME NEW S \in SUBSET Files, IsFiniteSet(S), NEW x \in Files
  PROVE  /\ IsFiniteSet(S \cup {x}) /\ Cardinality(S \cup {x}) <= Cardinality(S) + 1
         /\ Bytes(S \cup {x}) <= Bytes(S) + Size[x.snap]
<1>0. x.snap \in Snaps /\ Size[x.snap] \in Nat /\ Bytes(S) \in Nat /\ Cardinality(S) \in Nat
  BY SnapshotStoreAssumption, BytesOfSubset DEF Files
<1>1. CASE x \in S
  <2>1. S \cup {x} = S
    BY <1>1
  <2>2. /\ IsFiniteSet(S) /\ Cardinality(S) <= Cardinality(S) + 1
        /\ Bytes(S) <= Bytes(S) + Size[x.snap]
    BY <1>0
  <2> QED BY <2>1, <2>2
<1>2. CASE x \notin S
  <2>1. PICK T : T = S \cup {x}
    OBVIOUS
  <2>2. IsFiniteSet(T) /\ Cardinality(T) = Cardinality(S) + 1
    BY <1>2, <2>1, FS_AddElement
  <2>3. \A f \in T : Weight(T)[f] \in Int
    <3>1. \A f \in T : f.snap \in Snaps /\ Size[f.snap] \in Int
      BY <2>1, SnapshotStoreAssumption DEF Files
    <3> QED BY <3>1 DEF Weight
  <2>4. T \ {x} = S /\ x \in T
    BY <1>2, <2>1
  <2>5. SumOver(Weight(T), T) = Weight(T)[x] + SumOver(Weight(T), S)
    BY <2>2, <2>3, <2>4, SumRemove
  <2>6. SumOver(Weight(T), S) = SumOver(Weight(S), S)
    <3>1. \A f \in S : Weight(T)[f] = Weight(S)[f]
      BY <2>1 DEF Weight
    <3> QED BY <3>1, SumSame
  <2>7. Weight(T)[x] = Size[x.snap]
    BY <2>4 DEF Weight
  <2>8. Bytes(T) = Size[x.snap] + Bytes(S)
    BY <2>5, <2>6, <2>7, BytesIsSum
  <2> QED BY <1>0, <2>1, <2>2, <2>8
<1> QED BY <1>1, <1>2

(* Files that change their name or age, and may coincide then, are no more and *)
(* have no more bytes.                                                         *)
LEMMA BytesOfImage ==
  ASSUME NEW S \in SUBSET Files, IsFiniteSet(S), NEW h \in [S -> Files], \A f \in S : h[f].snap = f.snap,
         NEW image, image = {h[f] : f \in S}
  PROVE  /\ IsFiniteSet(image) /\ Cardinality(image) <= Cardinality(S) /\ Bytes(image) <= Bytes(S)
         /\ image \subseteq Files
<1>1. \A f \in S : Weight(S)[f] \in Nat /\ Weight(image)[h[f]] = Weight(S)[f]
  <2> SUFFICES ASSUME NEW f \in S PROVE Weight(S)[f] \in Nat /\ Weight(image)[h[f]] = Weight(S)[f]
    OBVIOUS
  <2>1. f.snap \in Snaps /\ Size[f.snap] \in Nat
    BY SnapshotStoreAssumption DEF Files
  <2>2. h[f] \in image
    OBVIOUS
  <2>3. Weight(S)[f] = Size[f.snap]
    BY DEF Weight
  <2>4. Weight(image)[h[f]] = Size[h[f].snap]
    BY <2>2 DEF Weight
  <2> QED BY <2>1, <2>3, <2>4
<1>2. /\ IsFiniteSet(image) /\ Cardinality(image) <= Cardinality(S)
      /\ SumOver(Weight(image), image) <= SumOver(Weight(S), S)
  <2>1. Carries(h, Weight(S), Weight(image), S) /\ image = ImageOf(h, S)
    BY <1>1 DEF Carries, ImageOf
  <2>2. IsFiniteSet(ImageOf(h, S))
    BY <2>1, SumImage
  <2>3. Cardinality(ImageOf(h, S)) <= Cardinality(S)
    BY <2>1, SumImage
  <2>4. SumOver(Weight(image), ImageOf(h, S)) <= SumOver(Weight(S), S)
    BY <2>1, SumImage
  <2> QED BY <2>1, <2>2, <2>3, <2>4
<1>3. image \subseteq Files
  OBVIOUS
<1> QED BY <1>2, <1>3, BytesIsSum

(* What the invariant says of the files.                                       *)
LEMMA StoreFacts ==
  ASSUME IInv
  PROVE  /\ files \in SUBSET Files /\ IsFiniteSet(files) /\ staged \in SUBSET (Scopes \X Snaps)
         /\ Cardinality(files) <= MaxCount /\ Bytes(files) <= MaxBytes
         /\ MaxCount \in Nat /\ MaxBytes \in Nat /\ TTL \in Nat
         /\ Cardinality(files) \in Nat /\ Bytes(files) \in Nat
<1>1. files \in SUBSET Files /\ IsFiniteSet(files)
  BY DEF IInv, TypeOK, StoreTypeOK, QuotaInv
<1>2. Cardinality(files) \in Nat /\ Bytes(files) \in Nat
  BY <1>1, BytesOfSubset
<1> QED
  BY <1>1, <1>2, SnapshotStoreAssumption DEF IInv, TypeOK, StoreTypeOK, QuotaInv, Quota

(* What a step of a call and of the store together keeps.                     *)
LEMMA StoreStepKept ==
  ASSUME IInv, NEW c \in Calls, CallStep(c), UNCHANGED <<worldVars, hostVars>>,
         files' \subseteq Files, staged \subseteq staged', staged' \subseteq Scopes \X Snaps,
         FilesInv', QuotaInv'
  PROVE  IInv'
<1>1. CallsTypeOK' /\ CallsInv' /\ SlotInv'
  BY CallStepKept DEF hostVars
<1> QED
  BY <1>1 DEF IInv, TypeOK, StoreTypeOK, HostTypeOK, ChecksInv, worldVars, hostVars

(* Fewer files.                                                              *)
LEMMA FewerFiles ==
  ASSUME IInv, files' \subseteq files, staged \subseteq staged', req' = req
  PROVE  files' \subseteq Files /\ FilesInv' /\ QuotaInv'
<1>1. /\ IsFiniteSet(files') /\ Bytes(files') \in Nat /\ Bytes(files') <= Bytes(files)
      /\ Cardinality(files') \in Nat /\ Cardinality(files') <= Cardinality(files)
  BY StoreFacts, BytesOfSubset
<1>2. Cardinality(files') <= MaxCount /\ Bytes(files') <= MaxBytes
  BY <1>1, StoreFacts
<1>3. files' \subseteq Files
  BY StoreFacts
<1>4. FilesInv'
  BY DEF IInv, FilesInv
<1> QED BY <1>1, <1>2, <1>3, <1>4 DEF QuotaInv, Quota

(* Stage: the new file is written only when the files that are kept leave room *)
(* for it.                                                                     *)
LEMMA StageStep ==
  ASSUME IInv, NEW c \in Calls, Stage(c), UNCHANGED <<worldVars, hostVars>>
  PROVE  IInv'
<1>1. call[c].step = "perform" /\ req[c].act = "stage" /\ staged' = staged /\ UNCHANGED <<sent, host, req>>
  BY DEF Stage, hostVars, worldVars
<1>2. staged' \subseteq Scopes \X Snaps
  BY <1>1, StoreFacts
<1>3. ASSUME files' = Kept, Ends(c, "ok") \/ Ends(c, "unconfirmed")
      PROVE  IInv'
  <2>1. CallStep(c)
    BY <1>1, <1>3, AnswersCall DEF Answers
  <2>2. files' \subseteq Files /\ FilesInv' /\ QuotaInv'
    BY <1>1, <1>3, FewerFiles DEF Kept
  <2> QED BY <1>1, <1>2, <2>1, <2>2, StoreStepKept
<1>4. ASSUME ~Full(c), Goes(c, "store"),
             files' = Kept \cup {[scope |-> ScopeOf(c), snap |-> req[c].snap, name |-> c, age |-> 0]}
      PROVE  IInv'
  <2>1. CallStep(c)
    BY <1>1, <1>4, ServesOn
  <2>2. PICK x : x = [scope |-> ScopeOf(c), snap |-> req[c].snap, name |-> c, age |-> 0]
    OBVIOUS
  <2>3. x \in Files /\ x.snap = req[c].snap /\ x.scope = req[c].scope /\ x.name = c /\ c # "final"
    <3>1. req[c].scope \in Scopes /\ req[c].snap \in Snaps /\ 0 \in 0..TTL + 1
      BY CallFacts, StoreFacts DEF Requests
    <3> QED BY <2>2, <3>1, ActionCallsAssumption DEF Files, ScopeOf
  <2>4. Kept \in SUBSET Files /\ IsFiniteSet(Kept) /\ Bytes(Kept) \in Nat /\ Cardinality(Kept) \in Nat
    <3>1. Kept \in SUBSET files
      BY DEF Kept
    <3> QED BY <3>1, StoreFacts, BytesOfSubset
  <2>5. ~(Cardinality(Kept) >= MaxCount) /\ ~(Bytes(Kept) + Size[x.snap] > MaxBytes)
    BY <1>4, <2>3 DEF Full
  <2>6. files' = Kept \cup {x}
    BY <1>4, <2>2
  <2>7. /\ IsFiniteSet(files') /\ Cardinality(files') <= Cardinality(Kept) + 1
        /\ Bytes(files') <= Bytes(Kept) + Size[x.snap]
    BY <2>3, <2>4, <2>6, BytesOfOneMore
  <2>8. files' \in SUBSET Files
    BY <2>3, <2>4, <2>6
  <2>9. Bytes(files') \in Nat /\ Cardinality(files') \in Nat /\ Size[x.snap] \in Nat
    BY <2>3, <2>7, <2>8, BytesOfSubset, SnapshotStoreAssumption DEF Files
  <2>10. Cardinality(files') <= MaxCount /\ Bytes(files') <= MaxBytes
    BY <2>4, <2>5, <2>7, <2>9, StoreFacts
  <2>11. FilesInv'
    <3> SUFFICES ASSUME NEW f \in files'
                 PROVE  IF f.name = "final" THEN <<f.scope, f.snap>> \in staged
                        ELSE f.scope = req[f.name].scope /\ f.snap = req[f.name].snap
      BY <1>1 DEF FilesInv
    <3>1. CASE f = x
      BY <2>3, <3>1
    <3>2. CASE f \in files
      BY <3>2 DEF IInv, FilesInv
    <3> QED BY <2>6, <3>1, <3>2 DEF Kept
  <2>12. QuotaInv'
    BY <2>7, <2>10 DEF QuotaInv, Quota
  <2> QED BY <1>1, <1>2, <2>1, <2>8, <2>11, <2>12, StoreStepKept
<1> QED BY <1>3, <1>4 DEF Stage

(* Rename: the file gets its final name; what it replaces counts once.         *)
LEMMA RenameStep ==
  ASSUME IInv, NEW c \in Calls, Rename(c), UNCHANGED <<worldVars, hostVars>>
  PROVE  IInv'
<1>1. call[c].step = "store" /\ req[c].act = "stage" /\ staged' = staged \cup {<<req[c].scope, req[c].snap>>}
      /\ UNCHANGED <<sent, host, req>> /\ Ends(c, "ok")
  BY CallFacts DEF Rename, hostVars, worldVars, CallOK, RouteOK, Place
<1>2. staged \subseteq staged' /\ staged' \subseteq Scopes \X Snaps
  BY <1>1, StoreFacts, CallFacts DEF Requests
<1>3. CallStep(c)
  BY <1>1, <1>2, AnswersCall DEF Answers
<1>4. PICK h : h = [f \in files |-> IF f.name = c THEN [f EXCEPT !.name = "final"] ELSE f]
  OBVIOUS
<1>5. ASSUME NEW f \in files
      PROVE  /\ h[f] \in Files /\ h[f].snap = f.snap /\ h[f].scope = f.scope
             /\ h[f].name = (IF f.name = c THEN "final" ELSE f.name)
  <2>1. f \in Files
    BY StoreFacts
  <2>2. CASE f.name = c
    <3>1. h[f] = [f EXCEPT !.name = "final"]
      BY <1>4, <2>2
    <3> QED BY <2>1, <2>2, <3>1 DEF Files
  <2>3. CASE f.name # c
    BY <1>4, <2>1, <2>3
  <2> QED BY <2>2, <2>3
<1>6. files' = {h[f] : f \in files}
  <2>1. files' = (files \ Temp(c)) \cup {[f EXCEPT !.name = "final"] : f \in Temp(c)}
    BY DEF Rename
  <2>2. \A f \in files : h[f] = IF f.name = c THEN [f EXCEPT !.name = "final"] ELSE f
    BY <1>4
  <2>3. ASSUME NEW g \in files' PROVE \E f \in files : g = h[f]
    BY <2>1, <2>2 DEF Temp
  <2>4. ASSUME NEW f \in files PROVE h[f] \in files'
    BY <2>1, <2>2 DEF Temp
  <2> QED BY <2>3, <2>4
<1>7. h \in [files -> Files]
  BY <1>4, <1>5
<1>8. /\ IsFiniteSet(files') /\ Cardinality(files') <= Cardinality(files) /\ Bytes(files') <= Bytes(files)
      /\ files' \subseteq Files
  BY <1>5, <1>6, <1>7, StoreFacts, BytesOfImage
<1>9. QuotaInv'
  <2>1. Cardinality(files') \in Nat /\ Bytes(files') \in Nat
    BY <1>8, BytesOfSubset
  <2>2. Cardinality(files') <= MaxCount
    BY <1>8, <2>1, StoreFacts
  <2>3. Bytes(files') <= MaxBytes
    BY <1>8, <2>1, StoreFacts
  <2> QED BY <1>8, <2>2, <2>3 DEF QuotaInv, Quota
<1>10. FilesInv'
  <2> SUFFICES ASSUME NEW g \in files'
               PROVE  IF g.name = "final" THEN <<g.scope, g.snap>> \in staged'
                      ELSE g.scope = req[g.name].scope /\ g.snap = req[g.name].snap
    BY <1>1 DEF FilesInv
  <2>1. PICK f \in files : g = h[f]
    BY <1>6
  <2>2. /\ g.snap = f.snap /\ g.scope = f.scope
        /\ g.name = (IF f.name = c THEN "final" ELSE f.name)
    BY <1>5, <2>1
  <2>3. IF f.name = "final" THEN <<f.scope, f.snap>> \in staged
        ELSE f.scope = req[f.name].scope /\ f.snap = req[f.name].snap
    BY DEF IInv, FilesInv
  <2>4. c # "final"
    BY ActionCallsAssumption
  <2> QED BY <1>1, <1>2, <2>2, <2>3, <2>4
<1> QED BY <1>2, <1>3, <1>8, <1>9, <1>10, StoreStepKept

(* StoreFails removes the temporary file.                                      *)
LEMMA StoreFailsStep ==
  ASSUME IInv, NEW c \in Calls, StoreFails(c), UNCHANGED <<worldVars, hostVars>>
  PROVE  IInv'
<1>1. call[c].step = "store" /\ staged' = staged /\ UNCHANGED <<sent, host, req>> /\ Ends(c, "unconfirmed")
      /\ files' \subseteq files
  BY DEF StoreFails, hostVars, worldVars
<1>2. CallStep(c)
  BY <1>1, AnswersCall DEF Answers
<1>3. staged' \subseteq Scopes \X Snaps
  BY <1>1, StoreFacts
<1> QED BY <1>1, <1>2, <1>3, FewerFiles, StoreStepKept

(* Load: a call that finds its file loads what its caller staged.              *)
LEMMA LoadStep ==
  ASSUME IInv, NEW c \in Calls, Load(c), UNCHANGED <<worldVars, hostVars>>
  PROVE  IInv'
<1>1. call[c].step = "perform" /\ req[c].act \in {"prepare", "publish"}
      /\ UNCHANGED <<files, staged, sent, host, did, worldVars, storeVars, hostVars>>
  BY DEF Load, hostVars, storeVars
<1>2. c \notin sent /\ call[c].got = {} /\ call[c].answer = "none"
  BY <1>1, NothingYet
<1>3. CASE \E f \in Final(c) : ~Expired(f)
  <2>1. PICK f \in Final(c) : ~Expired(f)
    BY <1>3
  <2>2. <<req[c].scope, req[c].snap>> \in staged
    BY <2>1 DEF Final, ScopeOf, IInv, FilesInv
  <2>3. MayGo(c, "verify") /\ "verify" \in Checkable \ {"after"}
    BY <1>1, <2>2 DEF MayGo, Checkable, Steps, HostSteps
  <2>4. Checks(c, "verify")
    BY <1>3 DEF Load, Checks
  <2>5. CallStep(c)
    BY <1>1, <2>3, <2>4, ChecksOn
  <2> QED BY <1>1, <2>5, OwnStepKept
<1>4. CASE ~\E f \in Final(c) : ~Expired(f)
  <2>1. CallStep(c)
    BY <1>1, <1>2, <1>4, RefusesCall DEF Load, Answers
  <2> QED BY <1>1, <2>1, OwnStepKept
<1> QED BY <1>3, <1>4

(* Files age and stay as many.                                                 *)
LEMMA TickStep ==
  ASSUME IInv, TimePasses
  PROVE  IInv'
<1>1. staged' = staged /\ UNCHANGED <<callVars, worldVars, hostVars>>
  BY DEF TimePasses, Tick
<1>2. PICK h : h = [f \in files |-> [f EXCEPT !.age = IF @ > TTL THEN @ ELSE @ + 1]]
  OBVIOUS
<1>3. ASSUME NEW f \in files
      PROVE  h[f] \in Files /\ h[f].snap = f.snap /\ h[f].scope = f.scope /\ h[f].name = f.name
  <2>1. f \in Files /\ TTL \in Nat
    BY StoreFacts
  <2>2. PICK a : a = IF f.age > TTL THEN f.age ELSE f.age + 1
    OBVIOUS
  <2>3. a \in 0..TTL + 1
    BY <2>1, <2>2 DEF Files
  <2>4. h[f] = [f EXCEPT !.age = a]
    BY <1>2, <2>2
  <2> QED BY <2>1, <2>3, <2>4 DEF Files
<1>4. files' = {h[f] : f \in files}
  BY <1>2 DEF TimePasses, Tick
<1>5. h \in [files -> Files]
  BY <1>2, <1>3
<1>6. /\ IsFiniteSet(files') /\ Cardinality(files') <= Cardinality(files) /\ Bytes(files') <= Bytes(files)
      /\ files' \subseteq Files
  BY <1>3, <1>4, <1>5, StoreFacts, BytesOfImage
<1>7. QuotaInv'
  <2>1. Cardinality(files') \in Nat /\ Bytes(files') \in Nat
    BY <1>6, BytesOfSubset
  <2>2. Cardinality(files') <= MaxCount
    BY <1>6, <2>1, StoreFacts
  <2>3. Bytes(files') <= MaxBytes
    BY <1>6, <2>1, StoreFacts
  <2> QED BY <1>6, <2>2, <2>3 DEF QuotaInv, Quota
<1>8. FilesInv'
  <2> SUFFICES ASSUME NEW g \in files'
               PROVE  IF g.name = "final" THEN <<g.scope, g.snap>> \in staged
                      ELSE g.scope = req[g.name].scope /\ g.snap = req[g.name].snap
    BY <1>1 DEF FilesInv, worldVars
  <2>1. PICK f \in files : g = h[f]
    BY <1>4
  <2> QED BY <1>3, <2>1 DEF IInv, FilesInv
<1>9. CallsInv' /\ SlotInv'
  BY <1>1 DEF IInv, CallsInv, SlotInv, Active, Holding, callVars, worldVars, hostVars
<1> QED
  BY <1>1, <1>6, <1>7, <1>8, <1>9 DEF IInv, TypeOK, CallsTypeOK, StoreTypeOK, HostTypeOK, ChecksInv,
                                      callVars, worldVars, hostVars

-----------------------------------------------------------------------------
(* The invariant, and what follows from it.                                  *)

(* The invariant holds in every scenario at the start.                         *)
LEMMA InitKept ==
  ASSUME Init
  PROVE  IInv
<1>1. PICK s \in Scenarios : req = s.requests /\ events = s.events /\ kinds = s.kinds /\ HostInit(s.pulls)
  BY DEF Init
<1>2. s.pulls \in Nat /\ s.requests \in [Calls -> Requests] /\ s.events \in Nat /\ s.kinds \subseteq EventKinds
  BY ActionCallsAssumption
<1>3. call = [c \in Calls |-> NewCall] /\ slots = 0 /\ snapshotSlots = 0 /\ obj = [uid |-> 1, spec |-> 1]
      /\ files = {} /\ staged = {}
  BY DEF Init, CallsInit, StoreInit
<1>4. CallsTypeOK
  <2>1. call \in [Calls -> CallRecords]
    BY <1>3, NewCallOK
  <2>2. obj \in [uid : 0..2, spec : 1..4]
    BY <1>3
  <2>3. slots \in 0..Slots /\ snapshotSlots \in 0..SnapshotSlots
    BY <1>3, ActionCallsAssumption
  <2> QED BY <1>1, <1>2, <2>1, <2>2, <2>3 DEF CallsTypeOK
<1>5. PICK p : p = [i \in 1..s.pulls |-> [open |-> TRUE, commit |-> "base"]]
  OBVIOUS
<1>6. PICK k : k = <<1, 2, 3>>
  OBVIOUS
<1>7. host = [id |-> 1, head |-> "base", checks |-> k, pulls |-> p]
      /\ sent = {} /\ astray = {} /\ restores = 0 /\ did = [c \in Calls |-> "none"] /\ moves = [t \in Snaps |-> 0]
  BY <1>1, <1>5, <1>6 DEF HostInit
<1>8. k \in Seq(Nat) /\ Len(k) = 3 /\ \A i \in 1..3 : k[i] = i
  BY <1>6
<1>9. p \in Seq(Pulls)
  <2>1. [open |-> TRUE, commit |-> "base"] \in Pulls
    BY DEF Pulls, Commits
  <2>2. p \in [1..s.pulls -> Pulls]
    BY <1>5, <2>1
  <2> QED BY <1>2, <2>2, SeqDef
<1>10. HostTypeOK
  <2>1. "base" \in Commits /\ "none" \in Commits
    BY DEF Commits
  <2>2. did \in [Calls -> Commits] /\ moves \in [Snaps -> Nat] /\ restores \in Nat
    BY <1>7, <2>1
  <2>3. host \in [id : 1..2, head : Commits, checks : Seq(Nat), pulls : Seq(Pulls)]
    BY <1>7, <1>8, <1>9, <2>1
  <2> QED BY <1>7, <2>2, <2>3 DEF HostTypeOK
<1>11. CallsInv
  <2> SUFFICES ASSUME NEW c \in Calls
               PROVE  CallOK(NewCall, req[c], c \in sent, staged, host.id, did[c])
    BY <1>3 DEF CallsInv
  <2>1. NewCall.step = "new" /\ NewCall.got = {} /\ NewCall.answer = "none" /\ ~NewCall.held /\ NewCall.known = "unchecked"
    BY DEF NewCall
  <2>2. Place(NewCall) = "new" /\ PagesOK(NewCall, req[c])
    BY <2>1, EmptyPages DEF Place
  <2>3. c \notin sent
    BY <1>7
  <2> QED
    BY <2>1, <2>2, <2>3, NewCallOK DEF CallOK, RouteOK, SentOK, StagedOK, BoundOK, HostSteps
<1>12. SlotInv
  <2>1. \A c \in Calls : call[c].step = "new" /\ ~call[c].held
    BY <1>3 DEF NewCall
  <2>2. Active = {} /\ Holding = {}
    BY <2>1 DEF Active, Holding
  <2> QED BY <1>3, <2>2, FS_EmptySet DEF SlotInv
<1>13. ChecksInv
  <2>1. NameOf(1) = 1 /\ NameOf(2) = 2 /\ NameOf(3) = 3
    BY DEF NameOf
  <2>2. host.checks = k
    BY <1>7
  <2>3. \A i \in 1..3 : k[i] >= 1 /\ NameOf(k[i]) \in 1..3
    BY <1>8, <2>1
  <2> QED BY <1>8, <2>2, <2>3 DEF ChecksInv
<1>14. QuotaInv /\ FilesInv /\ StoreTypeOK
  <2>1. Bytes({}) = 0
    BY BytesIsSum, SumEmpty
  <2> QED BY <1>3, <2>1, FS_EmptySet, SnapshotStoreAssumption DEF QuotaInv, Quota, FilesInv, StoreTypeOK
<1> QED BY <1>4, <1>7, <1>10, <1>11, <1>12, <1>13, <1>14 DEF IInv, TypeOK

(* A step that changes nothing keeps the invariant.                            *)
LEMMA StutterKept ==
  ASSUME IInv, UNCHANGED vars
  PROVE  IInv'
<1>1. UNCHANGED <<req, call, slots, snapshotSlots, obj, events, kinds, files, staged, host, sent, did,
                  moves, restores, astray>>
  BY DEF vars, callVars, worldVars, storeVars, hostVars
<1>2. CallsInv' /\ SlotInv'
  BY <1>1 DEF IInv, CallsInv, SlotInv, Active, Holding
<1> QED
  BY <1>1, <1>2 DEF IInv, TypeOK, CallsTypeOK, StoreTypeOK, HostTypeOK, FilesInv, ChecksInv, QuotaInv, Quota

(* Every step keeps the invariant.                                             *)
LEMMA NextKept ==
  ASSUME IInv, Next
  PROVE  IInv'
<1>1. ASSUME NEW c \in Calls, Arrives(c) \/ Works(c) \/ Delivers(c) \/ Drop(c)
      PROVE  IInv'
  <2>1. CASE Arrives(c) \/ Serves(c)
    BY <2>1, ServesStep
  <2>2. CASE Stores(c)
    BY <2>2, StageStep, RenameStep, StoreFailsStep, LoadStep DEF Stores
  <2>3. CASE Collaborates(c)
    BY <2>3, ReadsStep, SendStep DEF Collaborates
  <2>4. CASE Delivers(c) \/ Drop(c)
    BY <2>4, DeliverStep, DropStep
  <2> QED BY <1>1, <2>1, <2>2, <2>3, <2>4 DEF Works
<1> QED BY <1>1, CrashStep, OthersStep, TenantStep, TickStep DEF Next

(* IInv is an invariant of the Actions server, for every set of calls, every   *)
(* scenario and every limit.                                                   *)
THEOREM Invariance == Spec => []IInv
<1>1. Init => IInv
  BY InitKept
<1>2. IInv /\ [Next]_vars => IInv'
  BY NextKept, StutterKept
<1> QED BY <1>1, <1>2, PTL DEF Spec

(* Every variable keeps its type; the slots in use never exceed those of the   *)
(* process (actions/server.go, the two slot channels).                         *)
THEOREM TypeCorrect == Spec => []TypeOK
<1>1. IInv => TypeOK
  BY DEF IInv
<1> QED BY <1>1, Invariance, PTL

(* Quota for every tenant limit: however many calls stage, fail, expire or     *)
(* crash in whatever order, the files of the tenant stay within their number   *)
(* and their bytes (actions/snapshots.go, stage).                              *)
THEOREM WithinQuota == Spec => []Quota
<1>1. IInv => Quota
  BY DEF IInv, QuotaInv
<1> QED BY <1>1, Invariance, PTL

(* ActsAsBound: no call that knows the repository changes another one, and a   *)
(* caller told that its pull request was created or updated has one with the   *)
(* commit it named (backend/github/collaboration.go).                          *)
THEOREM Bound == Spec => []ActsAsBound
<1>1. IInv => ActsAsBound
  BY DEF IInv, CallsInv, CallOK, BoundOK, ActsAsBound, Told
<1> QED BY <1>1, Invariance, PTL

(* As many names as checks, and no name twice: no name is missing.           *)
LEMMA NamesComplete ==
  ASSUME NEW got, Complete(got), IsFiniteSet(got), ~TwoRunsOfOne(got)
  PROVE  {1, 2, 3} \subseteq {NameOf(id) : id \in got}
<1>1. PICK n \in {3, 4} : n = Cardinality(got)
  BY DEF Complete
<1>2. PICK f : f = [id \in got |-> NameOf(id)]
  OBVIOUS
<1>3. \A id \in got : f[id] = NameOf(id) /\ f[id] \in 1..n
  BY <1>1, <1>2 DEF Complete
<1>4. f \in [got -> 1..n]
  BY <1>2, <1>3
<1>5. \A i, j \in got : i # j => f[i] # f[j]
  BY <1>3 DEF TwoRunsOfOne
<1>6. f \in Injection(got, 1..n)
  BY <1>4, <1>5 DEF Injection, IsInjective
<1>7. IsFiniteSet(1..n) /\ Cardinality(1..n) = n
  BY FS_Interval
<1>8. f \in Surjection(got, 1..n)
  BY <1>1, <1>6, <1>7, FS_Injection
<1>9. \A k \in 1..n : \E id \in got : f[id] = k
  BY <1>8 DEF Surjection
<1> QED BY <1>3, <1>9

(* FeedbackComplete: feedback that is answered lacks no check there was, or    *)
(* shows two runs of one, for any number of checks run again between its pages *)
(* (backend/github/collaboration.go, PullRequestFeedback).                     *)
THEOREM Feedback == Spec => []FeedbackComplete
<1>1. ASSUME IInv PROVE FeedbackComplete
  <2> SUFFICES ASSUME NEW c \in Calls, Told(c, {"feedback"}), ~TwoRunsOfOne(call[c].got)
               PROVE  {1, 2, 3} \subseteq {NameOf(id) : id \in call[c].got}
    BY DEF FeedbackComplete
  <2>1. PagesOK(call[c], req[c])
    BY <1>1, CallFacts DEF CallOK
  <2>2. IsFiniteSet(call[c].got) /\ Complete(call[c].got)
    BY <2>1 DEF PagesOK, Told
  <2> QED BY <2>2, NamesComplete
<1> QED BY <1>1, Invariance, PTL

-----------------------------------------------------------------------------
(* The branch.                                                               *)

Published(c) ==
  /\ c \in sent \ sent' /\ req[c].act = "publish" /\ req[c].snap \in Snaps
  /\ host.head = req[c].at /\ host.head # req[c].snap /\ host'.head = req[c].snap
  /\ moves' = [moves EXCEPT ![req[c].snap] = @ + 1] /\ restores' = restores
MovedByOthers(h) ==
  /\ host'.head = h /\ moves' = moves
  /\ restores' = IF h = "other" THEN restores ELSE restores + 1
BranchKept == host'.head = host.head /\ moves' = moves /\ restores' = restores

(* Of what a call asks of the host only a push moves the branch.               *)
LEMMA DeliverOnBranch ==
  ASSUME IInv, NEW c \in Calls, Delivers(c)
  PROVE  BranchKept \/ Published(c)
<1>1. c \in sent /\ sent' = sent \ {c} /\ restores' = restores
  BY DEF Delivers, Deliver
<1>2. CASE Push(c)
  <2>1. CASE UNCHANGED <<host, moves>>
    BY <1>1, <2>1 DEF BranchKept
  <2>2. CASE ~UpToDate(c) /\ Leased(c) /\ host' = AtHead(req[c].snap)
             /\ moves' = [moves EXCEPT ![req[c].snap] = @ + 1]
    <3>1. req[c].snap \in Snaps /\ req[c].snap \in Commits /\ req[c].act = "publish"
      BY <1>2, CallFacts DEF Requests, Commits, Push
    <3>2. host'.head = req[c].snap
      BY <2>2, <3>1, AtHeadType
    <3> QED BY <1>1, <2>2, <3>1, <3>2 DEF Published, UpToDate, Leased
  <2> QED BY <1>2, <2>1, <2>2 DEF Push
<1>3. CASE CreatePull(c)
  <2>1. moves' = moves /\ (host' = host \/ \E p : host' = [host EXCEPT !.pulls = p])
    BY <1>3 DEF CreatePull
  <2>2. host'.head = host.head
    BY <2>1, HostFacts
  <2> QED BY <1>1, <2>1, <2>2 DEF BranchKept
<1>4. CASE EditPull(c) \/ AddComment(c)
  BY <1>1, <1>4 DEF BranchKept, EditPull, AddComment
<1> QED BY <1>2, <1>3, <1>4 DEF Delivers, Deliver

(* Others put the branch at its base, delete it or move it on; the rest of what*)
(* they do leaves it.                                                          *)
LEMMA OthersOnBranch ==
  ASSUME IInv, OthersAct
  PROVE  BranchKept \/ \E h \in {"none", "base", "other"} : MovedByOthers(h)
<1>1. moves' = moves
  BY DEF OthersAct
<1>2. ASSUME NEW h \in {"none", "base", "other"}, MoveBranch(h)
      PROVE  MovedByOthers(h)
  <2>1. host'.head = h
    BY <1>2, AtHeadType DEF MoveBranch, Commits
  <2> QED BY <1>1, <1>2, <2>1 DEF MoveBranch, MovedByOthers
<1>3. ASSUME ClosePull \/ AddCheck \/ (\E i \in DOMAIN host.checks : Rerun(i)) \/ Replace, restores' = restores
      PROVE  BranchKept
  <2>1. \/ \E p : host' = [host EXCEPT !.pulls = p]
        \/ \E k : host' = [host EXCEPT !.checks = k]
        \/ \E p : host' = [host EXCEPT !.id = 2, !.pulls = p]
    BY <1>3 DEF ClosePull, AddCheck, Rerun, Replace
  <2>2. host'.head = host.head
    BY <2>1, HostFacts
  <2> QED BY <1>1, <1>3, <2>2 DEF BranchKept
<1> QED BY <1>2, <1>3 DEF OthersAct

(* How a step may move the branch.                                             *)
LEMMA OnBranch ==
  ASSUME IInv, [Next]_vars
  PROVE  /\ req' = req
         /\ \/ BranchKept
            \/ \E c \in Calls : Published(c)
            \/ \E h \in {"none", "base", "other"} : MovedByOthers(h)
<1>1. ASSUME NEW c \in Calls, Arrives(c) \/ Works(c) \/ Drop(c) PROVE req' = req /\ BranchKept
  <2>1. CASE Arrives(c) \/ Serves(c)
    BY <2>1 DEF Arrives, Serves, worldVars, hostVars, BranchKept
  <2>2. CASE Stores(c)
    BY <2>2 DEF Stores, worldVars, hostVars, BranchKept
  <2>3. CASE Collaborates(c)
    BY <2>3 DEF Collaborates, worldVars, hostVars, BranchKept
  <2>4. CASE Drop(c)
    BY <2>4 DEF Drop, Event, BranchKept
  <2> QED BY <1>1, <2>1, <2>2, <2>3, <2>4 DEF Works
<1>2. ASSUME NEW c \in Calls, Delivers(c) PROVE req' = req /\ (BranchKept \/ Published(c))
  BY <1>2, DeliverOnBranch DEF Delivers, worldVars
<1>3. CASE Crash
  BY <1>3 DEF Crash, Event, hostVars, BranchKept
<1>4. CASE OthersAct
  <2>1. req' = req
    BY <1>4 DEF OthersAct, Event
  <2> QED BY <1>4, <2>1, OthersOnBranch
<1>5. CASE TenantActs
  BY <1>5 DEF TenantActs, EditObject, RecreateObject, Event, hostVars, BranchKept
<1>6. CASE TimePasses \/ UNCHANGED vars
  BY <1>6 DEF TimePasses, vars, worldVars, hostVars, BranchKept
<1> QED BY <1>1, <1>2, <1>3, <1>4, <1>5, <1>6 DEF Next

(* PublishesStaged: the branch gets a snapshot only by a delivered push of a   *)
(* caller who staged it under the same token, and only a sound one             *)
(* (actions/snapshots.go, backend/github/snapshot.go).                         *)
THEOREM Publishes == Spec => PublishesStaged
<1> DEFINE A == \A s \in Snaps : host'.head = s /\ host.head # s =>
                  /\ s \in Sound
                  /\ \E c \in sent \ sent' : req[c].snap = s /\ <<req[c].scope, s>> \in staged
<1>1. ASSUME IInv, [Next]_vars PROVE A
  <2> SUFFICES ASSUME NEW s \in Snaps, host'.head = s, host.head # s
               PROVE  /\ s \in Sound
                      /\ \E c \in sent \ sent' : req[c].snap = s /\ <<req[c].scope, s>> \in staged
    OBVIOUS
  <2>1. s \notin {"none", "base", "other"}
    BY ActionCallsAssumption
  <2>2. PICK c \in Calls : Published(c)
    BY <1>1, <2>1, OnBranch DEF BranchKept, MovedByOthers
  <2>3. StagedOK(call[c], req[c], c \in sent, staged)
    BY <1>1, CallFacts DEF CallOK
  <2>4. req[c].snap = s /\ c \in sent \ sent' /\ req[c].act = "publish"
    BY <2>2 DEF Published
  <2> QED BY <2>3, <2>4 DEF StagedOK
<1>2. IInv /\ [Next]_vars => [A]_vars
  BY <1>1
<1>3. Spec => [][A]_vars
  <2> HIDE DEF A
  <2> QED BY <1>2, Invariance, PTL DEF Spec
<1> QED BY <1>3 DEF PublishesStaged

(* The account of the branch: a publication lands on a base that nothing landed*)
(* on since others put it there.                                               *)
LEMMA LandKept ==
  ASSUME IInv, [Next]_vars, FromBase, LandInv
  PROVE  FromBase' /\ LandInv'
<1>1. req' = req
  BY OnBranch
<1>2. moves \in [Snaps -> Nat] /\ restores \in Nat
  BY DEF IInv, TypeOK, HostTypeOK
<1>3. ASSUME BranchKept PROVE LandInv'
  <2>1. host'.head = host.head /\ moves' = moves /\ restores' = restores
    BY <1>3 DEF BranchKept
  <2> SUFFICES ASSUME NEW s \in Snaps
               PROVE  moves[s] + (IF host.head \in {"none", "base"} THEN 1 ELSE 0) <= 1 + restores
    BY <2>1 DEF LandInv
  <2> QED BY DEF LandInv
<1>4. ASSUME NEW c \in Calls, Published(c) PROVE LandInv'
  <2>1. host.head \in {"none", "base"} /\ host'.head \notin {"none", "base"}
    BY <1>4, ActionCallsAssumption DEF Published, FromBase
  <2> SUFFICES ASSUME NEW s \in Snaps PROVE moves'[s] <= 1 + restores
    BY <1>2, <1>4, <2>1 DEF LandInv, Published
  <2>2. moves[s] + 1 <= 1 + restores
    BY <2>1 DEF LandInv
  <2>3. moves'[s] \in {moves[s], moves[s] + 1}
    BY <1>2, <1>4 DEF Published
  <2> QED BY <1>2, <2>2, <2>3
<1>5. ASSUME NEW h \in {"none", "base", "other"}, MovedByOthers(h) PROVE LandInv'
  <2> SUFFICES ASSUME NEW s \in Snaps
               PROVE  moves[s] + (IF h \in {"none", "base"} THEN 1 ELSE 0) <= 1 + restores'
    BY <1>5 DEF LandInv, MovedByOthers
  <2>1. moves[s] <= 1 + restores /\ moves[s] \in Nat
    BY <1>2 DEF LandInv
  <2> QED BY <1>2, <1>5, <2>1 DEF MovedByOthers
<1>6. LandInv'
  BY <1>3, <1>4, <1>5, OnBranch
<1> QED BY <1>1, <1>6 DEF FromBase

(* LandsOnce, for publications that expect the branch as it was before any     *)
(* (none, or the base): a snapshot lands once, and once more for each time     *)
(* others put the branch back. A publication that expects another snapshot     *)
(* could land each time that one does.                                         *)
THEOREM Lands == Spec /\ FromBase => []LandsOnce
<1>1. Init => LandInv
  <2> SUFFICES ASSUME Init PROVE LandInv
    OBVIOUS
  <2>1. PICK n : HostInit(n)
    BY DEF Init
  <2>2. host.head = "base" /\ moves = [s \in Snaps |-> 0] /\ restores = 0
    BY <2>1 DEF HostInit
  <2> QED BY <2>2 DEF LandInv
<1>2. IInv /\ [Next]_vars /\ FromBase /\ LandInv => FromBase' /\ LandInv'
  BY LandKept
<1>3. IInv /\ LandInv => LandsOnce
  <2> SUFFICES ASSUME IInv, LandInv, NEW s \in Snaps PROVE moves[s] <= 1 + restores
    BY DEF LandsOnce
  <2>1. moves[s] \in Nat /\ restores \in Nat
    BY DEF IInv, TypeOK, HostTypeOK
  <2>2. moves[s] + (IF host.head \in {"none", "base"} THEN 1 ELSE 0) <= 1 + restores
    BY DEF LandInv
  <2> QED BY <2>1, <2>2
<1> QED BY <1>1, <1>2, <1>3, Invariance, PTL DEF Spec
=============================================================================
