------------------------- MODULE RequestCacheProofs -------------------------
(***************************************************************************)
(* Theorems about RequestCache, for any number of callers, identities, listings   *)
(* and states, any limits and any answers of the host.                       *)
(***************************************************************************)
EXTENDS RequestCache, FiniteSums

(* What a caller has at each step: a reservation from the moment it entered acquire *)
(* until it left; a flight of its own while it fetches and publishes; another's   *)
(* flight only after it joined.                                              *)
ShapeInv ==
  \A c \in Callers :
    /\ ref[c] # None <=> pc[c] \in {"wait", "hold", "http"}
    /\ home[c] # None => pc[c] \notin {"idle", "joined"} /\ op[c].kind = "listing"
    /\ pc[c] \in {"fetch", "commit", "publish"} => home[c] # None
    /\ flight[c] # None => pc[c] = "joined"

(* The count of users is the number of reservations.                         *)
Users(o) == {c \in Callers : ref[c] = o}
UsersInv == \A o \in Objects : obj[o].users = Cardinality(Users(o))

(* The leader noted in a state is a caller that leads there, and the other way round. *)
LeaderInv ==
  /\ \A c \in Callers : home[c] # None => obj[home[c]].listings[op[c].key] = c
  /\ \A o \in Objects, k \in ListingKeys :
       obj[o].listings[k] # None =>
         home[obj[o].listings[k]] = o /\ op[obj[o].listings[k]].key = k

(* Who has the token of an object: nobody while it is in the channel, else one caller. *)
HasToken(c, o) ==
  \/ ref[c] = o /\ pc[c] \in {"hold", "http"}
  \/ home[c] = o /\ pc[c] = "publish"
TokenInv ==
  \A o \in Objects :
    /\ \A c \in Callers : HasToken(c, o) => ~obj[o].gate
    /\ \A c, d \in Callers : HasToken(c, o) /\ HasToken(d, o) => c = d

(* No two identities share an object.                                        *)
MapInv == \A j, k \in Identities : states[j] # None /\ states[j] = states[k] => j = k

(* What GitHub asked for is remembered by the state, or over if there is none.    *)
ThrottleInv ==
  \A k \in Identities :
    \/ announced[k] <= now
    \/ states[k] # None /\ announced[k] <= obj[states[k]].until

(* A caller waits for the flight of a caller that leads one of the same listing.  *)
JoinInv ==
  \A c \in Callers :
    flight[c] # None =>
      /\ home[flight[c]] # None
      /\ op[flight[c]].id = op[c].id /\ op[flight[c]].key = op[c].key

(* A response cache holds finitely many responses and is accounted for.      *)
CacheOK(s) ==
  /\ IsFiniteSet(Stored(s.responses))
  /\ s.bytes = SizeOf(s.responses, Stored(s.responses))
  /\ s.bytes <= MaxBytes
  /\ Cardinality(Stored(s.responses)) <= MaxResponses
CacheInv == \A o \in Objects : CacheOK(obj[o])

IInv ==
  /\ TypeOK /\ ShapeInv /\ StatePinned /\ UsersInv /\ LeaderInv /\ TokenInv /\ MapInv
  /\ ThrottleInv /\ JoinInv /\ CacheInv

-----------------------------------------------------------------------------
(* The response cache.                                                       *)

(* SizeOf is the sum of the sizes of the stored responses.                   *)
LEMMA SizeIsSum ==
  ASSUME NEW cache, NEW S
  PROVE  SizeOf(cache, S) = SumOver([k \in S |-> cache[k].size], S)
BY Zenon DEF SizeOf, SumOver

(* The accounted size of finitely many responses is a natural number.        *)
LEMMA SizeNat ==
  ASSUME NEW cache, NEW S, IsFiniteSet(S), \A k \in S : cache[k].size \in Nat
  PROVE  SizeOf(cache, S) \in Nat
<1> DEFINE f == [k \in S |-> cache[k].size]
<1>1. \A k \in S : f[k] \in Nat
  OBVIOUS
<1>2. SumOver(f, S) \in Nat
  BY <1>1, SumNat
<1> QED BY <1>2, SizeIsSum

(* The accounted size depends on the responses counted and on nothing else.  *)
LEMMA SizeSame ==
  ASSUME NEW cache, NEW other, NEW S, IsFiniteSet(S), \A k \in S : cache[k] = other[k]
  PROVE  SizeOf(cache, S) = SizeOf(other, S)
<1> DEFINE f == [k \in S |-> cache[k].size]
           g == [k \in S |-> other[k].size]
<1>1. f = g
  OBVIOUS
<1> QED BY <1>1, SizeIsSum

(* The accounted size of a set is that of a part of it and of the rest.      *)
LEMMA SizeSplit ==
  ASSUME NEW cache, NEW S, IsFiniteSet(S), \A k \in S : cache[k].size \in Nat, NEW T \in SUBSET S
  PROVE  SizeOf(cache, S) = SizeOf(cache, T) + SizeOf(cache, S \ T)
<1> DEFINE f == [k \in S |-> cache[k].size]
           g == [k \in T |-> cache[k].size]
           h == [k \in S \ T |-> cache[k].size]
<1>1. \A k \in S : f[k] \in Int
  OBVIOUS
<1>2. SumOver(f, S) = SumOver(f, T) + SumOver(f, S \ T)
  BY <1>1, SumSplit
<1>3. IsFiniteSet(T) /\ IsFiniteSet(S \ T)
  BY FS_Subset
<1>4. (\A k \in T : f[k] = g[k]) /\ (\A k \in S \ T : f[k] = h[k])
  OBVIOUS
<1>5. SumOver(f, T) = SumOver(g, T)
  <2> HIDE DEF f, g
  <2> QED BY <1>3, <1>4, SumSame
<1>6. SumOver(f, S \ T) = SumOver(h, S \ T)
  <2> HIDE DEF f, h
  <2> QED BY <1>3, <1>4, SumSame
<1>7. SizeOf(cache, S) = SumOver(f, S) /\ SizeOf(cache, T) = SumOver(g, T)
      /\ SizeOf(cache, S \ T) = SumOver(h, S \ T)
  BY SizeIsSum
<1> QED BY <1>2, <1>5, <1>6, <1>7

(* An empty cache has size 0.                                                *)
LEMMA SizeEmpty == ASSUME NEW cache PROVE SizeOf(cache, {}) = 0
BY SizeIsSum, SumEmpty

(* A cache of one response has the size of that response.                    *)
LEMMA SizeSingle ==
  ASSUME NEW cache, NEW k, cache[k].size \in Nat
  PROVE  SizeOf(cache, {k}) = cache[k].size
<1> DEFINE f == [j \in {k} |-> cache[j].size]
<1>1. IsFiniteSet({k}) /\ {k} # {} /\ Pick({k}) = k /\ {k} \ {Pick({k})} = {}
  BY FS_Singleton DEF Pick
<1>2. f[k] = cache[k].size
  OBVIOUS
<1>3. SumOver(f, {k}) = f[k] + SumOver(f, {})
  <2> DEFINE S == {k}
  <2>1. SumOver(f, S) = f[Pick(S)] + SumOver(f, S \ {Pick(S)})
    <3> HIDE DEF f, S
    <3> QED BY <1>1, SumPick DEF S
  <2> QED BY <1>1, <2>1
<1>4. SumOver(f, {}) = 0
  BY SumEmpty
<1>5. SizeOf(cache, {k}) = SumOver(f, {k})
  BY SizeIsSum
<1> HIDE DEF f
<1> QED BY <1>2, <1>3, <1>4, <1>5

(* What observing an answer, dropping expired responses and storing one leave of a *)
(* state: its token, users and flights, and a deadline that never moves back.     *)
Calm(s, t) ==
  /\ t \in RequestStates /\ CacheOK(t)
  /\ t.gate = s.gate /\ t.users = s.users /\ t.listings = s.listings
  /\ t.until >= s.until

(* A state left alone is calm.                                               *)
LEMMA SelfCalm ==
  ASSUME NEW s \in RequestStates, CacheOK(s)
  PROVE  Calm(s, s)
BY DEF Calm, RequestStates

(* Two calm changes make one.                                                *)
LEMMA CalmTwice ==
  ASSUME NEW s \in RequestStates, NEW t, NEW u, Calm(s, t), Calm(t, u)
  PROVE  Calm(s, u)
BY DEF Calm, RequestStates

(* What a cache stores are entries, with a size.                             *)
LEMMA StoredSizes ==
  ASSUME NEW s \in RequestStates
  PROVE  \A k \in Stored(s.responses) :
           k \in Keys /\ s.responses[k] \in Entries /\ s.responses[k].size \in Nat
BY DEF Stored, RequestStates, Entries

(* expire drops the responses whose time is over and takes exactly their sizes    *)
(* off the count.                                                            *)
LEMMA ExpiredCalm ==
  ASSUME TypeOK, NEW o \in Objects, CacheOK(obj[o])
  PROVE  Calm(obj[o], Expired(o))
<1> DEFINE s == obj[o]
           t == Expired(o)
           S == Stored(s.responses)
           L == Live(o)
<1>1. s \in RequestStates /\ CacheOK(s)
  BY DEF TypeOK
<1>2. L \in SUBSET S
  BY DEF Live, Stored
<1>3. IsFiniteSet(S) /\ IsFiniteSet(L) /\ IsFiniteSet(S \ L)
  BY <1>1, <1>2, FS_Subset DEF CacheOK
<1>4. \A k \in S : s.responses[k].size \in Nat
  BY <1>1, StoredSizes
<1>5. /\ t.gate = s.gate /\ t.users = s.users /\ t.listings = s.listings /\ t.until = s.until
      /\ t.lastUsed = s.lastUsed /\ t.backoff = s.backoff
      /\ t.responses = [k \in Keys |-> IF k \in L THEN s.responses[k] ELSE None]
      /\ t.bytes = s.bytes - SizeOf(s.responses, S \ L)
  BY <1>1 DEF Expired, RequestStates
<1>6. SizeOf(s.responses, S \ L) \in Nat /\ SizeOf(s.responses, L) \in Nat
  BY <1>2, <1>3, <1>4, SizeNat
<1>7. SizeOf(s.responses, S) = SizeOf(s.responses, L) + SizeOf(s.responses, S \ L)
  BY <1>2, <1>3, <1>4, SizeSplit
<1>8. t \in RequestStates
  <2>1. t.responses \in [Keys -> Entries \cup {None}]
    BY <1>1, <1>5 DEF RequestStates
  <2>2. t.bytes \in Int
    BY <1>1, <1>5, <1>6 DEF RequestStates
  <2> QED BY <1>1, <1>5, <2>1, <2>2 DEF RequestStates, Expired
<1>9. Stored(t.responses) = L
  BY <1>2, <1>5 DEF Stored
<1>10. CacheOK(t)
  <2>1. SizeOf(t.responses, L) = SizeOf(s.responses, L)
    BY <1>2, <1>3, <1>5, SizeSame DEF Stored
  <2>2. s.bytes = SizeOf(s.responses, S) /\ s.bytes <= MaxBytes /\ s.bytes \in Int
        /\ Cardinality(S) <= MaxResponses
    BY <1>1 DEF CacheOK, RequestStates
  <2>3. Cardinality(L) <= Cardinality(S) /\ Cardinality(L) \in Nat /\ Cardinality(S) \in Nat
    BY <1>2, <1>3, FS_Subset, FS_CardinalityType
  <2>4. t.bytes = SizeOf(t.responses, L) /\ t.bytes <= MaxBytes
    BY <1>5, <1>6, <1>7, <2>1, <2>2, ConstantsAssumption
  <2>5. Cardinality(L) <= MaxResponses
    BY <2>2, <2>3, ConstantsAssumption
  <2> HIDE DEF t, L
  <2> QED BY <1>3, <1>9, <2>4, <2>5 DEF CacheOK
<1> QED BY <1>1, <1>5, <1>8, <1>10 DEF Calm, RequestStates

(* A state with another cache and another count is a state.                  *)
LEMMA CacheUpdated ==
  ASSUME NEW s \in RequestStates, NEW cache \in [Keys -> Entries \cup {None}], NEW b \in Int
  PROVE  [s EXCEPT !.responses = cache, !.bytes = b] \in RequestStates
BY DEF RequestStates

(* store keeps the count equal to the size of what is stored and both limits,     *)
(* whether it replaces an entry, wipes the cache or refuses a body that is too    *)
(* large.                                                                    *)
LEMMA StoreCalm ==
  ASSUME now \in Nat, NEW s \in RequestStates, CacheOK(s), NEW k \in Keys, NEW size \in Nat
  PROVE  Calm(s, StoreInto(s, k, size))
<1> SUFFICES ASSUME NEW t, t = StoreInto(s, k, size) PROVE Calm(s, t)
  OBVIOUS
<1> DEFINE cache == [s.responses EXCEPT ![k] = None]
           total == IF s.responses[k] = None THEN s.bytes ELSE s.bytes - s.responses[k].size
           wipe == Cardinality(Stored(cache)) >= MaxResponses \/ total + size > MaxBytes
           entry == [size |-> size, expires |-> now + TTL]
           S == Stored(s.responses)
<1>1. s.responses \in [Keys -> Entries \cup {None}] /\ s.bytes \in Int
  BY DEF RequestStates
<1>2. entry \in Entries /\ entry # None /\ entry.size = size
  BY ConstantsAssumption DEF Entries
<1>3. Stored(cache) = S \ {k} /\ Stored(cache) \in SUBSET S
  BY <1>1 DEF Stored
<1>4. IsFiniteSet(S) /\ IsFiniteSet(S \ {k}) /\ (\A j \in S : s.responses[j].size \in Nat)
  BY StoredSizes, FS_Subset DEF CacheOK
<1>5. SizeOf(s.responses, S \ {k}) \in Nat
  BY <1>4, SizeNat
<1>6. total = SizeOf(s.responses, S \ {k})
  <2>1. CASE s.responses[k] = None
    <3>1. S \ {k} = S
      BY <2>1 DEF Stored
    <3> QED BY <2>1, <3>1 DEF CacheOK
  <2>2. CASE s.responses[k] # None
    <3>1. {k} \in SUBSET S /\ s.responses[k].size \in Nat
      BY <2>2, <1>4 DEF Stored
    <3>2. SizeOf(s.responses, S) = SizeOf(s.responses, {k}) + SizeOf(s.responses, S \ {k})
      BY <1>4, <3>1, SizeSplit
    <3>3. SizeOf(s.responses, {k}) = s.responses[k].size
      BY <3>1, SizeSingle
    <3>4. s.bytes = SizeOf(s.responses, S) /\ total = s.bytes - s.responses[k].size
      BY <2>2 DEF CacheOK
    <3> HIDE DEF total, S
    <3> QED BY <1>5, <3>1, <3>2, <3>3, <3>4
  <2> QED BY <2>1, <2>2
<1>7. CASE size > MaxBytes
  <2>1. t = s
    BY <1>7, ConstantsAssumption DEF StoreInto
  <2> QED BY <2>1, SelfCalm
<1>8. CASE size <= MaxBytes /\ wipe
  <2>0. PICK one : one = [NoResponses EXCEPT ![k] = entry]
    OBVIOUS
  <2>1. t = [s EXCEPT !.responses = one, !.bytes = size]
    BY <1>8, <2>0, ConstantsAssumption DEF StoreInto
  <2>2. one \in [Keys -> Entries \cup {None}] /\ Stored(one) = {k} /\ one[k].size = size
    BY <1>2, <2>0 DEF NoResponses, Stored
  <2>3. /\ t.gate = s.gate /\ t.users = s.users /\ t.listings = s.listings /\ t.until = s.until
        /\ t.responses = one /\ t.bytes = size /\ t \in RequestStates
    <3>1. size \in Int
      OBVIOUS
    <3>2. t.gate = s.gate /\ t.users = s.users /\ t.listings = s.listings /\ t.until = s.until
      BY <2>1 DEF RequestStates
    <3>3. t.responses = one /\ t.bytes = size
      BY <2>1 DEF RequestStates
    <3>4. [s EXCEPT !.responses = one, !.bytes = size] \in RequestStates
      BY <2>2, <3>1, CacheUpdated
    <3>5. t \in RequestStates
      BY <2>1, <3>4
    <3> QED BY <3>2, <3>3, <3>5
  <2>4. SizeOf(one, {k}) = size /\ IsFiniteSet({k}) /\ Cardinality({k}) = 1
    BY <2>2, SizeSingle, FS_Singleton
  <2>5. CacheOK(t)
    <3> QED BY <1>8, <2>2, <2>3, <2>4, ConstantsAssumption DEF CacheOK
  <2> QED BY <2>3, <2>5 DEF Calm, RequestStates
<1>9. CASE size <= MaxBytes /\ ~wipe
  <2> DEFINE more == [cache EXCEPT ![k] = entry]
             T == (S \ {k}) \cup {k}
  <2>1. t = [s EXCEPT !.responses = more, !.bytes = total + size]
    BY <1>9, ConstantsAssumption DEF StoreInto
  <2>2. /\ more \in [Keys -> Entries \cup {None}] /\ more[k].size = size
        /\ \A j \in S \ {k} : more[j] = s.responses[j]
    BY <1>1, <1>2 DEF Stored
  <2>3. Stored(more) = T
    BY <1>1, <1>2 DEF Stored
  <2>4. total \in Nat
    BY <1>5, <1>6
  <2>5. /\ t.gate = s.gate /\ t.users = s.users /\ t.listings = s.listings /\ t.until = s.until
        /\ t.responses = more /\ t.bytes = total + size /\ t \in RequestStates
    <3>1. total + size \in Int
      BY <2>4
    <3> HIDE DEF more, total
    <3>2. t.gate = s.gate /\ t.users = s.users /\ t.listings = s.listings /\ t.until = s.until
      BY <2>1 DEF RequestStates
    <3>3. t.responses = more /\ t.bytes = total + size
      BY <2>1 DEF RequestStates
    <3>4. [s EXCEPT !.responses = more, !.bytes = total + size] \in RequestStates
      BY <2>2, <3>1, CacheUpdated
    <3>5. t \in RequestStates
      BY <2>1, <3>4
    <3> QED BY <3>2, <3>3, <3>5
  <2>6. IsFiniteSet(T) /\ Cardinality(T) = Cardinality(S \ {k}) + 1 /\ Cardinality(S \ {k}) \in Nat
    BY <1>4, FS_AddElement, FS_CardinalityType
  <2>7. SizeOf(more, T) = total + size
    <3>1. \A j \in T : more[j].size \in Nat
      BY <1>4, <2>2
    <3>2. SizeOf(more, T) = SizeOf(more, {k}) + SizeOf(more, T \ {k})
      BY <2>6, <3>1, SizeSplit
    <3>3. SizeOf(more, T \ {k}) = SizeOf(more, S \ {k})
      <4>1. T \ {k} = S \ {k}
        OBVIOUS
      <4> QED BY <4>1, Zenon
    <3>4. SizeOf(more, S \ {k}) = SizeOf(s.responses, S \ {k})
      BY <1>4, <2>2, SizeSame
    <3>5. SizeOf(more, {k}) = size
      BY <2>2, SizeSingle
    <3> HIDE DEF more, T, total
    <3> QED BY <1>5, <1>6, <3>2, <3>3, <3>4, <3>5
  <2>8. total + size <= MaxBytes /\ Cardinality(T) <= MaxResponses
    <3>1. ~ (Cardinality(S \ {k}) >= MaxResponses) /\ ~ (total + size > MaxBytes)
      BY <1>9, <1>3
    <3> HIDE DEF total, T
    <3> QED BY <3>1, <2>4, <2>6, ConstantsAssumption
  <2>9. CacheOK(t)
    <3> HIDE DEF more, T, total
    <3> QED BY <2>3, <2>5, <2>6, <2>7, <2>8 DEF CacheOK
  <2> QED BY <2>5, <2>9 DEF Calm, RequestStates
<1>10. QED
  <2>1. size > MaxBytes \/ size <= MaxBytes
    BY ConstantsAssumption
  <2> HIDE DEF wipe
  <2> QED BY <2>1, <1>7, <1>8, <1>9

(* The backoff stays a natural number: doubled, capped, reset or left alone. *)
LEMMA BackoffNat ==
  ASSUME NEW s \in RequestStates, NEW r \in Responses
  PROVE  NextBackoff(s, r) \in Nat
<1>1. s.backoff \in Nat /\ 2 * s.backoff \in Nat /\ BackoffMin \in Nat /\ BackoffMax \in Nat
  BY ConstantsAssumption DEF RequestStates
<1>2. Earlier(2 * s.backoff, BackoffMax) \in Nat
  BY <1>1 DEF Earlier
<1> QED BY <1>1, <1>2, ConstantsAssumption DEF NextBackoff

(* An observed answer moves the deadline to what it asked for, at least.     *)
LEMMA ObserveCalm ==
  ASSUME TypeOK, NEW s \in RequestStates, CacheOK(s), NEW r \in Responses
  PROVE  Calm(s, Observe(s, r)) /\ Observe(s, r).until >= Asked(r) /\ Asked(r) \in Nat
<1>1. s.until \in Nat /\ now \in Nat /\ NextBackoff(s, r) \in Nat
  BY BackoffNat DEF TypeOK, RequestStates
<1>2. r.reset \in Nat /\ (r.retry = None \/ r.retry \in Nat)
  BY ConstantsAssumption DEF Responses
<1> DEFINE b == NextBackoff(s, r)
           u == Later(s.until, Later(ResetDeadline(r), RetryDeadline(s, r)))
<1>3. ResetDeadline(r) \in Nat /\ ResetDeadline(r) >= r.reset
  BY <1>2 DEF ResetDeadline
<1>4. RetryDeadline(s, r) \in Nat /\ Delay(r) \in Nat
      /\ (r.class = "throttled" => RetryDeadline(s, r) >= now + Delay(r))
  <2>1. CASE r.class # "throttled"
    BY <1>2, <2>1 DEF RetryDeadline, Delay, Later
  <2>2. CASE r.class = "throttled" /\ r.retry = None
    BY <1>1, <2>2 DEF RetryDeadline, Delay, Later
  <2>3. CASE r.class = "throttled" /\ r.retry # None
    BY <1>1, <1>2, <2>3 DEF RetryDeadline, Delay, Later
  <2> QED BY <2>1, <2>2, <2>3
<1>5. u \in Nat /\ u >= s.until /\ u >= ResetDeadline(r) /\ u >= RetryDeadline(s, r)
  BY <1>1, <1>3, <1>4 DEF Later
<1>6. Asked(r) \in Nat /\ u >= Asked(r)
  BY <1>1, <1>2, <1>3, <1>4, <1>5 DEF Asked, Later
<1>7. Observe(s, r) = [s EXCEPT !.until = u, !.backoff = b]
  BY DEF Observe
<1> HIDE DEF u, b
<1>8. /\ Observe(s, r).until = u /\ Observe(s, r).responses = s.responses
      /\ Observe(s, r).bytes = s.bytes
  BY <1>7 DEF RequestStates
<1>9. /\ Observe(s, r).gate = s.gate /\ Observe(s, r).users = s.users
      /\ Observe(s, r).listings = s.listings
  BY <1>7 DEF RequestStates
<1>10. Observe(s, r) \in RequestStates
  BY <1>1, <1>5, <1>7 DEF RequestStates, b
<1>11. CacheOK(Observe(s, r))
  BY <1>8 DEF CacheOK
<1> QED BY <1>5, <1>6, <1>8, <1>9, <1>10, <1>11 DEF Calm

-----------------------------------------------------------------------------
(* A caller gives up its reservation.                                        *)

(* Finitely many callers have a reservation.                                 *)
LEMMA UsersFinite ==
  \A o : IsFiniteSet(Users(o)) /\ Cardinality(Users(o)) \in Nat
BY FS_Subset, FS_CardinalityType, ConstantsAssumption DEF Users

(* A caller that gives up its reservation is one user less of that object, of     *)
(* no other.                                                                 *)
LEMMA UsersDrop ==
  ASSUME TypeOK, NEW c \in Callers, NEW o \in Objects, ref[c] = o, ref' = [ref EXCEPT ![c] = None]
  PROVE  /\ Cardinality(Users(o)') = Cardinality(Users(o)) - 1 /\ Cardinality(Users(o)) >= 1
         /\ \A x \in Objects : x # o => Users(x)' = Users(x)
<1>1. ref \in [Callers -> Objects \cup {None}] /\ c \in Users(o)
  BY DEF TypeOK, Users
<1>2. Users(o)' = Users(o) \ {c}
  BY <1>1, ConstantsAssumption DEF Users
<1>3. IsFiniteSet(Users(o))
  BY UsersFinite
<1>4. /\ Cardinality(Users(o) \ {c}) = Cardinality(Users(o)) - 1
      /\ Cardinality(Users(o)) \in Nat /\ Cardinality(Users(o) \ {c}) \in Nat
  BY <1>1, <1>3, FS_RemoveElement, FS_CardinalityType, FS_Subset
<1>5. \A x \in Objects : x # o => Users(x)' = Users(x)
  BY <1>1, ConstantsAssumption DEF Users
<1> QED BY <1>2, <1>4, <1>5

(* A caller that takes a reservation is one user more of that object, of no  *)
(* other.                                                                    *)
LEMMA UsersAdd ==
  ASSUME TypeOK, NEW c \in Callers, NEW o \in Objects, ref[c] = None, ref' = [ref EXCEPT ![c] = o]
  PROVE  /\ Cardinality(Users(o)') = Cardinality(Users(o)) + 1
         /\ \A x \in Objects : x # o => Users(x)' = Users(x)
<1>1. ref \in [Callers -> Objects \cup {None}] /\ c \notin Users(o)
  BY ConstantsAssumption DEF TypeOK, Users
<1>2. Users(o)' = Users(o) \cup {c}
  BY <1>1 DEF Users
<1>3. IsFiniteSet(Users(o))
  BY UsersFinite
<1>4. Cardinality(Users(o) \cup {c}) = Cardinality(Users(o)) + 1
  BY <1>1, <1>3, FS_AddElement
<1>5. \A x \in Objects : x # o => Users(x)' = Users(x)
  BY <1>1, ConstantsAssumption DEF Users
<1> QED BY <1>2, <1>4, <1>5

(* What a caller that returns, ends a fetch, asks for the next page or joins a flight *)
(* changes in the state of the callers.                                      *)
Leaves(c, p, w, f) ==
  /\ pc' = [pc EXCEPT ![c] = p] /\ op' = [op EXCEPT ![c] = w]
  /\ ref' = [ref EXCEPT ![c] = None] /\ flight' = [flight EXCEPT ![c] = f]
  /\ home' = home /\ pages' \in [Callers -> Nat] /\ result' \in [Callers -> Results]
  /\ \/ home[c] = None /\ p = "idle" /\ w \in Ops /\ f = None
     \/ home[c] # None /\ p \in {"fetch", "commit"} /\ w = op[c] /\ f = None
     \/ /\ home[c] = None /\ p = "joined" /\ w = op[c] /\ f \in Callers \ {c}
        /\ home[f] # None /\ op[f].id = w.id /\ op[f].key = w.key

CallerTypes ==
  /\ pc \in [Callers -> PCs] /\ op \in [Callers -> Ops] /\ ref \in [Callers -> Objects \cup {None}]
  /\ home \in [Callers -> Objects \cup {None}] /\ pages \in [Callers -> Nat]
  /\ result \in [Callers -> Results] /\ flight \in [Callers -> Callers \cup {None}]

(* A caller that leaves keeps the shape of the callers and every wait for a  *)
(* flight.                                                                   *)
LEMMA CallersLeave ==
  ASSUME IInv, NEW c \in Callers, NEW p, NEW w, NEW f, Leaves(c, p, w, f),
         pc[c] \in {"idle", "wait", "hold", "http"}
  PROVE  CallerTypes' /\ ShapeInv' /\ JoinInv'
<1>1. TypeOK /\ ShapeInv /\ JoinInv
  BY DEF IInv
<1>2. CallerTypes'
  <2>1. w \in Ops /\ p \in PCs /\ f \in Callers \cup {None}
    BY <1>1 DEF Leaves, TypeOK, PCs
  <2> QED BY <1>1, <2>1 DEF Leaves, TypeOK, CallerTypes
<1>3. ShapeInv'
  <2> SUFFICES ASSUME NEW d \in Callers
               PROVE  /\ ref'[d] # None <=> pc'[d] \in {"wait", "hold", "http"}
                      /\ home'[d] # None => pc'[d] \notin {"idle", "joined"} /\ op'[d].kind = "listing"
                      /\ pc'[d] \in {"fetch", "commit", "publish"} => home'[d] # None
                      /\ flight'[d] # None => pc'[d] = "joined"
    BY DEF ShapeInv
  <2>1. CASE d # c
    BY <1>1, <2>1 DEF Leaves, TypeOK, ShapeInv
  <2>2. CASE d = c
    <3>1. ref'[c] = None /\ pc'[c] = p /\ op'[c] = w /\ flight'[c] = f /\ home'[c] = home[c]
      BY <1>1 DEF Leaves, TypeOK
    <3> QED BY <1>1, <2>2, <3>1, ConstantsAssumption DEF Leaves, ShapeInv
  <2> QED BY <2>1, <2>2
<1>4. JoinInv'
  <2> SUFFICES ASSUME NEW d \in Callers, flight'[d] # None
               PROVE  /\ home'[flight'[d]] # None
                      /\ op'[flight'[d]].id = op'[d].id /\ op'[flight'[d]].key = op'[d].key
    BY DEF JoinInv
  <2>1. \A x \in Callers : home[x] # None => op'[x] = op[x] /\ home'[x] = home[x]
    BY <1>1 DEF Leaves, TypeOK
  <2>2. CASE d # c
    <3>1. flight'[d] = flight[d] /\ flight[d] \in Callers /\ op'[d] = op[d]
      BY <1>1, <2>2 DEF Leaves, TypeOK
    <3> QED BY <1>1, <2>1, <3>1 DEF JoinInv
  <2>3. CASE d = c
    <3>1. flight'[c] = f /\ f # None /\ op'[c] = w
      BY <1>1, <2>3 DEF Leaves, TypeOK
    <3>2. f \in Callers /\ home[f] # None /\ op[f].id = w.id /\ op[f].key = w.key
      BY <3>1 DEF Leaves
    <3> QED BY <2>1, <2>3, <3>1, <3>2
  <2> QED BY <2>2, <2>3
<1> QED BY <1>2, <1>3, <1>4

(* What it leaves of the state it had reserved.                              *)
Left(s, t, step) ==
  /\ t \in RequestStates /\ CacheOK(t)
  /\ t.users = s.users - 1 /\ t.listings = s.listings /\ t.until >= s.until
  /\ t.gate = (IF step = "wait" THEN s.gate ELSE TRUE)

(* A caller that leaves keeps what relates callers and states: the pins, the *)
(* count of users, the leaders, the token and the response caches.           *)
LEMMA HeapLeft ==
  ASSUME IInv, NEW c \in Callers, NEW o \in Objects, ref[c] = o,
         NEW p, NEW w, NEW f, Leaves(c, p, w, f), pc[c] \in {"wait", "hold", "http"},
         NEW t, Left(obj[o], t, pc[c]), obj' = [obj EXCEPT ![o] = t], states' = states
  PROVE  /\ obj' \in [Objects -> RequestStates] /\ StatePinned' /\ UsersInv' /\ LeaderInv' /\ TokenInv'
         /\ MapInv' /\ CacheInv' /\ \A x \in Objects : obj'[x].until >= obj[x].until
<1>1. TypeOK /\ ShapeInv /\ StatePinned /\ UsersInv /\ LeaderInv /\ TokenInv /\ MapInv /\ CacheInv
  BY DEF IInv
<1>2. obj \in [Objects -> RequestStates] /\ obj' \in [Objects -> RequestStates]
  BY <1>1 DEF TypeOK, Left
<1>3. obj'[o] = t /\ \A x \in Objects : x # o => obj'[x] = obj[x]
  BY <1>2
<1>4. /\ home' = home /\ \A d \in Callers : home[d] # None => op'[d] = op[d]
      /\ \A d \in Callers : d # c => pc'[d] = pc[d] /\ ref'[d] = ref[d] /\ op'[d] = op[d]
      /\ ref'[c] = None /\ pc'[c] \notin {"hold", "http", "publish"}
  BY <1>1 DEF Leaves, TypeOK
<1>5. StatePinned'
  BY <1>1, <1>4 DEF StatePinned
<1>6. UsersInv'
  <2>1. /\ Cardinality(Users(o)') = Cardinality(Users(o)) - 1
        /\ \A x \in Objects : x # o => Users(x)' = Users(x)
    BY <1>1, UsersDrop DEF Leaves
  <2> SUFFICES ASSUME NEW x \in Objects PROVE obj'[x].users = Cardinality(Users(x)')
    BY DEF UsersInv
  <2>2. obj[x].users = Cardinality(Users(x))
    BY <1>1 DEF UsersInv
  <2>3. CASE x = o
    BY <1>3, <2>1, <2>2, <2>3 DEF Left
  <2>4. CASE x # o
    BY <1>3, <2>1, <2>2, <2>4
  <2> QED BY <2>3, <2>4
<1>7. \A x \in Objects : obj'[x].listings = obj[x].listings
  BY <1>3 DEF Left
<1>8. LeaderInv'
  <2>1. \A d \in Callers : home'[d] # None => obj'[home'[d]].listings[op'[d].key] = d
    <3>1. \A d \in Callers : home[d] # None => home[d] \in Objects
      BY <1>1 DEF TypeOK
    <3> QED BY <1>1, <1>4, <1>7, <3>1 DEF LeaderInv
  <2>2. ASSUME NEW x \in Objects, NEW k \in ListingKeys, obj'[x].listings[k] # None
        PROVE  home'[obj'[x].listings[k]] = x /\ op'[obj'[x].listings[k]].key = k
    <3>1. obj'[x].listings[k] = obj[x].listings[k] /\ obj[x].listings[k] \in Callers
      BY <1>2, <1>7, <2>2 DEF RequestStates
    <3>2. home[obj[x].listings[k]] = x /\ op[obj[x].listings[k]].key = k /\ x # None
      BY <1>1, <2>2, <3>1, ConstantsAssumption DEF LeaderInv
    <3> QED BY <1>4, <3>1, <3>2
  <2> QED BY <2>1, <2>2 DEF LeaderInv
<1>9. TokenInv'
  <2>1. \A d \in Callers, x \in Objects : HasToken(d, x)' => HasToken(d, x) /\ d # c
    BY <1>4, ConstantsAssumption DEF HasToken
  <2>2. \A d, e \in Callers, x \in Objects : HasToken(d, x)' /\ HasToken(e, x)' => d = e
    BY <1>1, <2>1 DEF TokenInv
  <2>3. ASSUME NEW d \in Callers, NEW x \in Objects, HasToken(d, x)'
        PROVE  ~obj'[x].gate
    <3>1. HasToken(d, x) /\ d # c /\ ~obj[x].gate
      BY <1>1, <2>1, <2>3 DEF TokenInv
    <3>2. CASE x # o
      BY <1>3, <3>1, <3>2
    <3>3. CASE x = o
      <4>1. pc[c] = "wait"
        BY <1>1, <3>1, <3>3 DEF TokenInv, HasToken
      <4> QED BY <1>3, <3>1, <3>3, <4>1 DEF Left
    <3> QED BY <3>2, <3>3
  <2> QED BY <2>2, <2>3 DEF TokenInv
<1>10. MapInv'
  BY <1>1 DEF MapInv
<1>11. CacheInv'
  <2>1. \A x \in Objects : CacheOK(obj'[x])
    BY <1>1, <1>3 DEF CacheInv, Left
  <2> QED BY <2>1 DEF CacheInv
<1>12. \A x \in Objects : obj'[x].until >= obj[x].until
  BY <1>2, <1>3 DEF Left, RequestStates
<1> QED BY <1>2, <1>5, <1>6, <1>8, <1>9, <1>10, <1>11, <1>12

(* There is an operation to fill the place of none.                          *)
LEMMA NoOpInOps == NoOp \in Ops
<1>1. PICK k \in Identities : TRUE
  BY ConstantsAssumption
<1>2. [kind |-> "plain", id |-> k, key |-> None, fresh |-> FALSE] \in Ops
  BY DEF Ops
<1> QED BY <1>2 DEF NoOp

(* What an operation asks for, by kind.                                      *)
LEMMA OpFields ==
  ASSUME NEW w \in Ops
  PROVE  /\ w.id \in Identities /\ w.kind \in {"plain", "cached", "listing"}
         /\ w.kind = "cached" => w.key \in Keys
         /\ w.kind = "listing" => w.key \in ListingKeys /\ w.key \in Keys
BY DEF Ops, Keys

(* The ways a caller leaves.                                                 *)
LEMMA LeavingSteps ==
  ASSUME IInv, NEW c \in Callers, pc[c] \in {"idle", "wait", "hold", "http"}
  PROVE  /\ Return(c) /\ home[c] = None => Leaves(c, "idle", NoOp, None)
         /\ \A res \in Results :
              FetchEnds(c, res) /\ home[c] # None => Leaves(c, "commit", op[c], None)
         /\ NextPage(c) /\ home[c] # None => Leaves(c, "fetch", op[c], None)
<1>1. TypeOK /\ ShapeInv
  BY DEF IInv
<1>2. flight[c] = None /\ flight = [flight EXCEPT ![c] = None] /\ op = [op EXCEPT ![c] = op[c]]
  BY <1>1 DEF TypeOK, ShapeInv
<1>3. ASSUME Return(c), home[c] = None PROVE Leaves(c, "idle", NoOp, None)
  <2>1. pages' \in [Callers -> Nat] /\ result' \in [Callers -> Results]
    BY <1>1, <1>3 DEF Return, TypeOK, Results
  <2> QED BY <1>3, <2>1, NoOpInOps DEF Return, Leaves
<1>4. ASSUME NEW res \in Results, FetchEnds(c, res), home[c] # None
      PROVE  Leaves(c, "commit", op[c], None)
  <2>1. pages' \in [Callers -> Nat] /\ result' \in [Callers -> Results]
    BY <1>1, <1>4 DEF FetchEnds, TypeOK
  <2> QED BY <1>2, <1>4, <2>1 DEF FetchEnds, Leaves
<1>5. ASSUME NextPage(c), home[c] # None
      PROVE  Leaves(c, "fetch", op[c], None)
  <2>1. pages' \in [Callers -> Nat] /\ result' \in [Callers -> Results]
    BY <1>1, <1>5 DEF NextPage, TypeOK
  <2> QED BY <1>2, <1>5, <2>1 DEF NextPage, Leaves
<1> QED BY <1>3, <1>4, <1>5

(* A call that fails leaves: a leader ends its fetch, any other caller returns.   *)
LEMMA FailLeaves ==
  ASSUME IInv, NEW c \in Callers, pc[c] \in {"idle", "wait", "hold", "http"},
         NEW res \in Results, Fail(c, res)
  PROVE  \E p, w, f : Leaves(c, p, w, f)
BY LeavingSteps DEF Fail, Leads

(* A call that got its answer leaves: a leader asks for another page or ends *)
(* its fetch, any other caller returns.                                      *)
LEMMA DeliveredLeaves ==
  ASSUME IInv, NEW c \in Callers, pc[c] = "http", Delivered(c)
  PROVE  \E p, w, f : Leaves(c, p, w, f)
BY LeavingSteps DEF Delivered, Leads, Results

(* A caller that leaves keeps the invariant, whatever it observed on the way.     *)
LEMMA LeaveInv ==
  ASSUME IInv, NEW c \in Callers, NEW o \in Objects, ref[c] = o,
         \E p, w, f : Leaves(c, p, w, f), pc[c] \in {"wait", "hold", "http"},
         NEW t, Left(obj[o], t, pc[c]), obj' = [obj EXCEPT ![o] = t],
         states' = states, now' = now, announced' \in [Identities -> Nat],
         \A k \in Identities : \/ announced'[k] = announced[k]
                               \/ k = op[c].id /\ announced'[k] <= t.until
  PROVE  IInv'
<1>1. TypeOK /\ ShapeInv /\ StatePinned /\ MapInv /\ ThrottleInv
  BY DEF IInv
<1>2. PICK p, w, f : Leaves(c, p, w, f)
  OBVIOUS
<1>3. /\ obj' \in [Objects -> RequestStates] /\ StatePinned' /\ UsersInv' /\ LeaderInv' /\ TokenInv'
      /\ MapInv' /\ CacheInv' /\ \A x \in Objects : obj'[x].until >= obj[x].until
  BY <1>2, HeapLeft
<1>4. CallerTypes' /\ ShapeInv' /\ JoinInv'
  BY <1>2, CallersLeave
<1>5. TypeOK'
  BY <1>1, <1>3, <1>4 DEF TypeOK, CallerTypes
<1>6. ThrottleInv'
  <2> SUFFICES ASSUME NEW k \in Identities
               PROVE  \/ announced'[k] <= now'
                      \/ states'[k] # None /\ announced'[k] <= obj'[states'[k]].until
    BY DEF ThrottleInv
  <2>1. CASE announced'[k] = announced[k]
    <3>1. CASE announced[k] <= now
      BY <2>1, <3>1
    <3>2. CASE states[k] # None /\ announced[k] <= obj[states[k]].until
      <4>1. states[k] \in Objects
        BY <1>1, <3>2 DEF TypeOK
      <4>2. obj'[states[k]].until >= obj[states[k]].until /\ announced[k] \in Nat
            /\ obj[states[k]].until \in Nat /\ obj'[states[k]].until \in Nat
        BY <1>1, <1>3, <4>1 DEF TypeOK, RequestStates
      <4> QED BY <2>1, <3>2, <4>2
    <3> QED BY <1>1, <3>1, <3>2 DEF ThrottleInv
  <2>2. CASE k = op[c].id /\ announced'[k] <= t.until
    <3>1. states[k] = o /\ o # None
      BY <1>1, <2>2, ConstantsAssumption DEF StatePinned
    <3>2. obj'[o] = t
      BY <1>1 DEF TypeOK
    <3> QED BY <2>2, <3>1, <3>2
  <2> QED BY <2>1, <2>2
<1> QED BY <1>3, <1>4, <1>5, <1>6 DEF IInv

(* The state of a caller with a reservation is the one its identity maps to and   *)
(* counts at least one user.                                                 *)
LEMMA ReservedCounted ==
  ASSUME IInv, NEW c \in Callers, pc[c] \in {"wait", "hold", "http"}
  PROVE  /\ ref[c] \in Objects /\ ref[c] # None /\ states[op[c].id] = ref[c] /\ op[c].id \in Identities
         /\ obj[ref[c]] \in RequestStates /\ CacheOK(obj[ref[c]]) /\ obj[ref[c]].users >= 1
<1>1. TypeOK /\ ShapeInv /\ StatePinned /\ UsersInv /\ CacheInv
  BY DEF IInv
<1>2. ref[c] \in Objects /\ ref[c] # None
  BY <1>1 DEF TypeOK, ShapeInv
<1>3. c \in Users(ref[c]) /\ IsFiniteSet(Users(ref[c])) /\ Cardinality(Users(ref[c])) \in Nat
  BY UsersFinite DEF Users
<1>4. Cardinality(Users(ref[c])) # 0
  BY <1>3, FS_EmptySet
<1>5. obj[ref[c]].users = Cardinality(Users(ref[c])) /\ CacheOK(obj[ref[c]])
  BY <1>1, <1>2 DEF UsersInv, CacheInv
<1>6. obj[ref[c]] \in RequestStates /\ states[op[c].id] = ref[c] /\ op[c] \in Ops
  BY <1>1, <1>2 DEF TypeOK, StatePinned
<1> QED BY <1>2, <1>3, <1>4, <1>5, <1>6, OpFields

(* release leaves a state with one user less and its token back.             *)
LEMMA ReleaseLeft ==
  ASSUME NEW s \in RequestStates, s.users >= 1, NEW t, Calm(s, t), now \in Nat, NEW step, step # "wait"
  PROVE  Left(s, [t EXCEPT !.users = @ - 1, !.lastUsed = now, !.gate = TRUE], step)
<1> SUFFICES ASSUME NEW u, u = [t EXCEPT !.users = @ - 1, !.lastUsed = now, !.gate = TRUE]
             PROVE  Left(s, u, step)
  OBVIOUS
<1>1. t \in RequestStates /\ CacheOK(t) /\ t.users = s.users /\ t.listings = s.listings
      /\ t.until >= s.until /\ t.users - 1 \in Nat
  BY DEF Calm, RequestStates
<1>2. u.users = t.users - 1 /\ u.listings = t.listings /\ u.until = t.until /\ u.gate = TRUE
  BY <1>1 DEF RequestStates
<1>3. u.responses = t.responses /\ u.bytes = t.bytes
  BY <1>1 DEF RequestStates
<1>4. u \in RequestStates
  BY <1>1 DEF RequestStates
<1>5. CacheOK(u)
  BY <1>1, <1>3 DEF CacheOK
<1> QED BY <1>1, <1>2, <1>4, <1>5 DEF Left

(* release after a calm change keeps the invariant.                          *)
LEMMA ReleaseInv ==
  ASSUME IInv, NEW c \in Callers, pc[c] \in {"hold", "http"}, NEW t, Calm(obj[ref[c]], t),
         Release(ref[c], t), \E p, w, f : Leaves(c, p, w, f), UNCHANGED <<now, states, announced>>
  PROVE  IInv'
<1>1. ref[c] \in Objects /\ obj[ref[c]] \in RequestStates /\ obj[ref[c]].users >= 1
  BY ReservedCounted
<1>2. now \in Nat /\ announced \in [Identities -> Nat]
  BY DEF IInv, TypeOK
<1> DEFINE u == [t EXCEPT !.users = @ - 1, !.lastUsed = now, !.gate = TRUE]
<1>3. Left(obj[ref[c]], u, pc[c])
  BY <1>1, <1>2, ReleaseLeft
<1>4. obj' = [obj EXCEPT ![ref[c]] = u]
  BY DEF Release
<1> HIDE DEF u
<1> QED BY <1>1, <1>2, <1>3, <1>4, LeaveInv

(* The state of a caller past the gate is calm when swept and when left alone.    *)
LEMMA ExpiredInv ==
  ASSUME IInv, NEW c \in Callers, pc[c] \in {"hold", "http"}
  PROVE  Calm(obj[ref[c]], Expired(ref[c])) /\ Calm(obj[ref[c]], obj[ref[c]])
<1>1. TypeOK /\ ref[c] \in Objects /\ CacheOK(obj[ref[c]]) /\ obj[ref[c]] \in RequestStates
  BY ReservedCounted DEF IInv
<1> QED BY <1>1, ExpiredCalm, SelfCalm

(* A wait that is cancelled keeps the invariant.                             *)
LEMMA CancelWaitInv ==
  ASSUME IInv, NEW c \in Callers, CancelWait(c) PROVE IInv'
<1>1. /\ ref[c] \in Objects /\ obj[ref[c]] \in RequestStates /\ obj[ref[c]].users >= 1
      /\ CacheOK(obj[ref[c]])
  BY ReservedCounted DEF CancelWait
<1>2. obj \in [Objects -> RequestStates] /\ announced \in [Identities -> Nat]
  BY DEF IInv, TypeOK
<1> DEFINE s == obj[ref[c]]
<1>3. PICK u : u = [s EXCEPT !.users = @ - 1]
  OBVIOUS
<1>4. obj' = [obj EXCEPT ![ref[c]] = u]
  BY <1>1, <1>2, <1>3 DEF CancelWait
<1>5. u.users = s.users - 1 /\ u.listings = s.listings /\ u.until = s.until /\ u.gate = s.gate
  BY <1>1, <1>3 DEF RequestStates
<1>6. u.responses = s.responses /\ u.bytes = s.bytes
  BY <1>1, <1>3 DEF RequestStates
<1>7. u \in RequestStates
  BY <1>1, <1>3 DEF RequestStates
<1>8. CacheOK(u)
  BY <1>1, <1>6 DEF CacheOK
<1>9. Left(s, u, pc[c])
  BY <1>1, <1>5, <1>7, <1>8 DEF Left, CancelWait, RequestStates
<1>10. \E p, w, f : Leaves(c, p, w, f)
  BY FailLeaves DEF CancelWait, Results
<1> HIDE DEF s
<1> QED BY <1>1, <1>2, <1>4, <1>9, <1>10, LeaveInv DEF CancelWait, s

(* An answer from the cache keeps the invariant.                             *)
LEMMA ServeCachedInv ==
  ASSUME IInv, NEW c \in Callers, ServeCached(c) PROVE IInv'
<1>1. pc[c] = "hold" /\ home[c] = None
  BY DEF ServeCached, AtRoundTrip, Hit, Caches, IInv, ShapeInv
<1>2. Leaves(c, "idle", NoOp, None)
  BY <1>1, LeavingSteps DEF ServeCached
<1> QED BY <1>1, <1>2, ReleaseInv, ExpiredInv DEF ServeCached

(* A request refused before its deadline keeps the invariant.                *)
LEMMA RefuseThrottledInv ==
  ASSUME IInv, NEW c \in Callers, RefuseThrottled(c) PROVE IInv'
<1>1. pc[c] = "hold"
  BY DEF RefuseThrottled, AtRoundTrip
<1>2. \E p, w, f : Leaves(c, p, w, f)
  BY <1>1, FailLeaves DEF RefuseThrottled, Results
<1> QED BY <1>1, <1>2, ReleaseInv, ExpiredInv DEF RefuseThrottled

(* A request that fails keeps the invariant.                                 *)
LEMMA TransportErrorInv ==
  ASSUME IInv, NEW c \in Callers, TransportError(c) PROVE IInv'
<1>1. \E p, w, f : Leaves(c, p, w, f)
  BY FailLeaves DEF TransportError, Results
<1> QED BY <1>1, ReleaseInv, ExpiredInv DEF TransportError

(* A listing served from the cache keeps the invariant.                      *)
LEMMA ServeListingInv ==
  ASSUME IInv, NEW c \in Callers, ServeListing(c) PROVE IInv'
<1>1. pc[c] = "hold" /\ home[c] = None
  BY DEF ServeListing, AtListing, Leads
<1>2. Leaves(c, "idle", NoOp, None)
  BY <1>1, LeavingSteps DEF ServeListing
<1> QED BY <1>1, <1>2, ReleaseInv, ExpiredInv DEF ServeListing

(* A listing refused because too many flights are open keeps the invariant.  *)
LEMMA RefuseListingInv ==
  ASSUME IInv, NEW c \in Callers, RefuseListing(c) PROVE IInv'
<1>1. pc[c] = "hold" /\ home[c] = None
  BY DEF RefuseListing, AtListing, Leads
<1>2. Leaves(c, "idle", NoOp, None)
  BY <1>1, LeavingSteps DEF RefuseListing
<1> QED BY <1>1, <1>2, ReleaseInv, ExpiredInv DEF RefuseListing

(* A caller that joins a flight keeps the invariant: the leader noted in its *)
(* state leads the same listing of the same identity.                        *)
LEMMA JoinFlightInv ==
  ASSUME IInv, NEW c \in Callers, JoinFlight(c) PROVE IInv'
<1>1. TypeOK /\ ShapeInv /\ StatePinned /\ LeaderInv /\ MapInv
  BY DEF IInv
<1>2. pc[c] = "hold" /\ home[c] = None /\ op[c].kind = "listing" /\ LeaderOf(c) # None
  BY DEF JoinFlight, AtListing, Leads
<1>3. ref[c] \in Objects /\ ref[c] # None /\ states[op[c].id] = ref[c] /\ obj[ref[c]] \in RequestStates
  BY <1>2, ReservedCounted
<1>4. op[c] \in Ops /\ op[c].key \in ListingKeys /\ op[c].id \in Identities
  BY <1>1, <1>2, OpFields DEF TypeOK
<1> DEFINE l == LeaderOf(c)
<1>5. l \in Callers /\ home[l] = ref[c] /\ op[l].key = op[c].key
  BY <1>1, <1>2, <1>3, <1>4 DEF LeaderInv, LeaderOf, RequestStates
<1>6. op[l] \in Ops /\ op[l].id \in Identities /\ states[op[l].id] = ref[c]
  BY <1>1, <1>3, <1>5, OpFields DEF TypeOK, StatePinned
<1>7. op[l].id = op[c].id /\ l # c
  BY <1>1, <1>2, <1>3, <1>4, <1>5, <1>6 DEF MapInv
<1>8. Leaves(c, "joined", op[c], l)
  <2> HIDE DEF l
  <2>1. op = [op EXCEPT ![c] = op[c]] /\ pages' \in [Callers -> Nat] /\ result' \in [Callers -> Results]
    BY <1>1 DEF TypeOK, JoinFlight
  <2>2. flight' = [flight EXCEPT ![c] = l]
    BY DEF JoinFlight, l
  <2> QED BY <1>2, <1>3, <1>5, <1>7, <2>1, <2>2 DEF Leaves, JoinFlight
<1> QED BY <1>2, <1>8, ReleaseInv, ExpiredInv DEF JoinFlight

(* An answer keeps the invariant, whatever it says: the deadline covers what it   *)
(* asked for before the next caller can pass the gate.                       *)
LEMMA ReceiveInv ==
  ASSUME IInv, NEW c \in Callers, NEW r \in Responses, Receive(c, r) PROVE IInv'
<1> DEFINE s == obj[ref[c]]
           seen == Observe(s, r)
           t == IF Good(r) /\ Caches(c) THEN StoreInto(seen, op[c].key, r.size) ELSE seen
<1>1. TypeOK /\ pc[c] = "http"
  BY DEF Receive, IInv
<1>2. ref[c] \in Objects /\ s \in RequestStates /\ CacheOK(s) /\ s.users >= 1
      /\ op[c].id \in Identities
  BY <1>1, ReservedCounted
<1>3. Calm(s, seen) /\ seen.until >= Asked(r) /\ Asked(r) \in Nat
  BY <1>1, <1>2, ObserveCalm
<1>4. Calm(s, t) /\ t.until >= seen.until /\ seen.until \in Nat /\ t.until \in Nat
  <2>1. seen \in RequestStates /\ CacheOK(seen) /\ seen.until \in Nat
    BY <1>3 DEF Calm, RequestStates
  <2>2. CASE Good(r) /\ Caches(c)
    <3>1. op[c].key \in Keys /\ r.size \in Nat /\ now \in Nat
      BY <1>1, <2>2, OpFields, ConstantsAssumption DEF TypeOK, Caches, Responses
    <3>2. Calm(seen, StoreInto(seen, op[c].key, r.size))
      BY <2>1, <3>1, StoreCalm
    <3>3. Calm(s, t)
      BY <1>2, <1>3, <2>2, <3>2, CalmTwice
    <3> QED BY <2>1, <2>2, <3>2, <3>3 DEF Calm, RequestStates
  <2>3. CASE ~ (Good(r) /\ Caches(c))
    <3> HIDE DEF seen
    <3> QED BY <1>3, <2>1, <2>3
  <2> QED BY <2>2, <2>3
<1> DEFINE u == [t EXCEPT !.users = @ - 1, !.lastUsed = now, !.gate = TRUE]
<1> HIDE DEF t, seen
<1>5. Left(s, u, pc[c])
  BY <1>1, <1>2, <1>4, ReleaseLeft DEF TypeOK
<1>6. obj' = [obj EXCEPT ![ref[c]] = u]
  BY DEF Receive, Release, t, seen
<1>7. u.until = t.until
  BY <1>4 DEF Calm, RequestStates
<1> HIDE DEF u
<1>8. \E p, w, f : Leaves(c, p, w, f)
  BY <1>1, FailLeaves, DeliveredLeaves DEF Receive, Results
<1>9. /\ announced' \in [Identities -> Nat]
      /\ \A k \in Identities : \/ announced'[k] = announced[k]
                               \/ k = op[c].id /\ announced'[k] <= u.until
  <2>1. announced \in [Identities -> Nat]
        /\ announced' = [announced EXCEPT ![op[c].id] = Later(@, Asked(r))]
    BY <1>1 DEF TypeOK, Receive
  <2> QED BY <1>2, <1>3, <1>4, <1>7, <2>1 DEF Later
<1>10. states' = states /\ now' = now
  BY DEF Receive
<1> HIDE DEF s
<1> QED BY <1>1, <1>2, <1>5, <1>6, <1>8, <1>9, <1>10, LeaveInv DEF s

-----------------------------------------------------------------------------
(* A caller takes the token, or passes on with it.                           *)

(* Taking the token of a state that has it, or going on to the request with it,   *)
(* keeps the invariant.                                                      *)
LEMMA GateInv ==
  ASSUME IInv, NEW c \in Callers, NEW o \in Objects, NEW p, NEW t, t \in RequestStates, CacheOK(t),
         t.users = obj[o].users, t.listings = obj[o].listings, t.until >= obj[o].until,
         \/ pc[c] = "wait" /\ p = "hold" /\ ref[c] = o /\ obj[o].gate /\ ~t.gate
         \/ pc[c] = "hold" /\ p = "http" /\ ref[c] = o /\ t.gate = obj[o].gate
         \/ pc[c] = "commit" /\ p = "publish" /\ home[c] = o /\ obj[o].gate /\ ~t.gate,
         obj' = [obj EXCEPT ![o] = t], pc' = [pc EXCEPT ![c] = p],
         UNCHANGED <<now, states, op, ref, home, pages, result, flight, announced>>
  PROVE  IInv'
<1>1. /\ TypeOK /\ ShapeInv /\ StatePinned /\ UsersInv /\ LeaderInv /\ TokenInv /\ MapInv
      /\ ThrottleInv /\ JoinInv /\ CacheInv
  BY DEF IInv
<1>2. obj \in [Objects -> RequestStates] /\ obj' \in [Objects -> RequestStates]
      /\ obj'[o] = t /\ \A x \in Objects : x # o => obj'[x] = obj[x]
  BY <1>1 DEF TypeOK
<1>3. pc \in [Callers -> PCs] /\ p \in PCs /\ pc'[c] = p /\ \A d \in Callers : d # c => pc'[d] = pc[d]
  BY <1>1 DEF TypeOK, PCs
<1>4. TypeOK'
  BY <1>1, <1>2, <1>3 DEF TypeOK
<1>5. ShapeInv'
  BY <1>1, <1>3 DEF ShapeInv
<1>6. StatePinned' /\ MapInv' /\ JoinInv'
  BY <1>1 DEF StatePinned, MapInv, JoinInv
<1>7. UsersInv'
  <2>1. \A x \in Objects : Users(x)' = Users(x) /\ obj'[x].users = obj[x].users
    BY <1>2 DEF Users
  <2> QED BY <1>1, <2>1 DEF UsersInv
<1>8. LeaderInv'
  <2>1. \A x \in Objects : obj'[x].listings = obj[x].listings
    BY <1>2
  <2>2. \A d \in Callers : home[d] # None => home[d] \in Objects
    BY <1>1 DEF TypeOK
  <2> QED BY <1>1, <2>1, <2>2 DEF LeaderInv
<1>9. TokenInv'
  <2>1. \A d \in Callers, x \in Objects : HasToken(d, x)' => HasToken(d, x) \/ (d = c /\ x = o)
    <3>1. ~(ref[c] # None /\ pc[c] = "commit") /\ (home[c] # o => pc'[c] # "publish")
      BY <1>1, <1>3 DEF ShapeInv
    <3>2. ref[c] # o => pc'[c] = "publish"
      BY <1>3
    <3> QED BY <1>3, <3>1, <3>2 DEF HasToken
  <2>2. CASE obj[o].gate /\ ~t.gate
    <3>1. \A d \in Callers : ~HasToken(d, o)
      BY <1>1, <2>2 DEF TokenInv
    <3>2. \A d \in Callers, x \in Objects : HasToken(d, x)' => ~obj'[x].gate
      BY <1>1, <1>2, <2>1, <2>2 DEF TokenInv
    <3>3. \A d, e \in Callers, x \in Objects : HasToken(d, x)' /\ HasToken(e, x)' => d = e
      BY <1>1, <2>1, <3>1 DEF TokenInv
    <3> QED BY <3>2, <3>3 DEF TokenInv
  <2>3. CASE pc[c] = "hold" /\ ref[c] = o /\ t.gate = obj[o].gate
    <3>1. HasToken(c, o)
      BY <2>3 DEF HasToken
    <3>2. \A d \in Callers, x \in Objects : HasToken(d, x)' => HasToken(d, x)
      BY <2>1, <3>1
    <3>3. \A x \in Objects : obj'[x].gate = obj[x].gate
      BY <1>2, <2>3
    <3> QED BY <1>1, <3>2, <3>3 DEF TokenInv
  <2> QED BY <2>2, <2>3
<1>10. ThrottleInv'
  <2> SUFFICES ASSUME NEW k \in Identities
               PROVE  \/ announced[k] <= now
                      \/ states[k] # None /\ announced[k] <= obj'[states[k]].until
    BY DEF ThrottleInv
  <2>1. CASE states[k] # None /\ announced[k] <= obj[states[k]].until
    <3>1. states[k] \in Objects /\ announced[k] \in Nat
      BY <1>1, <2>1 DEF TypeOK
    <3>2. obj[states[k]].until \in Nat /\ obj'[states[k]].until \in Nat
          /\ obj'[states[k]].until >= obj[states[k]].until
      BY <1>2, <3>1 DEF RequestStates
    <3> QED BY <2>1, <3>1, <3>2
  <2> QED BY <1>1, <2>1 DEF ThrottleInv
<1>11. CacheInv'
  <2>1. \A x \in Objects : CacheOK(obj'[x])
    BY <1>1, <1>2 DEF CacheInv
  <2> QED BY <2>1 DEF CacheInv
<1> QED BY <1>4, <1>5, <1>6, <1>7, <1>8, <1>9, <1>10, <1>11 DEF IInv

(* A state that only lost its token.                                         *)
LEMMA TokenTaken ==
  ASSUME IInv, NEW o \in Objects
  PROVE  LET t == [obj[o] EXCEPT !.gate = FALSE] IN
         /\ t \in RequestStates /\ CacheOK(t) /\ ~t.gate
         /\ t.users = obj[o].users /\ t.listings = obj[o].listings /\ t.until >= obj[o].until
<1>1. obj[o] \in RequestStates /\ CacheOK(obj[o])
  BY DEF IInv, TypeOK, CacheInv
<1> DEFINE t == [obj[o] EXCEPT !.gate = FALSE]
<1>2. t \in RequestStates
  BY <1>1 DEF RequestStates
<1>3. t.responses = obj[o].responses /\ t.bytes = obj[o].bytes
  BY <1>1 DEF RequestStates
<1>4. CacheOK(t)
  <2> HIDE DEF t
  <2> QED BY <1>1, <1>3 DEF CacheOK
<1>5. ~t.gate /\ t.users = obj[o].users /\ t.listings = obj[o].listings /\ t.until >= obj[o].until
  BY <1>1 DEF RequestStates
<1> HIDE DEF t
<1> QED BY <1>2, <1>4, <1>5 DEF t

(* Taking the gate keeps the invariant.                                      *)
LEMMA TakeGateInv ==
  ASSUME IInv, NEW c \in Callers, TakeGate(c) PROVE IInv'
<1>1. pc[c] = "wait" /\ ref[c] \in Objects /\ obj[ref[c]].gate
  BY ReservedCounted DEF TakeGate
<1>2. obj \in [Objects -> RequestStates]
  BY DEF IInv, TypeOK
<1>3. PICK t : t = [obj[ref[c]] EXCEPT !.gate = FALSE]
  OBVIOUS
<1>4. /\ t \in RequestStates /\ CacheOK(t) /\ ~t.gate /\ t.users = obj[ref[c]].users
      /\ t.listings = obj[ref[c]].listings /\ t.until >= obj[ref[c]].until
  BY <1>1, <1>3, TokenTaken
<1>5. obj' = [obj EXCEPT ![ref[c]] = t]
  BY <1>1, <1>2, <1>3 DEF TakeGate
<1> QED BY <1>1, <1>4, <1>5, GateInv DEF TakeGate

(* A leader that takes the gate without a reservation keeps the invariant.   *)
LEMMA TakeToPublishInv ==
  ASSUME IInv, NEW c \in Callers, TakeToPublish(c) PROVE IInv'
<1>1. pc[c] = "commit" /\ home[c] \in Objects /\ obj[home[c]].gate
  BY DEF TakeToPublish, IInv, TypeOK, ShapeInv
<1>2. obj \in [Objects -> RequestStates]
  BY DEF IInv, TypeOK
<1>3. PICK t : t = [obj[home[c]] EXCEPT !.gate = FALSE]
  OBVIOUS
<1>4. /\ t \in RequestStates /\ CacheOK(t) /\ ~t.gate /\ t.users = obj[home[c]].users
      /\ t.listings = obj[home[c]].listings /\ t.until >= obj[home[c]].until
  BY <1>1, <1>3, TokenTaken
<1>5. obj' = [obj EXCEPT ![home[c]] = t]
  BY <1>1, <1>2, <1>3 DEF TakeToPublish
<1> QED BY <1>1, <1>4, <1>5, GateInv DEF TakeToPublish

(* Sending a request keeps the invariant.                                    *)
LEMMA SendInv ==
  ASSUME IInv, NEW c \in Callers, Send(c) PROVE IInv'
<1>1. pc[c] = "hold"
  BY DEF Send, AtRoundTrip
<1>2. ref[c] \in Objects
  BY <1>1, ReservedCounted
<1>3. Calm(obj[ref[c]], Expired(ref[c]))
  BY <1>1, ExpiredInv
<1> QED BY <1>1, <1>2, <1>3, GateInv DEF Send, Calm

(* Time passing keeps the invariant.                                         *)
LEMMA TickInv == ASSUME IInv, Tick PROVE IInv'
<1>1. UNCHANGED <<states, obj, pc, op, ref, home, pages, result, flight, announced>> /\ now' = now + 1
  BY DEF Tick, callVars
<1>2. now \in Nat /\ announced \in [Identities -> Nat]
  BY DEF IInv, TypeOK
<1>3. TypeOK'
  BY <1>1 DEF IInv, TypeOK
<1>4. ShapeInv' /\ StatePinned' /\ UsersInv' /\ LeaderInv'
  BY <1>1 DEF IInv, ShapeInv, StatePinned, UsersInv, LeaderInv, Users
<1>5. TokenInv' /\ MapInv' /\ JoinInv' /\ CacheInv'
  BY <1>1 DEF IInv, TokenInv, MapInv, JoinInv, HasToken, CacheInv
<1>6. ThrottleInv'
  BY <1>1, <1>2 DEF IInv, ThrottleInv
<1> QED BY <1>3, <1>4, <1>5, <1>6 DEF IInv

(* A joiner goes home: it has neither a reservation nor a flight of its own. *)
LEMMA GoHomeInv ==
  ASSUME IInv, NEW c \in Callers, pc[c] = "joined", Return(c), UNCHANGED <<now, states, obj, announced>>
  PROVE  IInv'
<1>1. /\ TypeOK /\ ShapeInv /\ StatePinned /\ UsersInv /\ LeaderInv /\ TokenInv /\ MapInv
      /\ ThrottleInv /\ JoinInv /\ CacheInv
  BY DEF IInv
<1>2. ref[c] = None /\ home[c] = None
  BY <1>1 DEF ShapeInv
<1>3. ref' = ref /\ home' = home /\ pc' = [pc EXCEPT ![c] = "idle"] /\ op' = [op EXCEPT ![c] = NoOp]
      /\ flight' = [flight EXCEPT ![c] = None] /\ pages' = pages
  BY <1>1, <1>2 DEF Return, TypeOK
<1>4. TypeOK'
  BY <1>1, <1>3, NoOpInOps DEF TypeOK, Return, PCs, Results
<1>5. /\ \A d \in Callers : d # c => pc'[d] = pc[d] /\ op'[d] = op[d] /\ flight'[d] = flight[d]
      /\ pc'[c] = "idle" /\ flight'[c] = None
  BY <1>1, <1>3 DEF TypeOK
<1>6. ShapeInv'
  BY <1>1, <1>2, <1>3, <1>5 DEF ShapeInv
<1>7. StatePinned' /\ MapInv' /\ ThrottleInv'
  BY <1>1, <1>2, <1>3, <1>5 DEF StatePinned, MapInv, ThrottleInv
<1>8. UsersInv'
  BY <1>1, <1>3 DEF UsersInv, Users
<1>9. LeaderInv'
  <2>1. \A d \in Callers : home[d] # None => op'[d] = op[d]
    BY <1>2, <1>5
  <2>2. \A x \in Objects, k \in ListingKeys : obj[x].listings[k] # None => obj[x].listings[k] \in Callers
    BY <1>1 DEF TypeOK, RequestStates
  <2> QED BY <1>1, <1>3, <2>1, <2>2, ConstantsAssumption DEF LeaderInv
<1>10. TokenInv'
  <2>1. \A d \in Callers, x \in Objects : HasToken(d, x)' => HasToken(d, x)
    BY <1>3, <1>5 DEF HasToken
  <2> QED BY <1>1, <2>1 DEF TokenInv
<1>11. JoinInv'
  <2>1. \A d \in Callers : home[d] # None => op'[d] = op[d]
    BY <1>2, <1>5
  <2>2. \A d \in Callers : flight'[d] # None => d # c /\ flight'[d] \in Callers
    BY <1>1, <1>5 DEF TypeOK
  <2> QED BY <1>1, <1>3, <1>5, <2>1, <2>2 DEF JoinInv
<1>12. CacheInv'
  BY <1>1 DEF CacheInv
<1> QED BY <1>4, <1>6, <1>7, <1>8, <1>9, <1>10, <1>11, <1>12 DEF IInv

-----------------------------------------------------------------------------
(* A flight starts and is published.                                         *)

(* Deadlines that only move on keep every throttle.                          *)
LEMMA ThrottleKept ==
  ASSUME TypeOK, ThrottleInv, obj' \in [Objects -> RequestStates], now' = now, states' = states,
         announced' = announced, \A x \in Objects : obj'[x].until >= obj[x].until
  PROVE  ThrottleInv'
<1> SUFFICES ASSUME NEW k \in Identities
             PROVE  \/ announced[k] <= now
                    \/ states[k] # None /\ announced[k] <= obj'[states[k]].until
  BY DEF ThrottleInv
<1>1. CASE states[k] # None /\ announced[k] <= obj[states[k]].until
  <2>1. states[k] \in Objects /\ announced[k] \in Nat
    BY <1>1 DEF TypeOK
  <2>2. obj[states[k]].until \in Nat /\ obj'[states[k]].until \in Nat
        /\ obj'[states[k]].until >= obj[states[k]].until
    BY <2>1 DEF TypeOK, RequestStates
  <2> QED BY <1>1, <2>1, <2>2
<1> QED BY <1>1 DEF ThrottleInv

(* Starting a flight keeps the invariant: the listing had no leader, and the *)
(* state stays pinned by the flight when the reservation is gone.            *)
LEMMA StartFlightInv ==
  ASSUME IInv, NEW c \in Callers, StartFlight(c) PROVE IInv'
<1>1. /\ TypeOK /\ ShapeInv /\ StatePinned /\ UsersInv /\ LeaderInv /\ TokenInv /\ MapInv
      /\ ThrottleInv /\ JoinInv /\ CacheInv
  BY DEF IInv
<1> DEFINE key == op[c].key
<1>2. pc[c] = "hold" /\ home[c] = None /\ op[c].kind = "listing" /\ LeaderOf(c) = None
  BY DEF StartFlight, AtListing, Leads
<1>3. PICK o \in Objects : ref[c] = o /\ states[op[c].id] = o /\ obj[o].users >= 1
  BY <1>2, ReservedCounted
<1>4. key \in ListingKeys
  BY <1>1, <1>2, OpFields DEF TypeOK
<1>5. Calm(obj[o], Expired(o)) /\ obj[o] \in RequestStates
  BY <1>1, <1>2, <1>3, ExpiredInv DEF TypeOK
<1>6. PICK e : e = [Expired(o) EXCEPT !.listings[op[c].key] = c]
  OBVIOUS
<1>7. PICK t : t = [e EXCEPT !.users = @ - 1, !.lastUsed = now, !.gate = TRUE]
  OBVIOUS
<1>8. obj' = [obj EXCEPT ![o] = t]
  BY <1>3, <1>6, <1>7 DEF StartFlight, Release
<1>9. /\ Expired(o) \in RequestStates /\ CacheOK(Expired(o)) /\ Expired(o).users = obj[o].users
      /\ Expired(o).listings = obj[o].listings /\ Expired(o).until >= obj[o].until
      /\ obj[o].users \in Nat /\ obj[o].listings \in [ListingKeys -> Callers \cup {None}]
  BY <1>5 DEF Calm, RequestStates
<1>10. /\ e \in RequestStates /\ e.users = obj[o].users /\ e.until >= obj[o].until
       /\ e.listings = [obj[o].listings EXCEPT ![key] = c]
       /\ e.responses = Expired(o).responses /\ e.bytes = Expired(o).bytes
  BY <1>6, <1>9 DEF RequestStates
<1>11. /\ t.users = e.users - 1 /\ t.until = e.until /\ t.gate /\ t.listings = e.listings
       /\ t.responses = e.responses /\ t.bytes = e.bytes
  BY <1>7, <1>10 DEF RequestStates
<1>12. t \in RequestStates
  <2>1. e.users - 1 \in Nat /\ now \in Nat
    BY <1>1, <1>3, <1>9, <1>10 DEF TypeOK
  <2> QED BY <1>7, <1>10, <2>1 DEF RequestStates
<1>13. CacheOK(t)
  BY <1>9, <1>10, <1>11 DEF CacheOK
<1>14. /\ obj \in [Objects -> RequestStates] /\ obj' \in [Objects -> RequestStates] /\ obj'[o] = t
       /\ \A x \in Objects : x # o => obj'[x] = obj[x]
  BY <1>1, <1>8, <1>12 DEF TypeOK
<1>15. /\ pc' = [pc EXCEPT ![c] = "fetch"] /\ ref' = [ref EXCEPT ![c] = None]
       /\ home' = [home EXCEPT ![c] = o]
       /\ UNCHANGED <<now, states, op, pages, result, flight, announced>>
  BY <1>3 DEF StartFlight
<1>16. /\ pc'[c] = "fetch" /\ ref'[c] = None /\ home'[c] = o
       /\ \A d \in Callers : d # c => pc'[d] = pc[d] /\ ref'[d] = ref[d] /\ home'[d] = home[d]
  BY <1>1, <1>15 DEF TypeOK
<1>17. TypeOK'
  BY <1>1, <1>14, <1>15 DEF TypeOK, PCs
<1>18. ShapeInv'
  BY <1>1, <1>2, <1>15, <1>16, ConstantsAssumption DEF ShapeInv
<1>19. StatePinned'
  BY <1>1, <1>3, <1>15, <1>16 DEF StatePinned
<1>20. UsersInv'
  <2>1. /\ Cardinality(Users(o)') = Cardinality(Users(o)) - 1
        /\ \A x \in Objects : x # o => Users(x)' = Users(x)
    BY <1>1, <1>3, <1>15, UsersDrop
  <2>2. \A x \in Objects : obj[x].users = Cardinality(Users(x))
    BY <1>1 DEF UsersInv
  <2>3. obj'[o].users = obj[o].users - 1
    BY <1>10, <1>11, <1>14
  <2>4. \A x \in Objects : obj'[x].users = Cardinality(Users(x)')
    BY <1>14, <2>1, <2>2, <2>3
  <2> QED BY <2>4 DEF UsersInv
<1>21. LeaderInv'
  <2>1. obj[o].listings[key] = None
    BY <1>2, <1>3 DEF LeaderOf
  <2>2. obj'[o].listings = [obj[o].listings EXCEPT ![key] = c]
    BY <1>10, <1>11, <1>14
  <2>3. ASSUME NEW d \in Callers, home'[d] # None
        PROVE  obj'[home'[d]].listings[op'[d].key] = d
    <3>1. CASE d = c
      BY <1>4, <1>9, <1>15, <1>16, <2>2, <3>1
    <3>2. CASE d # c
      <4>1. home'[d] = home[d] /\ home[d] \in Objects /\ obj[home[d]].listings[op[d].key] = d
        BY <1>1, <1>16, <2>3, <3>2 DEF TypeOK, LeaderInv
      <4>2. home[d] = o => op[d].key # key
        BY <2>1, <4>1, ConstantsAssumption
      <4>3. op[d].key \in ListingKeys
        BY <1>1, <2>3, <4>1, OpFields DEF TypeOK, ShapeInv
      <4>4. CASE home[d] = o
        BY <1>9, <1>15, <2>2, <4>1, <4>2, <4>3, <4>4
      <4>5. CASE home[d] # o
        BY <1>14, <1>15, <4>1, <4>5
      <4> QED BY <4>4, <4>5
    <3> QED BY <3>1, <3>2
  <2>4. ASSUME NEW x \in Objects, NEW k \in ListingKeys, obj'[x].listings[k] # None
        PROVE  home'[obj'[x].listings[k]] = x /\ op'[obj'[x].listings[k]].key = k
    <3>1. CASE x = o /\ k = key
      BY <1>4, <1>9, <1>15, <1>16, <2>2, <3>1
    <3>2. CASE ~(x = o /\ k = key)
      <4>1. obj'[x].listings[k] = obj[x].listings[k]
        BY <1>9, <1>14, <2>2, <3>2
      <4>2. obj[x].listings[k] \in Callers
        BY <1>14, <2>4, <4>1 DEF RequestStates
      <4>3. home[obj[x].listings[k]] = x /\ op[obj[x].listings[k]].key = k
        BY <1>1, <2>4, <4>1 DEF LeaderInv
      <4> QED BY <1>2, <1>15, <1>16, <4>1, <4>2, <4>3, ConstantsAssumption
    <3> QED BY <3>1, <3>2
  <2> QED BY <2>3, <2>4 DEF LeaderInv
<1>22. TokenInv'
  <2>1. HasToken(c, o)
    BY <1>2, <1>3 DEF HasToken
  <2>2. \A d \in Callers, x \in Objects : HasToken(d, x)' => HasToken(d, x) /\ d # c
    BY <1>16, ConstantsAssumption DEF HasToken
  <2>3. \A d \in Callers, x \in Objects : HasToken(d, x)' => x # o
    BY <1>1, <2>1, <2>2 DEF TokenInv
  <2> QED BY <1>1, <1>14, <2>2, <2>3 DEF TokenInv
<1>23. MapInv' /\ CacheInv'
  <2>1. \A x \in Objects : CacheOK(obj'[x])
    BY <1>1, <1>13, <1>14 DEF CacheInv
  <2> QED BY <1>1, <1>15, <2>1 DEF MapInv, CacheInv
<1>24. ThrottleInv'
  <2>1. \A x \in Objects : obj'[x].until >= obj[x].until
    BY <1>10, <1>11, <1>14 DEF RequestStates
  <2> QED BY <1>1, <1>14, <1>15, <2>1, ThrottleKept
<1>25. JoinInv'
  <2>1. \A d \in Callers : home[d] # None => home'[d] # None
    BY <1>2, <1>16
  <2>2. \A d \in Callers : flight[d] # None => flight[d] \in Callers
    BY <1>1 DEF TypeOK
  <2> QED BY <1>1, <1>15, <2>1, <2>2 DEF JoinInv
<1> QED BY <1>17, <1>18, <1>19, <1>20, <1>21, <1>22, <1>23, <1>24, <1>25 DEF IInv

(* Publishing a flight keeps the invariant: nobody is left waiting for it.   *)
LEMMA PublishInv ==
  ASSUME IInv, NEW c \in Callers, NEW size \in Sizes, Publish(c, size) PROVE IInv'
<1>1. /\ TypeOK /\ ShapeInv /\ StatePinned /\ UsersInv /\ LeaderInv /\ TokenInv /\ MapInv
      /\ ThrottleInv /\ JoinInv /\ CacheInv
  BY DEF IInv
<1> DEFINE key == op[c].key
<1>2. pc[c] = "publish" /\ ref[c] = None /\ flight[c] = None /\ op[c].kind = "listing"
  BY <1>1 DEF Publish, ShapeInv
<1>3. PICK o \in Objects : home[c] = o
  BY <1>1, <1>2 DEF ShapeInv, TypeOK
<1>4. key \in ListingKeys /\ key \in Keys
  BY <1>1, <1>2, OpFields DEF TypeOK
<1>5. obj[o] \in RequestStates /\ CacheOK(obj[o]) /\ obj[o].listings[key] = c /\ o # None
  BY <1>1, <1>3, ConstantsAssumption DEF TypeOK, CacheInv, LeaderInv
<1>6. PICK e : e = IF result[c] = "ok" THEN StoreInto(obj[o], op[c].key, size) ELSE obj[o]
  OBVIOUS
<1>7. Calm(obj[o], e)
  <2>1. size \in Nat /\ now \in Nat
    BY <1>1, ConstantsAssumption DEF TypeOK
  <2>2. Calm(obj[o], obj[o]) /\ Calm(obj[o], StoreInto(obj[o], op[c].key, size))
    BY <1>4, <1>5, <2>1, SelfCalm, StoreCalm
  <2> QED BY <1>6, <2>2
<1>8. PICK t : t = [e EXCEPT !.listings[op[c].key] = None, !.gate = TRUE]
  OBVIOUS
<1>9. obj' = [obj EXCEPT ![o] = t]
  BY <1>3, <1>6, <1>8 DEF Publish, Published
<1>10. /\ e \in RequestStates /\ CacheOK(e) /\ e.users = obj[o].users
       /\ e.listings = obj[o].listings /\ e.until >= obj[o].until
       /\ obj[o].listings \in [ListingKeys -> Callers \cup {None}]
  BY <1>5, <1>7 DEF Calm, RequestStates
<1>11. /\ t.users = obj[o].users /\ t.until >= obj[o].until /\ t.gate
       /\ t.listings = [obj[o].listings EXCEPT ![key] = None]
       /\ t.responses = e.responses /\ t.bytes = e.bytes
  BY <1>8, <1>10 DEF RequestStates
<1>12. t \in RequestStates
  BY <1>8, <1>10 DEF RequestStates
<1>13. CacheOK(t)
  BY <1>10, <1>11 DEF CacheOK
<1>14. /\ obj \in [Objects -> RequestStates] /\ obj' \in [Objects -> RequestStates] /\ obj'[o] = t
       /\ \A x \in Objects : x # o => obj'[x] = obj[x]
  BY <1>1, <1>9, <1>12 DEF TypeOK
<1>15. /\ pc' = [pc EXCEPT ![c] = "idle"] /\ op' = [op EXCEPT ![c] = NoOp]
       /\ home' = [home EXCEPT ![c] = None]
       /\ flight' = [d \in Callers |-> IF flight[d] = c THEN None ELSE flight[d]]
       /\ UNCHANGED <<now, states, ref, pages, announced>>
  BY DEF Publish, EndFlight, CloseFlight
<1>16. /\ pc'[c] = "idle" /\ ref'[c] = None /\ home'[c] = None /\ flight'[c] = None
       /\ \A d \in Callers : d # c => pc'[d] = pc[d] /\ op'[d] = op[d] /\ home'[d] = home[d]
       /\ \A d \in Callers : flight'[d] # None => flight'[d] = flight[d] /\ flight[d] # c
  BY <1>1, <1>2, <1>15 DEF TypeOK
<1>17. TypeOK'
  <2>1. FlightResult(c) \in Results
    BY <1>1 DEF FlightResult, TypeOK, Results
  <2>2. result' \in [Callers -> Results]
    BY <1>1, <2>1 DEF Publish, CloseFlight, TypeOK, Results
  <2>3. flight' \in [Callers -> Callers \cup {None}]
    BY <1>1, <1>15 DEF TypeOK
  <2> QED BY <1>1, <1>14, <1>15, <2>2, <2>3, NoOpInOps DEF TypeOK, PCs
<1>18. ShapeInv'
  BY <1>1, <1>2, <1>15, <1>16 DEF ShapeInv
<1>19. StatePinned'
  BY <1>1, <1>2, <1>15, <1>16 DEF StatePinned
<1>20. UsersInv'
  <2>1. \A x \in Objects : Users(x)' = Users(x) /\ obj'[x].users = obj[x].users
    BY <1>11, <1>14, <1>15 DEF Users
  <2> QED BY <1>1, <2>1 DEF UsersInv
<1>21. LeaderInv'
  <2>2. obj'[o].listings = [obj[o].listings EXCEPT ![key] = None]
    BY <1>11, <1>14
  <2>3. ASSUME NEW d \in Callers, home'[d] # None
        PROVE  obj'[home'[d]].listings[op'[d].key] = d
    <3>1. d # c
      BY <1>16, <2>3
    <3>2. home'[d] = home[d] /\ home[d] \in Objects /\ obj[home[d]].listings[op[d].key] = d
      BY <1>1, <1>16, <2>3, <3>1 DEF TypeOK, LeaderInv
    <3>3. home[d] = o => op[d].key # key
      BY <1>5, <3>1, <3>2
    <3>4. op[d].key \in ListingKeys /\ op'[d] = op[d]
      BY <1>1, <1>16, <2>3, <3>1, <3>2, OpFields DEF TypeOK, ShapeInv
    <3>5. CASE home[d] = o
      BY <1>10, <2>2, <3>2, <3>3, <3>4, <3>5
    <3>6. CASE home[d] # o
      BY <1>14, <3>2, <3>4, <3>6
    <3> QED BY <3>5, <3>6
  <2>4. ASSUME NEW x \in Objects, NEW k \in ListingKeys, obj'[x].listings[k] # None
        PROVE  home'[obj'[x].listings[k]] = x /\ op'[obj'[x].listings[k]].key = k
    <3>1. ~(x = o /\ k = key)
      BY <1>10, <2>2, <2>4
    <3>2. obj'[x].listings[k] = obj[x].listings[k]
      BY <1>10, <1>14, <2>2, <3>1
    <3>3. obj[x].listings[k] \in Callers
      BY <1>14, <2>4, <3>2 DEF RequestStates
    <3>4. home[obj[x].listings[k]] = x /\ op[obj[x].listings[k]].key = k
      BY <1>1, <2>4, <3>2 DEF LeaderInv
    <3>5. obj[x].listings[k] # c
      BY <1>3, <3>1, <3>4
    <3> QED BY <1>16, <3>2, <3>3, <3>4, <3>5
  <2> QED BY <2>3, <2>4 DEF LeaderInv
<1>22. TokenInv'
  <2>1. HasToken(c, o)
    BY <1>2, <1>3 DEF HasToken
  <2>2. \A d \in Callers, x \in Objects : HasToken(d, x)' => HasToken(d, x) /\ d # c
    BY <1>15, <1>16 DEF HasToken
  <2>3. \A d \in Callers, x \in Objects : HasToken(d, x)' => x # o
    BY <1>1, <2>1, <2>2 DEF TokenInv
  <2> QED BY <1>1, <1>14, <2>2, <2>3 DEF TokenInv
<1>23. MapInv' /\ CacheInv'
  <2>1. \A x \in Objects : CacheOK(obj'[x])
    BY <1>1, <1>13, <1>14 DEF CacheInv
  <2> QED BY <1>1, <1>15, <2>1 DEF MapInv, CacheInv
<1>24. ThrottleInv'
  <2>1. ASSUME NEW x \in Objects PROVE obj'[x].until >= obj[x].until
    <3>1. obj[x].until \in Nat
      BY <1>14 DEF RequestStates
    <3> QED BY <1>11, <1>14, <3>1
  <2> QED BY <1>1, <1>14, <1>15, <2>1, ThrottleKept
<1>25. JoinInv'
  <2> SUFFICES ASSUME NEW d \in Callers, flight'[d] # None
               PROVE  /\ home'[flight'[d]] # None
                      /\ op'[flight'[d]].id = op'[d].id /\ op'[flight'[d]].key = op'[d].key
    BY DEF JoinInv
  <2>1. d # c /\ flight'[d] = flight[d] /\ flight[d] \in Callers /\ flight[d] # c
    BY <1>1, <1>16 DEF TypeOK
  <2> QED BY <1>1, <1>16, <2>1 DEF JoinInv
<1> QED BY <1>17, <1>18, <1>19, <1>20, <1>21, <1>22, <1>23, <1>24, <1>25 DEF IInv

-----------------------------------------------------------------------------
(* acquire: the sweep of evictable states and the reservation.               *)

(* A new state has its token, no users, no deadline, no flights and an empty *)
(* cache.                                                                    *)
LEMMA NewStateOK ==
  /\ NewState \in RequestStates /\ CacheOK(NewState) /\ NewState.gate /\ NewState.users = 0
  /\ NewState.until = 0 /\ \A k \in ListingKeys : NewState.listings[k] = None
<1>1. NewState \in RequestStates
  BY DEF NewState, RequestStates, NoListings, NoResponses
<1>2. Stored(NewState.responses) = {} /\ NewState.bytes = 0
  BY DEF NewState, NoResponses, Stored
<1>3. CacheOK(NewState)
  BY <1>2, SizeEmpty, FS_EmptySet, ConstantsAssumption DEF CacheOK
<1> QED BY <1>1, <1>3 DEF NewState, NoListings

(* A state that a caller has reserved or leads a flight on is never evictable.    *)
LEMMA PinnedStays ==
  ASSUME IInv, NEW c \in Callers, ref[c] # None \/ home[c] # None
  PROVE  op[c].id \in Identities /\ op[c].id \notin Evictable /\ states[op[c].id] # None
<1>1. TypeOK /\ ShapeInv /\ StatePinned /\ LeaderInv
  BY DEF IInv
<1>2. op[c] \in Ops /\ op[c].id \in Identities
  BY <1>1, OpFields DEF TypeOK
<1>3. CASE ref[c] # None
  <2>1. pc[c] \in {"wait", "hold", "http"}
    BY <1>1, <1>3 DEF ShapeInv
  <2>2. states[op[c].id] = ref[c] /\ obj[ref[c]].users >= 1
    BY <2>1, ReservedCounted
  <2> QED BY <1>2, <1>3, <2>2 DEF Evictable, Unpinned
<1>4. CASE home[c] # None
  <2>1. states[op[c].id] = home[c] /\ obj[home[c]].listings[op[c].key] = c /\ op[c].key \in ListingKeys
    BY <1>1, <1>2, <1>4, OpFields DEF StatePinned, LeaderInv, ShapeInv
  <2>2. obj[home[c]].listings # NoListings
    BY <2>1, ConstantsAssumption DEF NoListings
  <2> QED BY <1>2, <1>4, <2>1, <2>2 DEF Evictable, Unpinned
<1> QED BY <1>3, <1>4

(* What acquire deletes leaves every pinned state, and the throttle of the others. *)
LEMMA Swept ==
  ASSUME IInv, NEW S \in SUBSET Evictable
  PROVE  /\ Without(S) \in [Identities -> Objects \cup {None}]
         /\ Collected(S) \in [Objects -> RequestStates]
         /\ \A o \in Objects : CacheOK(Collected(S)[o])
         /\ \A o \in Objects : Held(o) => Collected(S)[o] = obj[o]
         /\ \A o \in Objects : Collected(S)[o] = obj[o] \/ (Collected(S)[o] = NewState /\ ~Held(o))
         /\ \A k \in Identities :
              Without(S)[k] # None => k \notin S /\ Without(S)[k] = states[k]
                                      /\ Collected(S)[states[k]] = obj[states[k]]
         /\ \A k \in Identities : Without(S)[k] = None => announced[k] <= now
         /\ \A c \in Callers : ref[c] # None \/ home[c] # None =>
              Without(S)[op[c].id] = states[op[c].id]
<1>1. TypeOK /\ MapInv /\ ThrottleInv /\ CacheInv
  BY DEF IInv
<1>2. states \in [Identities -> Objects \cup {None}] /\ obj \in [Objects -> RequestStates]
      /\ S \in SUBSET Identities
  BY <1>1 DEF TypeOK, Evictable
<1>3. Without(S) \in [Identities -> Objects \cup {None}]
  BY <1>2 DEF Without
<1>4. \A o \in Objects : Collected(S)[o] = obj[o] \/ (Collected(S)[o] = NewState /\ ~Held(o))
  <2> SUFFICES ASSUME NEW o \in Objects
               PROVE  Collected(S)[o] = obj[o] \/ (Collected(S)[o] = NewState /\ ~Held(o))
    OBVIOUS
  <2> DEFINE b == ~Held(o) /\ \E k \in S : states[k] = o
  <2>1. Collected(S)[o] = IF b THEN NewState ELSE obj[o]
    BY DEF Collected
  <2>2. b => ~Held(o)
    OBVIOUS
  <2> HIDE DEF b
  <2>3. CASE b
    BY <2>1, <2>2, <2>3
  <2>4. CASE ~b
    BY <2>1, <2>4
  <2> QED BY <2>3, <2>4
<1>5. Collected(S) \in [Objects -> RequestStates] /\ \A o \in Objects : CacheOK(Collected(S)[o])
  <2>1. \A o \in Objects : Collected(S)[o] \in RequestStates /\ CacheOK(Collected(S)[o])
    BY <1>1, <1>2, <1>4, NewStateOK DEF CacheInv
  <2> QED BY <2>1 DEF Collected
<1>6. ASSUME NEW k \in Identities, Without(S)[k] # None
      PROVE  k \notin S /\ Without(S)[k] = states[k] /\ Collected(S)[states[k]] = obj[states[k]]
  <2>1. k \notin S /\ Without(S)[k] = states[k] /\ states[k] \in Objects /\ states[k] # None
    BY <1>2, <1>6 DEF Without
  <2>2. ~ \E j \in S : states[j] = states[k]
    BY <1>1, <1>2, <2>1 DEF MapInv
  <2> QED BY <2>1, <2>2 DEF Collected
<1>7. ASSUME NEW k \in Identities, Without(S)[k] = None
      PROVE  announced[k] <= now
  <2>1. CASE k \in S
    <3>1. states[k] \in Objects /\ now >= obj[states[k]].until
      BY <1>2, <2>1 DEF Evictable, Unpinned
    <3>2. now \in Nat /\ announced[k] \in Nat /\ obj[states[k]].until \in Nat
      BY <1>1, <3>1 DEF TypeOK, RequestStates
    <3> QED BY <1>1, <3>1, <3>2 DEF ThrottleInv
  <2>2. CASE k \notin S
    BY <1>1, <1>7, <2>2 DEF Without, ThrottleInv
  <2> QED BY <2>1, <2>2
<1>8. ASSUME NEW c \in Callers, ref[c] # None \/ home[c] # None
      PROVE  Without(S)[op[c].id] = states[op[c].id]
  BY <1>8, PinnedStays DEF Without
<1> QED BY <1>3, <1>4, <1>5, <1>6, <1>7, <1>8

(* A sweep leaves no object with two identities.                             *)
LEMMA SweptMap ==
  ASSUME IInv, NEW S \in SUBSET Evictable, NEW j \in Identities, NEW k \in Identities,
         Without(S)[j] # None, Without(S)[j] = Without(S)[k]
  PROVE  j = k
BY Swept DEF IInv, MapInv

(* A reservation keeps a state a state.                                      *)
LEMMA ReservedOK ==
  ASSUME NEW s \in RequestStates, now \in Nat
  PROVE  Reserved(s) \in RequestStates
<1>1. s.users + 1 \in Nat
  BY DEF RequestStates
<1> QED BY <1>1 DEF Reserved, RequestStates

(* A caller that reserves object o, whose state was b, for identity w.id.    *)
LEMMA ReserveInv ==
  ASSUME IInv, NEW c \in Callers, NEW w \in Ops, Enters(c, w), NEW o \in Objects, NEW b,
         NEW S \in SUBSET Evictable, Reserve(c, w, o),
         states' \in [Identities -> Objects \cup {None}],
         obj' = [Collected(S) EXCEPT ![o] = Reserved(b)],
         states'[w.id] = o, home[c] # None => home[c] = o,
         \A k \in Identities : k # w.id => states'[k] = Without(S)[k] /\ states'[k] # o,
         \/ Without(S)[w.id] = o /\ b = Collected(S)[o]
         \/ Without(S)[w.id] = None /\ ~Held(o) /\ b = NewState
  PROVE  IInv'
<1>1. /\ TypeOK /\ ShapeInv /\ StatePinned /\ UsersInv /\ LeaderInv /\ TokenInv /\ MapInv
      /\ ThrottleInv /\ JoinInv /\ CacheInv
  BY DEF IInv
<1>2. pc[c] \in {"idle", "fetch"} /\ ref[c] = None /\ flight[c] = None /\ w.id \in Identities
      /\ (home[c] # None => w = op[c])
  BY <1>1, OpFields DEF Enters, ShapeInv
<1> DEFINE C == [Collected(S) EXCEPT ![o] = b]
<1>3. C \in [Objects -> RequestStates] /\ (\A x \in Objects : CacheOK(C[x]))
      /\ (\A x \in Objects : C[x] = obj[x] \/ (C[x] = NewState /\ ~Held(x)))
      /\ (\A x \in Objects : Held(x) => C[x] = obj[x]) /\ C[o] = b
  BY Swept, NewStateOK
<1>4. PICK t : t = Reserved(C[o])
  OBVIOUS
<1>5. /\ C[o].users \in Nat /\ now \in Nat
      /\ obj' = [C EXCEPT ![o] = t]
  <2>1. C[o] \in RequestStates /\ now \in Nat
    BY <1>1, <1>3 DEF TypeOK
  <2>2. obj' = [C EXCEPT ![o] = t]
    BY <1>3, <1>4, Swept
  <2> QED BY <2>1, <2>2 DEF RequestStates
<1>6. /\ t.users = C[o].users + 1 /\ t.until = C[o].until /\ t.gate = C[o].gate
      /\ t.listings = C[o].listings /\ t.responses = C[o].responses /\ t.bytes = C[o].bytes
  BY <1>3, <1>4, <1>5 DEF Reserved, RequestStates
<1>7. t \in RequestStates
  <2>1. C[o] \in RequestStates
    BY <1>3
  <2> HIDE DEF C
  <2> QED BY <1>4, <1>5, <2>1, ReservedOK
<1>8. CacheOK(t)
  BY <1>3, <1>6 DEF CacheOK
<1> HIDE DEF C
<1>9. /\ obj' \in [Objects -> RequestStates] /\ obj'[o] = t
      /\ \A x \in Objects : x # o => obj'[x] = C[x]
  BY <1>3, <1>5, <1>7
<1>10. /\ pc' = [pc EXCEPT ![c] = "wait"] /\ op' = [op EXCEPT ![c] = w] /\ ref' = [ref EXCEPT ![c] = o]
       /\ UNCHANGED <<now, home, pages, result, flight, announced>>
  BY DEF Reserve
<1>11. /\ pc'[c] = "wait" /\ op'[c] = w /\ ref'[c] = o
       /\ \A d \in Callers : d # c => pc'[d] = pc[d] /\ op'[d] = op[d] /\ ref'[d] = ref[d]
       /\ \A d \in Callers : home[d] # None => op'[d] = op[d]
  BY <1>1, <1>2, <1>10 DEF TypeOK
<1>12. TypeOK'
  BY <1>1, <1>9, <1>10 DEF TypeOK, PCs
<1>13. ShapeInv'
  BY <1>1, <1>2, <1>10, <1>11, ConstantsAssumption DEF ShapeInv
<1>14. StatePinned'
  <2> SUFFICES ASSUME NEW d \in Callers
               PROVE  /\ ref'[d] # None => states'[op'[d].id] = ref'[d]
                      /\ home'[d] # None => states'[op'[d].id] = home'[d]
    BY DEF StatePinned
  <2>1. CASE d = c
    BY <1>10, <1>11, <2>1
  <2>2. CASE d # c
    <3>1. op'[d] = op[d] /\ ref'[d] = ref[d] /\ home'[d] = home[d]
      BY <1>10, <1>11, <2>2
    <3>2. CASE ref[d] # None \/ home[d] # None
      <4>1. Without(S)[op[d].id] = states[op[d].id] /\ op[d].id \in Identities
            /\ states[op[d].id] # None
        BY <3>2, Swept, PinnedStays
      <4>2. states'[op[d].id] = states[op[d].id]
        <5>1. CASE op[d].id # w.id
          BY <4>1, <5>1
        <5>2. CASE op[d].id = w.id
          BY <4>1, <5>2
        <5> QED BY <5>1, <5>2
      <4> QED BY <1>1, <3>1, <4>2 DEF StatePinned
    <3> QED BY <3>1, <3>2
  <2> QED BY <2>1, <2>2
<1>15. \A x \in Objects : C[x].users = Cardinality(Users(x))
  <2> SUFFICES ASSUME NEW x \in Objects PROVE C[x].users = Cardinality(Users(x))
    OBVIOUS
  <2>1. CASE C[x] = obj[x]
    BY <1>1, <2>1 DEF UsersInv
  <2>2. CASE C[x] = NewState /\ ~Held(x)
    <3>1. Users(x) = {}
      BY <2>2 DEF Users, Held
    <3> QED BY <2>2, <3>1, FS_EmptySet, NewStateOK
  <2> QED BY <1>3, <2>1, <2>2
<1>16. UsersInv'
  <2>1. /\ Cardinality(Users(o)') = Cardinality(Users(o)) + 1
        /\ \A x \in Objects : x # o => Users(x)' = Users(x)
    BY <1>1, <1>2, <1>10, UsersAdd
  <2>2. \A x \in Objects : obj'[x].users = Cardinality(Users(x)')
    BY <1>6, <1>9, <1>15, <2>1
  <2> QED BY <2>2 DEF UsersInv
<1>17. \A x \in Objects : obj'[x].listings = C[x].listings /\ obj'[x].gate = C[x].gate
  BY <1>6, <1>9
<1>18. LeaderInv'
  <2>1. ASSUME NEW d \in Callers, home'[d] # None
        PROVE  obj'[home'[d]].listings[op'[d].key] = d
    <3>1. home'[d] = home[d] /\ home[d] \in Objects /\ op'[d] = op[d] /\ Held(home[d])
      BY <1>1, <1>10, <1>11, <2>1 DEF TypeOK, Held
    <3>2. C[home[d]] = obj[home[d]]
      BY <1>3, <3>1
    <3> QED BY <1>1, <1>17, <2>1, <3>1, <3>2 DEF LeaderInv
  <2>2. ASSUME NEW x \in Objects, NEW k \in ListingKeys, obj'[x].listings[k] # None
        PROVE  home'[obj'[x].listings[k]] = x /\ op'[obj'[x].listings[k]].key = k
    <3>1. C[x] = obj[x]
      BY <1>3, <1>17, <2>2, NewStateOK
    <3>2. obj'[x].listings[k] = obj[x].listings[k] /\ obj[x].listings[k] \in Callers
      BY <1>9, <1>17, <2>2, <3>1 DEF RequestStates
    <3>3. home[obj[x].listings[k]] = x /\ op[obj[x].listings[k]].key = k /\ x # None
      BY <1>1, <2>2, <3>2, ConstantsAssumption DEF LeaderInv
    <3> QED BY <1>10, <1>11, <3>2, <3>3
  <2> QED BY <2>1, <2>2 DEF LeaderInv
<1>19. TokenInv'
  <2>1. \A d \in Callers, x \in Objects : HasToken(d, x)' => HasToken(d, x)
    BY <1>10, <1>11 DEF HasToken
  <2>2. \A d \in Callers, x \in Objects : HasToken(d, x) => C[x] = obj[x]
    BY <1>3 DEF HasToken, Held
  <2> QED BY <1>1, <1>17, <2>1, <2>2 DEF TokenInv
<1>20. MapInv'
  <2>1. \A j, k \in Identities : states'[j] # None /\ states'[j] = states'[k] => j = k
    BY SweptMap
  <2> QED BY <2>1 DEF MapInv
<1>21. ThrottleInv'
  <2> SUFFICES ASSUME NEW k \in Identities
               PROVE  \/ announced[k] <= now
                      \/ states'[k] # None /\ announced[k] <= obj'[states'[k]].until
    BY <1>10 DEF ThrottleInv
  <2>1. CASE Without(S)[k] = None
    BY <2>1, Swept
  <2>2. CASE Without(S)[k] # None
    <3>1. Without(S)[k] = states[k] /\ states[k] \in Objects
          /\ Collected(S)[states[k]] = obj[states[k]]
      BY <1>1, <2>2, Swept DEF TypeOK
    <3>2. states'[k] = states[k]
      BY <2>2, <3>1
    <3>3. C[states[k]] = obj[states[k]]
      BY <2>2, <3>1, <3>2, Swept DEF C
    <3>4. obj'[states[k]].until = obj[states[k]].until
      BY <1>6, <1>9, <3>1, <3>3
    <3> QED BY <1>1, <2>2, <3>1, <3>2, <3>4 DEF ThrottleInv
  <2> QED BY <2>1, <2>2
<1>22. JoinInv'
  <2>1. \A d \in Callers : flight[d] # None => d # c /\ flight[d] \in Callers
    BY <1>1, <1>2 DEF TypeOK
  <2> QED BY <1>1, <1>10, <1>11, <2>1 DEF JoinInv
<1>23. CacheInv'
  <2>1. \A x \in Objects : CacheOK(obj'[x])
    BY <1>3, <1>8, <1>9
  <2> QED BY <2>1 DEF CacheInv
<1> QED BY <1>12, <1>13, <1>14, <1>16, <1>18, <1>19, <1>20, <1>21, <1>22, <1>23 DEF IInv

(* acquire deletes evictable states only, all abandoned ones among them.     *)
LEMMA EvictionsEvictable ==
  /\ Abandoned \in SUBSET Evictable
  /\ \A S \in Evictions : S \in SUBSET Evictable /\ Abandoned \subseteq S
<1>1. Abandoned \in SUBSET Evictable
  BY DEF Abandoned
<1>2. Oldest \in SUBSET Evictable
  BY DEF Oldest
<1> QED BY <1>1, <1>2 DEF Evictions

(* Reserving the state that is there keeps the invariant.                    *)
LEMMA AcquireExistingInv ==
  ASSUME IInv, NEW c \in Callers, NEW w \in Ops, AcquireExisting(c, w) PROVE IInv'
<1> DEFINE S == Abandoned
           o == states[w.id]
<1>1. TypeOK /\ ShapeInv /\ StatePinned /\ S \in SUBSET Evictable /\ w.id \in Identities
  BY EvictionsEvictable, OpFields DEF IInv
<1>2. o \in Objects /\ o # None /\ Without(S)[w.id] = o
  BY <1>1 DEF AcquireExisting, TypeOK, Without
<1>3. states' = Without(S) /\ Without(S) \in [Identities -> Objects \cup {None}]
  BY <1>1, Swept DEF AcquireExisting
<1>4. obj' = [Collected(S) EXCEPT ![o] = Reserved(Collected(S)[o])]
  BY <1>1, <1>2, Swept DEF AcquireExisting
<1>5. home[c] # None => home[c] = o
  BY <1>1 DEF AcquireExisting, Enters, StatePinned, ShapeInv
<1>6. \A k \in Identities : k # w.id => states'[k] = Without(S)[k] /\ states'[k] # o
  BY <1>1, <1>2, <1>3, SweptMap
<1>7. Enters(c, w) /\ Reserve(c, w, o)
  BY DEF AcquireExisting
<1> HIDE DEF S, o
<1> QED BY <1>1, <1>2, <1>3, <1>4, <1>5, <1>6, <1>7, ReserveInv

(* A leader's state is pinned: acquire never finds it missing.               *)
LEMMA MissingNotLed ==
  ASSUME IInv, NEW c \in Callers, NEW w \in Ops, Enters(c, w), Without(Abandoned)[w.id] = None
  PROVE  pc[c] = "idle" /\ home[c] = None
<1>1. ShapeInv /\ Abandoned \in SUBSET Evictable
  BY EvictionsEvictable DEF IInv
<1>2. home[c] = None
  <2> SUFFICES ASSUME home[c] # None PROVE FALSE
    OBVIOUS
  <2>1. w = op[c]
    BY <1>1 DEF Enters, ShapeInv
  <2>2. Without(Abandoned)[op[c].id] = states[op[c].id] /\ states[op[c].id] # None
    BY <1>1, Swept, PinnedStays
  <2> QED BY <2>1, <2>2
<1> QED BY <1>1, <1>2 DEF Enters, ShapeInv

(* Making a state, with or without an eviction, keeps the invariant.         *)
LEMMA AcquireNewInv ==
  ASSUME IInv, NEW c \in Callers, NEW w \in Ops, AcquireNew(c, w) PROVE IInv'
<1> DEFINE o == CHOOSE x \in FreeObjects : TRUE
<1>1. PICK S \in Evictions :
        /\ Enters(c, w) /\ Without(Abandoned)[w.id] = None /\ FreeObjects # {}
        /\ states' = [Without(S) EXCEPT ![w.id] = o]
        /\ obj' = [Collected(S) EXCEPT ![o] = Reserved(NewState)]
        /\ Reserve(c, w, o)
  BY DEF AcquireNew
<1>2. o \in FreeObjects
  BY <1>1
<1> HIDE DEF o
<1>3. o \in Objects /\ ~Held(o) /\ \A k \in Identities : states[k] # o
  BY <1>2 DEF FreeObjects
<1>4. S \in SUBSET Evictable /\ Abandoned \subseteq S /\ w.id \in Identities /\ home[c] = None
  BY <1>1, EvictionsEvictable, OpFields, MissingNotLed
<1>5. Without(S)[w.id] = None /\ Without(S) \in [Identities -> Objects \cup {None}]
  BY <1>1, <1>4, Swept DEF Without
<1>6. states' \in [Identities -> Objects \cup {None}] /\ states'[w.id] = o
  BY <1>1, <1>3, <1>4, <1>5
<1>7. \A k \in Identities : k # w.id => states'[k] = Without(S)[k] /\ states'[k] # o
  <2>1. \A k \in Identities : Without(S)[k] = None \/ Without(S)[k] = states[k]
    BY DEF Without
  <2> QED BY <1>1, <1>3, <1>5, <2>1, ConstantsAssumption
<1> QED BY <1>1, <1>3, <1>4, <1>5, <1>6, <1>7, ReserveInv

(* acquire with no room keeps the invariant.                                 *)
LEMMA AcquireFailsInv ==
  ASSUME IInv, NEW c \in Callers, NEW w \in Ops, AcquireFails(c, w) PROVE IInv'
<1>1. /\ TypeOK /\ ShapeInv /\ StatePinned /\ UsersInv /\ LeaderInv /\ TokenInv /\ MapInv
      /\ ThrottleInv /\ JoinInv /\ CacheInv
  BY DEF IInv
<1>2. PICK S \in Evictions :
        /\ Enters(c, w) /\ Without(Abandoned)[w.id] = None
        /\ states' = Without(S) /\ obj' = Collected(S) /\ Fail(c, "error")
        /\ UNCHANGED <<now, announced>>
  BY DEF AcquireFails
<1>3. S \in SUBSET Evictable /\ pc[c] = "idle" /\ home[c] = None /\ ref[c] = None
  BY <1>1, <1>2, EvictionsEvictable, MissingNotLed DEF ShapeInv
<1>4. Leaves(c, "idle", NoOp, None)
  BY <1>2, <1>3, LeavingSteps DEF Fail, Leads
<1>5. CallerTypes' /\ ShapeInv' /\ JoinInv'
  BY <1>3, <1>4, CallersLeave
<1>6. /\ home' = home /\ ref' = ref
      /\ \A d \in Callers : d # c => pc'[d] = pc[d] /\ op'[d] = op[d]
      /\ pc'[c] = "idle"
  BY <1>1, <1>3, <1>4 DEF Leaves, TypeOK
<1>7. /\ obj' \in [Objects -> RequestStates] /\ states' \in [Identities -> Objects \cup {None}]
      /\ \A x \in Objects : CacheOK(obj'[x])
      /\ \A x \in Objects : obj'[x] = obj[x] \/ (obj'[x] = NewState /\ ~Held(x))
      /\ \A x \in Objects : Held(x) => obj'[x] = obj[x]
  BY <1>2, <1>3, Swept
<1>8. TypeOK'
  BY <1>1, <1>2, <1>5, <1>7 DEF TypeOK, CallerTypes
<1>9. StatePinned'
  <2> SUFFICES ASSUME NEW d \in Callers, ref[d] # None \/ home[d] # None
               PROVE  states'[op'[d].id] = states[op[d].id]
    BY <1>1, <1>6 DEF StatePinned
  <2> QED BY <1>2, <1>3, <1>6, Swept
<1>10. UsersInv'
  <2> SUFFICES ASSUME NEW x \in Objects PROVE obj'[x].users = Cardinality(Users(x))
    BY <1>6 DEF UsersInv, Users
  <2>1. CASE obj'[x] = obj[x]
    BY <1>1, <2>1 DEF UsersInv
  <2>2. CASE obj'[x] = NewState /\ ~Held(x)
    <3>1. Users(x) = {}
      BY <2>2 DEF Users, Held
    <3> QED BY <2>2, <3>1, FS_EmptySet, NewStateOK
  <2> QED BY <1>7, <2>1, <2>2
<1>11. LeaderInv'
  <2>1. ASSUME NEW d \in Callers, home'[d] # None
        PROVE  obj'[home'[d]].listings[op'[d].key] = d
    <3>1. home'[d] = home[d] /\ home[d] \in Objects /\ op'[d] = op[d] /\ Held(home[d])
      BY <1>1, <1>3, <1>6, <2>1 DEF TypeOK, Held
    <3> QED BY <1>1, <1>7, <2>1, <3>1 DEF LeaderInv
  <2>2. ASSUME NEW x \in Objects, NEW k \in ListingKeys, obj'[x].listings[k] # None
        PROVE  home'[obj'[x].listings[k]] = x /\ op'[obj'[x].listings[k]].key = k
    <3>1. obj'[x] = obj[x]
      BY <1>7, <2>2, NewStateOK
    <3>2. obj[x].listings[k] \in Callers
      BY <1>1, <2>2, <3>1 DEF TypeOK, RequestStates
    <3>3. home[obj[x].listings[k]] = x /\ op[obj[x].listings[k]].key = k /\ x # None
      BY <1>1, <2>2, <3>1, ConstantsAssumption DEF LeaderInv
    <3> QED BY <1>3, <1>6, <3>1, <3>2, <3>3
  <2> QED BY <2>1, <2>2 DEF LeaderInv
<1>12. TokenInv'
  <2>1. \A d \in Callers, x \in Objects : HasToken(d, x)' => HasToken(d, x)
    BY <1>6 DEF HasToken
  <2>2. \A d \in Callers, x \in Objects : HasToken(d, x) => obj'[x] = obj[x]
    BY <1>7 DEF HasToken, Held
  <2> QED BY <1>1, <2>1, <2>2 DEF TokenInv
<1>13. MapInv' /\ CacheInv'
  <2>1. \A j, k \in Identities : states'[j] # None /\ states'[j] = states'[k] => j = k
    BY <1>2, <1>3, SweptMap
  <2> QED BY <1>7, <2>1 DEF MapInv, CacheInv
<1>14. ThrottleInv'
  <2> SUFFICES ASSUME NEW k \in Identities
               PROVE  \/ announced[k] <= now
                      \/ states'[k] # None /\ announced[k] <= obj'[states'[k]].until
    BY <1>2 DEF ThrottleInv
  <2>1. CASE Without(S)[k] = None
    BY <1>3, <2>1, Swept
  <2>2. CASE Without(S)[k] # None
    <3>1. states'[k] = states[k] /\ states[k] # None /\ obj'[states[k]] = obj[states[k]]
      BY <1>2, <1>3, <2>2, Swept
    <3> QED BY <1>1, <3>1 DEF ThrottleInv
  <2> QED BY <2>1, <2>2
<1> QED BY <1>5, <1>8, <1>9, <1>10, <1>11, <1>12, <1>13, <1>14 DEF IInv

-----------------------------------------------------------------------------
(* The theorems.                                                             *)

(* The invariant holds at the start.                                         *)
LEMMA InitInv == Init => IInv
<1> SUFFICES ASSUME Init PROVE IInv
  OBVIOUS
<1>1. TypeOK
  BY NewStateOK, NoOpInOps DEF Init, TypeOK, PCs, Results
<1>2. ShapeInv /\ StatePinned /\ MapInv /\ JoinInv
  BY DEF Init, ShapeInv, StatePinned, MapInv, JoinInv
<1>3. UsersInv
  <2>1. \A o \in Objects : Users(o) = {} /\ obj[o].users = 0
    BY NewStateOK, ConstantsAssumption DEF Init, Users
  <2> QED BY <2>1, FS_EmptySet DEF UsersInv
<1>4. LeaderInv /\ TokenInv
  BY NewStateOK, ConstantsAssumption DEF Init, LeaderInv, TokenInv, HasToken
<1>5. ThrottleInv /\ CacheInv
  BY NewStateOK DEF Init, ThrottleInv, CacheInv
<1> QED BY <1>1, <1>2, <1>3, <1>4, <1>5 DEF IInv

(* Every step keeps the invariant.                                           *)
LEMMA StepInv == IInv /\ [Next]_vars => IInv'
<1> SUFFICES ASSUME IInv, [Next]_vars PROVE IInv'
  OBVIOUS
<1>1. CASE UNCHANGED vars
  <2>1. UNCHANGED <<now, states, obj, pc, op, ref, home, pages, result, flight, announced>>
    BY <1>1 DEF vars, callVars
  <2>2. TypeOK' /\ ShapeInv' /\ StatePinned'
    BY <2>1 DEF IInv, TypeOK, ShapeInv, StatePinned
  <2>3. UsersInv' /\ LeaderInv' /\ TokenInv'
    BY <2>1 DEF IInv, UsersInv, Users, LeaderInv, TokenInv, HasToken
  <2>4. MapInv' /\ ThrottleInv' /\ JoinInv' /\ CacheInv'
    BY <2>1 DEF IInv, MapInv, ThrottleInv, JoinInv, CacheInv
  <2> QED BY <2>2, <2>3, <2>4 DEF IInv
<1>2. CASE Tick
  BY <1>2, TickInv
<1>3. ASSUME NEW c \in Callers, Acquire(c) PROVE IInv'
  BY <1>3, AcquireExistingInv, AcquireNewInv, AcquireFailsInv DEF Acquire
<1>4. ASSUME NEW c \in Callers, TakeGate(c) \/ CancelWait(c) \/ TakeToPublish(c) PROVE IInv'
  BY <1>4, TakeGateInv, CancelWaitInv, TakeToPublishInv
<1>5. ASSUME NEW c \in Callers, RoundTrip(c) PROVE IInv'
  BY <1>5, ServeCachedInv, RefuseThrottledInv, SendInv, TransportErrorInv, ReceiveInv DEF RoundTrip
<1>6. ASSUME NEW c \in Callers, LeaveFlight(c) \/ CancelJoin(c) PROVE IInv'
  BY <1>6, GoHomeInv DEF LeaveFlight, CancelJoin
<1>7. ASSUME NEW c \in Callers, Listing(c) PROVE IInv'
  BY <1>6, <1>7, ServeListingInv, JoinFlightInv, RefuseListingInv, StartFlightInv, PublishInv DEF Listing
<1> QED BY <1>1, <1>2, <1>3, <1>4, <1>5, <1>6, <1>7 DEF Next

(* The inductive invariant holds in every state of every behaviour.          *)
THEOREM Invariance == Spec => []IInv
BY InitInv, StepInv, PTL DEF Spec

(* Every variable keeps its type: no count of users ever falls below zero and     *)
(* the byte count stays an integer.                                          *)
THEOREM TypeCorrect == Spec => []TypeOK
<1>1. IInv => TypeOK
  BY DEF IInv
<1> QED BY <1>1, Invariance, PTL

(* No eviction in acquire takes the state of a caller that waits, holds the  *)
(* gate or leads a flight.                                                   *)
THEOREM Pinned == Spec => []StatePinned
<1>1. IInv => StatePinned
  BY DEF IInv
<1> QED BY <1>1, Invariance, PTL

(* At most one caller per credential and host is past the gate, for any number    *)
(* of callers and any eviction in between (acquire and release).             *)
THEOREM Serialized == Spec => []GateExclusion
<1>1. IInv => GateExclusion
  <2> SUFFICES ASSUME IInv, NEW c \in Callers, NEW d \in Callers, HoldsGate(c), HoldsGate(d),
                      op[c].id = op[d].id
               PROVE  c = d
    BY DEF GateExclusion
  <2>1. ASSUME NEW e \in Callers, HoldsGate(e)
        PROVE  states[op[e].id] \in Objects /\ HasToken(e, states[op[e].id])
    BY <2>1 DEF IInv, TypeOK, ShapeInv, StatePinned, HoldsGate, HasToken
  <2> QED BY <2>1 DEF IInv, TokenInv
<1> QED BY <1>1, Invariance, PTL

(* A caller waits only for a flight that a caller still leads, and a listing *)
(* never has two leaders (cachedPackageListing).                             *)
THEOREM Led == Spec => []FlightLed
<1>1. IInv => FlightLed
  <2> SUFFICES ASSUME IInv PROVE FlightLed
    OBVIOUS
  <2>1. \A c, d \in Callers :
          home[c] # None /\ home[d] # None /\ op[c].id = op[d].id /\ op[c].key = op[d].key => c = d
    <3> SUFFICES ASSUME NEW c \in Callers, NEW d \in Callers, home[c] # None, home[d] # None,
                        op[c].id = op[d].id, op[c].key = op[d].key
                 PROVE  c = d
      OBVIOUS
    <3>1. home[c] = home[d]
      BY DEF IInv, StatePinned
    <3> QED BY <3>1 DEF IInv, LeaderInv
  <2> QED BY <2>1 DEF IInv, JoinInv, FlightLed
<1> QED BY <1>1, Invariance, PTL

(* The byte count of a response cache is the size of what it stores, and     *)
(* neither limit is ever passed (store and expire).                          *)
THEOREM Accounted == Spec => []BytesAccounted
<1>1. IInv => BytesAccounted
  BY DEF IInv, CacheInv, CacheOK, BytesAccounted
<1> QED BY <1>1, Invariance, PTL

(* Only Send starts a request, and only when the state's deadline is over.   *)
LEMMA SentAfterDeadline ==
  ASSUME IInv, Next, NEW c \in Callers, pc[c] # "http", pc'[c] = "http"
  PROVE  now >= announced[op[c].id]
<1>0. pc \in [Callers -> PCs]
  BY DEF IInv, TypeOK
<1>1. Send(c)
  <2>1. ASSUME NEW d \in Callers, NEW p, p # "http", pc' = [pc EXCEPT ![d] = p] PROVE FALSE
    BY <1>0, <2>1
  <2>2. ASSUME NEW d \in Callers, NEW res, Return(d) \/ FetchEnds(d, res) \/ NextPage(d) PROVE FALSE
    BY <2>1, <2>2 DEF Return, FetchEnds, NextPage
  <2>3. ASSUME NEW d \in Callers, NEW res, Fail(d, res) \/ Delivered(d) PROVE FALSE
    BY <2>2, <2>3 DEF Fail, Delivered
  <2>4. ~Tick
    BY DEF Tick, callVars
  <2>5. ASSUME NEW d \in Callers, Acquire(d) PROVE FALSE
    BY <2>1, <2>3, <2>5 DEF Acquire, AcquireExisting, AcquireNew, AcquireFails, Reserve
  <2>6. ASSUME NEW d \in Callers, TakeGate(d) \/ CancelWait(d) \/ TakeToPublish(d) \/ CancelJoin(d)
        PROVE  FALSE
    BY <2>1, <2>2, <2>3, <2>6 DEF TakeGate, CancelWait, TakeToPublish, CancelJoin
  <2>7. ASSUME NEW d \in Callers, Listing(d) PROVE FALSE
    <3>1. ASSUME ServeListing(d) \/ RefuseListing(d) \/ LeaveFlight(d) PROVE FALSE
      BY <2>2, <3>1 DEF ServeListing, RefuseListing, LeaveFlight
    <3>2. ASSUME JoinFlight(d) \/ StartFlight(d) PROVE FALSE
      BY <2>1, <3>2 DEF JoinFlight, StartFlight
    <3>3. ASSUME NEW size \in Sizes, Publish(d, size) PROVE FALSE
      BY <2>1, <3>3 DEF Publish, EndFlight
    <3> QED BY <2>7, <3>1, <3>2, <3>3 DEF Listing
  <2>8. ASSUME NEW d \in Callers, RoundTrip(d) PROVE Send(d)
    BY <2>2, <2>3, <2>8 DEF RoundTrip, ServeCached, RefuseThrottled, TransportError, Receive
  <2>9. PICK d \in Callers : Send(d)
    BY <2>4, <2>5, <2>6, <2>7, <2>8 DEF Next
  <2>10. pc'[d] = "http" /\ \A e \in Callers : e # d => pc'[e] = pc[e]
    BY <1>0, <2>9 DEF Send
  <2> QED BY <2>9, <2>10
<1>2. pc[c] = "hold" /\ now >= obj[ref[c]].until
  BY <1>1 DEF Send, AtRoundTrip
<1>3. ref[c] \in Objects /\ states[op[c].id] = ref[c] /\ op[c].id \in Identities
  BY <1>2, ReservedCounted
<1>4. announced[op[c].id] \in Nat /\ obj[ref[c]].until \in Nat /\ now \in Nat
  BY <1>3 DEF IInv, TypeOK, RequestStates
<1>5. announced[op[c].id] <= now \/ announced[op[c].id] <= obj[ref[c]].until
  BY <1>3 DEF IInv, ThrottleInv
<1> QED BY <1>2, <1>4, <1>5

(* No request is sent before the time GitHub asked for in an earlier answer, *)
(* even when the state that knew it was evicted since (observe, acquire and  *)
(* RoundTrip).                                                               *)
THEOREM Throttled == Spec => ThrottleRespected
<1>1. IInv /\ [Next]_vars =>
        [\A c \in Callers : pc[c] # "http" /\ pc'[c] = "http" => now >= announced[op[c].id]]_vars
  BY SentAfterDeadline
<1> QED BY <1>1, Invariance, PTL DEF Spec, ThrottleRespected
=============================================================================
