---------------------------- MODULE RequestCache ----------------------------
(***************************************************************************)
(* The GitHub backend's shared request budget (backend/github/              *)
(* request_cache.go) and its coalesced package listings (package_cache.go). *)
(*                                                                         *)
(* Every HTTP request for one credential and host goes through one         *)
(* requestState: a one-token gate, a throttle deadline, a response cache   *)
(* and the listing refreshes in flight.  States are created on demand and  *)
(* evicted, so a requestState is an OBJECT here: "states" maps an identity *)
(* to the object it currently has, and a caller keeps a reference to the   *)
(* object it reserved, whatever the map says later.                        *)
(***************************************************************************)
EXTENDS Integers, FiniteSets, FiniteSetsExt

CONSTANTS Callers,        \* goroutines that use the backend
          Identities,     \* credential and host pairs (requestIdentity)
          Objects,        \* requestState allocations
          RequestKeys,    \* cache keys of single GETs that ask for a TTL
          ListingKeys,    \* cache keys of complete package listings
          None,           \* nil
          MaxStates,      \* maxRequestStates
          MaxResponses,   \* maxCachedResponses
          MaxBytes,       \* maxCachedBytes
          Sizes,          \* sizes of response bodies
          IdleAge,        \* idle time after which a state is dropped (1h)
          TTL,            \* life of a cached response
          BackoffMin, BackoffMax,  \* 1 and 15 minutes
          Resets,         \* X-RateLimit-Reset values sent with Remaining: 0; 0 if none
          RetryAfters,    \* Retry-After values; None if absent
          MaxPages,       \* bound: pages of one listing
          MaxTime         \* bound: the clock stops here

ASSUME ConstantsAssumption ==
  /\ IsFiniteSet(Callers) /\ None \notin Callers /\ Identities # {}
  /\ None \notin Objects /\ None \notin RequestKeys \cup ListingKeys
  /\ None \notin [size : Nat, expires : Nat]
  /\ MaxStates \in Nat \ {0} /\ MaxResponses \in Nat \ {0} /\ MaxBytes \in Nat
  /\ Sizes \subseteq Nat /\ IdleAge \in Nat \ {0} /\ TTL \in Nat \ {0}
  /\ BackoffMin \in Nat \ {0} /\ BackoffMax \in Nat /\ BackoffMin <= BackoffMax
  /\ Resets \subseteq Nat /\ RetryAfters \subseteq Nat \cup {None}
  /\ MaxPages \in Nat \ {0} /\ MaxTime \in Nat

Keys == RequestKeys \cup ListingKeys

(* What a caller wants: a request with no caching, a GET that may be served   *)
(* from the cache, or a package listing ("fresh" skips a cached one).         *)
Ops == [kind : {"plain"}, id : Identities, key : {None}, fresh : {FALSE}]
         \cup [kind : {"cached"}, id : Identities, key : RequestKeys, fresh : {FALSE}]
         \cup [kind : {"listing"}, id : Identities, key : ListingKeys, fresh : BOOLEAN]

NoOp == CHOOSE w \in Ops : TRUE

(* class: a 2xx answer, a throttle (429, or a 403 its headers or body mark as  *)
(* one), or any other status.  bodyRead: the body could be read to its end.   *)
Responses == [class : {"success", "throttled", "other"}, reset : Resets,
              retry : RetryAfters, size : Sizes, bodyRead : BOOLEAN]

VARIABLES now,        \* requestCache.now
          states,     \* requestCache.states
          obj,        \* the requestState objects
          pc, op,
          ref,        \* the object a caller has a reservation on
          home,       \* the object on which a caller leads a listing flight
          pages,      \* pages a leading caller has fetched
          result,     \* outcome of a leader's fetch, or of the flight a caller joined
          flight,     \* the leader of the flight a caller is waiting for
          announced   \* history: per identity, the latest time GitHub asked to wait for

callVars == <<pc, op, ref, home, pages, result, flight>>
vars == <<now, states, obj, callVars, announced>>

PCs == {"idle", "wait", "hold", "http", "fetch", "commit", "publish", "joined"}
Results == {"none", "ok", "limited", "error"}
Entries == [size : Nat, expires : Nat]

(* gate: the token is in the channel.  users: holders and waiters.  listings:  *)
(* the leader of the flight of each listing key.  bytes: the size the cache    *)
(* accounts for.                                                             *)
RequestStates ==
  [gate : BOOLEAN, users : Nat, lastUsed : Nat, until : Nat, backoff : Nat,
   listings : [ListingKeys -> Callers \cup {None}],
   responses : [Keys -> Entries \cup {None}], bytes : Int]

NoListings == [k \in ListingKeys |-> None]
NoResponses == [k \in Keys |-> None]

NewState == [gate |-> TRUE, users |-> 0, lastUsed |-> 0, until |-> 0, backoff |-> 0,
             listings |-> NoListings, responses |-> NoResponses, bytes |-> 0]

TypeOK ==
  /\ now \in Nat
  /\ states \in [Identities -> Objects \cup {None}]
  /\ obj \in [Objects -> RequestStates]
  /\ pc \in [Callers -> PCs]
  /\ op \in [Callers -> Ops]
  /\ ref \in [Callers -> Objects \cup {None}]
  /\ home \in [Callers -> Objects \cup {None}]
  /\ pages \in [Callers -> Nat]
  /\ result \in [Callers -> Results]
  /\ flight \in [Callers -> Callers \cup {None}]
  /\ announced \in [Identities -> Nat]

Init ==
  /\ now = 0
  /\ states = [k \in Identities |-> None]
  /\ obj = [o \in Objects |-> NewState]
  /\ pc = [c \in Callers |-> "idle"]
  /\ op = [c \in Callers |-> NoOp]
  /\ ref = [c \in Callers |-> None]
  /\ home = [c \in Callers |-> None]
  /\ pages = [c \in Callers |-> 0]
  /\ result = [c \in Callers |-> "none"]
  /\ flight = [c \in Callers |-> None]
  /\ announced = [k \in Identities |-> 0]

Later(a, b) == IF a > b THEN a ELSE b
Earlier(a, b) == IF a < b THEN a ELSE b

-----------------------------------------------------------------------------
(* The response cache of one state.                                          *)

Live(o) == {k \in Keys : obj[o].responses[k] # None /\ now < obj[o].responses[k].expires}
Stored(cache) == {k \in Keys : cache[k] # None}
SizeOf(cache, S) ==
  LET size == [k \in S |-> cache[k].size] IN MapThenSumSet(LAMBDA k : size[k], S)

(* requestState.expire: the state without its expired responses.              *)
Expired(o) ==
  [obj[o] EXCEPT !.responses = [k \in Keys |-> IF k \in Live(o) THEN obj[o].responses[k] ELSE None],
                 !.bytes = @ - SizeOf(obj[o].responses, Stored(obj[o].responses) \ Live(o))]

(* Mutant: the replaced entry's size stays in the count.                      *)
StoreKeepsOldSize(s, k, size) ==
  LET entry == [size |-> size, expires |-> now + TTL]
      wipe == Cardinality(Stored(s.responses) \ {k}) >= MaxResponses \/ s.bytes + size > MaxBytes
  IN  CASE size > MaxBytes -> s
        [] size <= MaxBytes /\ wipe ->
             [s EXCEPT !.responses = [NoResponses EXCEPT ![k] = entry], !.bytes = size]
        [] OTHER -> [s EXCEPT !.responses[k] = entry, !.bytes = @ + size]

(* requestState.store, applied to state s.                                   *)
StoreInto(s, k, size) ==
  LET cache == [s.responses EXCEPT ![k] = None]
      total == IF s.responses[k] = None THEN s.bytes ELSE s.bytes - s.responses[k].size
      wipe == Cardinality(Stored(cache)) >= MaxResponses \/ total + size > MaxBytes
      entry == [size |-> size, expires |-> now + TTL]
  IN  CASE size > MaxBytes -> s
        [] size <= MaxBytes /\ wipe ->
             [s EXCEPT !.responses = [NoResponses EXCEPT ![k] = entry], !.bytes = size]
        [] OTHER ->
             [s EXCEPT !.responses = [cache EXCEPT ![k] = entry], !.bytes = total + size]

-----------------------------------------------------------------------------
(* The throttle: requestState.observe.                                       *)

NextBackoff(s, r) ==
  CASE r.class = "throttled" /\ s.backoff = 0 -> BackoffMin
    [] r.class = "throttled" /\ s.backoff # 0 -> Earlier(2 * s.backoff, BackoffMax)
    [] r.class = "success" -> 0
    [] OTHER -> s.backoff

ResetDeadline(r) == IF r.reset = 0 THEN 0 ELSE r.reset + 1

RetryDeadline(s, r) ==
  IF r.class # "throttled" THEN 0
  ELSE Later(now + 1, IF r.retry = None THEN now + NextBackoff(s, r) ELSE now + r.retry)

Observe(s, r) ==
  [s EXCEPT !.until = Later(@, Later(ResetDeadline(r), RetryDeadline(s, r))),
            !.backoff = NextBackoff(s, r)]

(* What GitHub asked for in response r: its reset time, and on a throttled    *)
(* response the Retry-After delay, a second at least.                         *)
Delay(r) == IF r.retry = None THEN 1 ELSE Later(1, r.retry)
Asked(r) == Later(r.reset, IF r.class = "throttled" THEN now + Delay(r) ELSE 0)

-----------------------------------------------------------------------------
(* acquire: one critical section under requestCache.mu.                      *)

Held(o) == \E c \in Callers : ref[c] = o \/ home[c] = o
FreeObjects == {o \in Objects : ~Held(o) /\ \A k \in Identities : states[k] # o}

(* Mutants: eviction that forgets the waiters, the flights or the throttle.     *)
UnpinnedDespiteUsers(s) == s.gate /\ s.listings = NoListings /\ now >= s.until
UnpinnedDespiteFlights(s) == s.gate /\ s.users = 0 /\ now >= s.until
UnpinnedDespiteThrottle(s) == s.gate /\ s.users = 0 /\ s.listings = NoListings

Unpinned(s) == s.gate /\ s.users = 0 /\ s.listings = NoListings /\ now >= s.until
Evictable == {k \in Identities : states[k] # None /\ Unpinned(obj[states[k]])}
Abandoned == {k \in Evictable : now - obj[states[k]].lastUsed >= IdleAge}
Oldest == {k \in Evictable \ Abandoned :
             \A j \in Evictable \ Abandoned : obj[states[k]].lastUsed <= obj[states[j]].lastUsed}

(* The map and the heap without the states of S; an object nothing refers to   *)
(* any more is garbage and loses its contents.                               *)
Without(S) == [k \in Identities |-> IF k \in S THEN None ELSE states[k]]
Collected(S) == [o \in Objects |-> IF ~Held(o) /\ \E k \in S : states[k] = o
                                   THEN NewState ELSE obj[o]]
Full(m) == Cardinality({k \in Identities : m[k] # None}) >= MaxStates

(* A caller enters acquire with a new operation, a leader for its next page.  *)
Enters(c, w) == \/ pc[c] = "idle" /\ w \in Ops
                \/ pc[c] = "fetch" /\ w = op[c]

(* The reservation: taken before mu is released.                              *)
Reserve(c, w, o) ==
  /\ pc' = [pc EXCEPT ![c] = "wait"]
  /\ op' = [op EXCEPT ![c] = w]
  /\ ref' = [ref EXCEPT ![c] = o]
  /\ UNCHANGED <<now, home, pages, result, flight, announced>>

Reserved(s) == [s EXCEPT !.users = @ + 1, !.lastUsed = now]

AcquireExisting(c, w) ==
  LET o == states[w.id] IN
  /\ Enters(c, w)
  /\ o # None /\ w.id \notin Abandoned
  /\ states' = Without(Abandoned)
  /\ obj' = [Collected(Abandoned) EXCEPT ![o] = Reserved(@)]
  /\ Reserve(c, w, o)

(* What acquire deletes when the identity has no state: the abandoned states,  *)
(* and at capacity the oldest evictable one.                                 *)
Evictions == IF Full(Without(Abandoned)) /\ Oldest # {}
             THEN {Abandoned \cup {k} : k \in Oldest}
             ELSE {Abandoned}

AcquireNew(c, w) ==
  \E S \in Evictions :
    LET o == CHOOSE x \in FreeObjects : TRUE IN
    /\ Enters(c, w)
    /\ Without(Abandoned)[w.id] = None
    /\ ~Full(Without(S))
    /\ FreeObjects # {}
    /\ states' = [Without(S) EXCEPT ![w.id] = o]
    /\ obj' = [Collected(S) EXCEPT ![o] = Reserved(NewState)]
    /\ Reserve(c, w, o)

-----------------------------------------------------------------------------
(* A call returns; a leader's fetch ends.                                    *)

Return(c) ==
  /\ pc' = [pc EXCEPT ![c] = "idle"]
  /\ op' = [op EXCEPT ![c] = NoOp]
  /\ ref' = [ref EXCEPT ![c] = None]
  /\ result' = [result EXCEPT ![c] = "none"]
  /\ flight' = [flight EXCEPT ![c] = None]
  /\ UNCHANGED <<home, pages>>

FetchEnds(c, res) ==
  /\ pc' = [pc EXCEPT ![c] = "commit"]
  /\ result' = [result EXCEPT ![c] = res]
  /\ ref' = [ref EXCEPT ![c] = None]
  /\ pages' = [pages EXCEPT ![c] = 0]
  /\ UNCHANGED <<op, home, flight>>

Leads(c) == home[c] # None
Fail(c, res) == IF Leads(c) THEN FetchEnds(c, res) ELSE Return(c)

(* acquire with no room: the error leaves the sweep of abandoned states done.  *)
AcquireFails(c, w) ==
  \E S \in Evictions :
    /\ Enters(c, w)
    /\ Without(Abandoned)[w.id] = None
    /\ Full(Without(S))
    /\ states' = Without(S)
    /\ obj' = Collected(S)
    /\ Fail(c, "error")
    /\ UNCHANGED <<now, announced>>

(* acquire's select: the gate's token, or the caller's context is done.        *)
TakeGate(c) ==
  /\ pc[c] = "wait" /\ obj[ref[c]].gate
  /\ obj' = [obj EXCEPT ![ref[c]].gate = FALSE]
  /\ pc' = [pc EXCEPT ![c] = "hold"]
  /\ UNCHANGED <<now, states, op, ref, home, pages, result, flight, announced>>

CancelWait(c) ==
  /\ pc[c] = "wait"
  /\ obj' = [obj EXCEPT ![ref[c]].users = @ - 1]
  /\ Fail(c, "error")
  /\ UNCHANGED <<now, states, announced>>

(* release, under mu, of a state that has become s.                           *)
Release(o, s) ==
  obj' = [obj EXCEPT ![o] = [s EXCEPT !.users = @ - 1, !.lastUsed = now, !.gate = TRUE]]

-----------------------------------------------------------------------------
(* sharedTransport.RoundTrip, holding the gate.                              *)

AtRoundTrip(c) == pc[c] = "hold" /\ (Leads(c) \/ op[c].kind # "listing")
Caches(c) == op[c].kind = "cached"
Hit(c) == Caches(c) /\ op[c].key \in Live(ref[c])

ServeCached(c) ==
  /\ AtRoundTrip(c) /\ Hit(c)
  /\ Release(ref[c], Expired(ref[c]))
  /\ Return(c)
  /\ UNCHANGED <<now, states, announced>>

RefuseThrottled(c) ==
  /\ AtRoundTrip(c) /\ ~Hit(c) /\ now < obj[ref[c]].until
  /\ Release(ref[c], Expired(ref[c]))
  /\ Fail(c, "limited")
  /\ UNCHANGED <<now, states, announced>>

Send(c) ==
  /\ AtRoundTrip(c) /\ ~Hit(c) /\ now >= obj[ref[c]].until
  /\ obj' = [obj EXCEPT ![ref[c]] = Expired(ref[c])]
  /\ pc' = [pc EXCEPT ![c] = "http"]
  /\ UNCHANGED <<now, states, op, ref, home, pages, result, flight, announced>>

(* The base transport fails (timeout, cancellation, no connection): nothing   *)
(* is observed.                                                              *)
TransportError(c) ==
  /\ pc[c] = "http"
  /\ Release(ref[c], obj[ref[c]])
  /\ Fail(c, "error")
  /\ UNCHANGED <<now, states, announced>>

(* A leader that has a page asks for the next one or has them all.             *)
NextPage(c) ==
  /\ pages[c] + 1 < MaxPages
  /\ pc' = [pc EXCEPT ![c] = "fetch"]
  /\ ref' = [ref EXCEPT ![c] = None]
  /\ pages' = [pages EXCEPT ![c] = @ + 1]
  /\ UNCHANGED <<op, home, result, flight>>

Delivered(c) == IF Leads(c) THEN NextPage(c) \/ FetchEnds(c, "ok") ELSE Return(c)

Good(r) == r.class = "success" /\ r.bodyRead

Receive(c, r) ==
  LET seen == Observe(obj[ref[c]], r) IN
  /\ pc[c] = "http"
  /\ Release(ref[c], IF Good(r) /\ Caches(c) THEN StoreInto(seen, op[c].key, r.size) ELSE seen)
  /\ announced' = [announced EXCEPT ![op[c].id] = Later(@, Asked(r))]
  /\ \/ Good(r) /\ Delivered(c)
     \/ r.class = "throttled" /\ Fail(c, "limited")
     \/ ~Good(r) /\ r.class # "throttled" /\ Fail(c, "error")
  /\ UNCHANGED <<now, states>>

-----------------------------------------------------------------------------
(* cachedPackageListing, holding the gate.                                   *)

AtListing(c) == pc[c] = "hold" /\ ~Leads(c) /\ op[c].kind = "listing"
ListingHit(c) == ~op[c].fresh /\ op[c].key \in Live(ref[c])
LeaderOf(c) == obj[ref[c]].listings[op[c].key]
Flights(o) == {k \in ListingKeys : obj[o].listings[k] # None}

(* Mutant: the early return keeps the gate.                                    *)
ServeListingKeepsGate(c) ==
  /\ AtListing(c) /\ ListingHit(c)
  /\ obj' = [obj EXCEPT ![ref[c]] = Expired(ref[c])]
  /\ Return(c)
  /\ UNCHANGED <<now, states, announced>>

ServeListing(c) ==
  /\ AtListing(c) /\ ListingHit(c)
  /\ Release(ref[c], Expired(ref[c]))
  /\ Return(c)
  /\ UNCHANGED <<now, states, announced>>

(* Another caller is refreshing this listing: wait for its flight.            *)
JoinFlight(c) ==
  /\ AtListing(c) /\ ~ListingHit(c) /\ LeaderOf(c) # None
  /\ Release(ref[c], Expired(ref[c]))
  /\ pc' = [pc EXCEPT ![c] = "joined"]
  /\ ref' = [ref EXCEPT ![c] = None]
  /\ flight' = [flight EXCEPT ![c] = LeaderOf(c)]
  /\ UNCHANGED <<now, states, op, home, pages, result, announced>>

RefuseListing(c) ==
  /\ AtListing(c) /\ ~ListingHit(c) /\ LeaderOf(c) = None
  /\ Cardinality(Flights(ref[c])) >= MaxResponses
  /\ Release(ref[c], Expired(ref[c]))
  /\ Return(c)
  /\ UNCHANGED <<now, states, announced>>

StartFlight(c) ==
  /\ AtListing(c) /\ ~ListingHit(c) /\ LeaderOf(c) = None
  /\ Cardinality(Flights(ref[c])) < MaxResponses
  /\ Release(ref[c], [Expired(ref[c]) EXCEPT !.listings[op[c].key] = c])
  /\ pc' = [pc EXCEPT ![c] = "fetch"]
  /\ ref' = [ref EXCEPT ![c] = None]
  /\ home' = [home EXCEPT ![c] = ref[c]]
  /\ UNCHANGED <<now, states, op, pages, result, flight, announced>>

(* The fetch is over: the leader takes the gate, without a reservation and     *)
(* whatever its own context says ...                                         *)
TakeToPublish(c) ==
  /\ pc[c] = "commit" /\ obj[home[c]].gate
  /\ obj' = [obj EXCEPT ![home[c]].gate = FALSE]
  /\ pc' = [pc EXCEPT ![c] = "publish"]
  /\ UNCHANGED <<now, states, op, ref, home, pages, result, flight, announced>>

(* ... stores a complete result, closes the flight and returns the token.      *)
FlightResult(c) ==
  IF result[c] = "error" /\ now < obj[home[c]].until THEN "limited" ELSE result[c]

Published(c, size) ==
  LET s == obj[home[c]]
      kept == IF result[c] = "ok" THEN StoreInto(s, op[c].key, size) ELSE s
  IN  [kept EXCEPT !.listings[op[c].key] = None, !.gate = TRUE]

CloseFlight(c) ==
  /\ result' = [d \in Callers |-> CASE d = c -> "none"
                                    [] d # c /\ flight[d] = c -> FlightResult(c)
                                    [] OTHER -> result[d]]
  /\ flight' = [d \in Callers |-> IF flight[d] = c THEN None ELSE flight[d]]

EndFlight(c) ==
  /\ pc' = [pc EXCEPT ![c] = "idle"]
  /\ op' = [op EXCEPT ![c] = NoOp]
  /\ home' = [home EXCEPT ![c] = None]
  /\ UNCHANGED <<now, states, ref, pages, announced>>

(* Mutants: the publication releases a reservation it does not have; only a     *)
(* success closes the flight.                                                *)
PublishReleases(c, size) ==
  /\ pc[c] = "publish"
  /\ obj' = [obj EXCEPT ![home[c]] = [Published(c, size) EXCEPT !.users = @ - 1]]
  /\ CloseFlight(c) /\ EndFlight(c)
PublishClosesOnSuccess(c, size) ==
  /\ pc[c] = "publish"
  /\ obj' = [obj EXCEPT ![home[c]] = Published(c, size)]
  /\ IF result[c] = "ok" THEN CloseFlight(c)
     ELSE result' = [result EXCEPT ![c] = "none"] /\ UNCHANGED flight
  /\ EndFlight(c)

Publish(c, size) ==
  /\ pc[c] = "publish"
  /\ obj' = [obj EXCEPT ![home[c]] = Published(c, size)]
  /\ CloseFlight(c) /\ EndFlight(c)

(* A joiner's select: the flight is done, or its own context is.               *)
LeaveFlight(c) ==
  /\ pc[c] = "joined" /\ flight[c] = None
  /\ Return(c)
  /\ UNCHANGED <<now, states, obj, announced>>

CancelJoin(c) ==
  /\ pc[c] = "joined" /\ flight[c] # None
  /\ Return(c)
  /\ UNCHANGED <<now, states, obj, announced>>

Tick ==
  /\ now < MaxTime
  /\ now' = now + 1
  /\ UNCHANGED <<states, obj, callVars, announced>>

-----------------------------------------------------------------------------
RoundTrip(c) ==
  \/ ServeCached(c) \/ RefuseThrottled(c) \/ Send(c) \/ TransportError(c)
  \/ \E r \in Responses : Receive(c, r)

Listing(c) ==
  \/ ServeListing(c) \/ JoinFlight(c) \/ RefuseListing(c) \/ StartFlight(c)
  \/ LeaveFlight(c) \/ \E size \in Sizes : Publish(c, size)

Acquire(c) ==
  \E w \in Ops : AcquireExisting(c, w) \/ AcquireNew(c, w) \/ AcquireFails(c, w)

Next ==
  \/ Tick
  \/ \E c \in Callers :
       \/ Acquire(c) \/ TakeGate(c) \/ CancelWait(c)
       \/ RoundTrip(c) \/ Listing(c) \/ TakeToPublish(c) \/ CancelJoin(c)

Spec == Init /\ [][Next]_vars

(* A goroutine that can run does, and a request ends within                   *)
(* githubRequestTimeout.  A channel hands its token to the longest waiter, so   *)
(* a caller is not passed over for ever.  No context need ever be cancelled.   *)
Fairness ==
  \A c \in Callers :
    /\ WF_vars(pc[c] = "fetch" /\ Acquire(c))
    /\ WF_vars(RoundTrip(c)) /\ WF_vars(Listing(c))
    /\ SF_vars(TakeGate(c)) /\ SF_vars(TakeToPublish(c))

FairSpec == Spec /\ Fairness

-----------------------------------------------------------------------------
(* Properties.                                                               *)

HoldsGate(c) == pc[c] \in {"hold", "http", "publish"}

(* GateExclusion: for one credential and host at most one caller is past the   *)
(* gate, whatever was evicted and created anew in between: requests are         *)
(* serialized, as acquire's comment says (request_cache.go:87).               *)
GateExclusion ==
  \A c, d \in Callers : HoldsGate(c) /\ HoldsGate(d) /\ op[c].id = op[d].id => c = d

(* StatePinned: the object that a caller waits for, holds or leads a flight on  *)
(* stays the one its identity maps to ("a waiting caller must not lose its      *)
(* state to idle eviction", "an active flight prevents eviction").             *)
StatePinned ==
  \A c \in Callers :
    /\ ref[c] # None => states[op[c].id] = ref[c]
    /\ home[c] # None => states[op[c].id] = home[c]

(* FlightLed: a caller still waiting for a flight waits for a caller that will   *)
(* publish one for the same listing, and a listing has at most one leader:     *)
(* nobody waits on a flight that is gone.                                     *)
FlightLed ==
  /\ \A c \in Callers :
       flight[c] # None =>
         /\ home[flight[c]] # None
         /\ op[flight[c]].id = op[c].id /\ op[flight[c]].key = op[c].key
  /\ \A c, d \in Callers :
       home[c] # None /\ home[d] # None /\ op[c].id = op[d].id /\ op[c].key = op[d].key => c = d

(* BytesAccounted: the byte count of the response cache is the size of what it  *)
(* holds, and both limits of store hold.                                     *)
BytesAccounted ==
  \A o \in Objects :
    LET cache == obj[o].responses IN
    /\ obj[o].bytes = SizeOf(cache, Stored(cache))
    /\ obj[o].bytes <= MaxBytes
    /\ Cardinality(Stored(cache)) <= MaxResponses

(* ThrottleRespected: no request is sent for an identity before the time GitHub  *)
(* asked for in any earlier answer to it: an eviction never forgets a throttle. *)
ThrottleRespected ==
  [][\A c \in Callers :
       pc[c] # "http" /\ pc'[c] = "http" => now >= announced[op[c].id]]_vars

(* CallReturns: every call comes back, whether it waits for the gate, for the    *)
(* flight of another caller or to publish its own.                            *)
CallReturns == \A c \in Callers : pc[c] # "idle" ~> pc[c] = "idle"
=============================================================================
