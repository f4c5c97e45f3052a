---------------------------- MODULE PackageCrawl ----------------------------
(***************************************************************************)
(* The package crawler (controller/packages): one Repository whose artifacts  *)
(* on the host, an image and a library, are mirrored into Package objects. It  *)
(* crawls on a timer, through listings that the backend shares for a while      *)
(* between repositories, and more often, past those listings, after a commit.  *)
(* Time is counted in ticks; work that is due is done within its tick unless    *)
(* the process stalls.                                                       *)
(***************************************************************************)
EXTENDS Integers

CONSTANTS Fast,        \* recentCommitCrawlInterval
          Interval,    \* CrawlInterval with its jitter
          Window,      \* recentCommitWindow
          TTL,         \* packageCacheTTL
          Limit,       \* how long the host's rate limit lasts
          Scenarios    \* bounds: what is published at first, and how many changes
                       \* (publications, removals, commits), faults (failures, stalls,
                       \* limits, rotations, restarts) and deletions follow

ASSUME PackageCrawlAssumption ==
  /\ {Fast, Interval, Window, TTL, Limit} \subseteq Nat \ {0}
  /\ Scenarios \subseteq [published : SUBSET {"image", "library"}, changes : Nat,
                          faults : Nat, deletions : Nat]

Types == {"image", "library"}
Pages == {"image", "versions", "library"}   \* the shared listings
Versions == Nat                             \* of an artifact; 0: not published
Uids == 1..2
Never == Interval + Limit + 1               \* no delayed requeue
OldAge == Interval + TTL + 1                \* ages are not counted further

Nothing == [meta |-> 0, tags |-> 0]
Infos == [meta : Versions, tags : Versions] \* meta: of the listing, tags: of the versions
NoPackage == [owner |-> 0, meta |-> 0, tags |-> 0]
Packages == {NoPackage} \cup [owner : Uids, meta : Versions, tags : Versions]

VARIABLES repo, rcached,        \* the Repository and its cached copy
          pkgs, cpkgs, lag,     \* Packages, their cached copies, which of these are behind
          queued, timer,        \* in the workqueue; ticks until the delayed requeue
          step, crawl,          \* Reconcile
          host, gaps, since,    \* per artifact: version, last one removed, ticks since
          committed,            \* ticks since the last commit succeeded
          listing, known,       \* cached listings; the owner is classified
          limit,                \* ticks until the host's limit is over
          changes, faults, deletions,  \* what is left of the bounds
          smooth                \* nothing has failed so far

repoVars == <<repo, rcached>>
pkgVars == <<pkgs, cpkgs, lag>>
queueVars == <<queued, timer>>
crawlVars == <<step, crawl>>
hostVars == <<host, gaps, since, committed>>
cacheVars == <<listing, known>>
boundVars == <<changes, faults, deletions, smooth>>
crawlerVars == <<repoVars, pkgVars, queueVars, crawlVars, hostVars, cacheVars, limit, boundVars>>

Repos == [uid : Uids, phase : {"live", "deleting", "gone"}]
Idle == [uid |-> 1, fresh |-> FALSE, infos |-> [t \in Types |-> Nothing],
         existing |-> [t \in Types |-> NoPackage], stale |-> {}, todo |-> {}]
NoListing == [val |-> 0, age |-> TTL]

CrawlTypeOK ==
  /\ repo \in Repos /\ rcached \in Repos
  /\ pkgs \in [Types -> Packages] /\ cpkgs \in [Types -> Packages] /\ lag \subseteq Types
  /\ queued \in BOOLEAN /\ timer \in 0..Never
  /\ step \in {"idle", "account", "image", "versions", "library", "list", "delete", "write"}
  /\ crawl \in [uid : Uids, fresh : BOOLEAN, infos : [Types -> Infos],
                existing : [Types -> Packages], stale : SUBSET Types,
                todo : SUBSET Types]
  /\ host \in [Types -> Versions] /\ gaps \in [Types -> Versions]
  /\ since \in [Types -> 0..OldAge] /\ committed \in 0..Window
  /\ listing \in [Pages -> [val : Versions, age : 0..TTL]] /\ known \in BOOLEAN
  /\ limit \in 0..Limit
  /\ changes \in Nat /\ faults \in Nat /\ deletions \in Nat
  /\ smooth \in BOOLEAN

CrawlInit ==
  /\ repo = [uid |-> 1, phase |-> "live"] /\ rcached = repo
  /\ pkgs = [t \in Types |-> NoPackage] /\ cpkgs = pkgs /\ lag = {}
  /\ queued = TRUE /\ timer = Never /\ step = "idle" /\ crawl = Idle
  /\ gaps = [t \in Types |-> 0]
  /\ since = [t \in Types |-> 0] /\ committed = Window
  /\ listing = [p \in Pages |-> NoListing] /\ known = FALSE /\ limit = 0
  /\ \E s \in Scenarios :
       /\ host = [t \in Types |-> IF t \in s.published THEN 1 ELSE 0]
       /\ changes = s.changes /\ faults = s.faults /\ deletions = s.deletions
  /\ smooth = TRUE

Lesser(m, n) == IF m < n THEN m ELSE n
Fault == faults > 0 /\ faults' = faults - 1 /\ smooth' = FALSE /\ UNCHANGED <<changes, deletions>>
Change == changes > 0 /\ changes' = changes - 1 /\ UNCHANGED <<faults, deletions, smooth>>

-----------------------------------------------------------------------------
(* The workqueue.  Adding a key with a delay keeps the earlier of two times.      *)
Ends(delay) ==
  /\ step' = "idle" /\ crawl' = Idle
  /\ timer' = Lesser(timer, delay)
  /\ UNCHANGED queued
Goes(s) == step' = s /\ UNCHANGED queueVars

(* An error: the workqueue's backoff.                                         *)
Fails == Ends(1) /\ smooth' = FALSE /\ UNCHANGED <<changes, faults, deletions>>

Fire ==
  /\ timer = 0
  /\ queued' = TRUE /\ timer' = Never
  /\ UNCHANGED <<repoVars, pkgVars, crawlVars, hostVars, cacheVars, limit, boundVars>>

(* recentlyCommitted.                                                        *)
Recent == committed < Window

Start ==
  /\ step = "idle" /\ queued
  /\ queued' = FALSE
  /\ IF rcached.phase = "live"
     THEN step' = "account" /\ crawl' = [Idle EXCEPT !.uid = rcached.uid, !.fresh = Recent]
     ELSE UNCHANGED crawlVars
  /\ UNCHANGED <<repoVars, pkgVars, timer, hostVars, cacheVars, limit, boundVars>>

-----------------------------------------------------------------------------
(* ListPackages.                                                             *)
RefusedForGood ==
  limit > 0 /\ step' = "idle" /\ crawl' = Idle /\ UNCHANGED queueVars
Refused == limit > 0 /\ Ends(limit)

(* The owner's account, cached for an hour.                                    *)
Classify ==
  /\ step = "account"
  /\ \/ (known \/ limit = 0) /\ known' = TRUE /\ Goes("image") /\ UNCHANGED crawl
     \/ ~known /\ Refused /\ UNCHANGED known
  /\ UNCHANGED <<repoVars, pkgVars, hostVars, listing, limit, boundVars>>

Of(p) == IF p = "library" THEN "library" ELSE "image"
ServedVersions(p) == listing[p].age < TTL /\ ~(crawl.fresh /\ p = "image")
Served(p) == listing[p].age < TTL /\ ~(crawl.fresh /\ p # "library")

(* cachedPackageListing: only a complete successful listing is published.        *)
Fetched(p) == [listing EXCEPT ![p] = [val |-> host[Of(p)], age |-> 0]]

(* What a listing means for the crawl, and the listing that comes next.            *)
Note(p, v) ==
  IF p = "versions" THEN crawl' = [crawl EXCEPT !.infos["image"].tags = v]
                    ELSE crawl' = [crawl EXCEPT !.infos[p].meta = v]
After(p, v) ==
  CASE p = "image" /\ v > 0 -> "versions"
    [] p = "image" /\ v = 0 -> "library"
    [] p = "versions" -> "library"
    [] p = "library" -> "list"

(* A failed listing fails the crawl; the Packages stay as they are.  The versions of *)
(* an image that is gone are an error.                                         *)
ListingFailsEmpty(p) ==
  ~Served(p) /\ limit > 0 /\ Note(p, 0) /\ Goes(After(p, 0)) /\ UNCHANGED <<listing, boundVars>>
ListingFails(p) == ~Served(p) /\ Refused /\ UNCHANGED <<listing, boundVars>>
VersionsMissing(p) ==
  ~Served(p) /\ limit = 0 /\ p = "versions" /\ host["image"] = 0 /\ Fails /\ UNCHANGED listing

ReadListing(p) ==
  /\ step = p
  /\ \/ /\ Served(p)
        /\ Note(p, listing[p].val) /\ Goes(After(p, listing[p].val))
        /\ UNCHANGED <<listing, boundVars>>
     \/ /\ ~Served(p) /\ limit = 0 /\ (p = "versions" => host["image"] # 0)
        /\ listing' = Fetched(p)
        /\ Note(p, host[Of(p)]) /\ Goes(After(p, host[Of(p)]))
        /\ UNCHANGED boundVars
     \/ ListingFails(p) \/ VersionsMissing(p)
  /\ UNCHANGED <<repoVars, pkgVars, hostVars, known, limit>>

-----------------------------------------------------------------------------
(* sync.                                                                     *)

(* listOwned: from the cache, by the Repository's name.                          *)
ListOwned ==
  /\ step = "list"
  /\ crawl' = [crawl EXCEPT !.existing = cpkgs, !.stale = lag]
  /\ Goes("delete")
  /\ UNCHANGED <<repoVars, pkgVars, hostVars, cacheVars, limit, boundVars>>

PutPackage(t, p) == pkgs' = [pkgs EXCEPT ![t] = p] /\ lag' = lag \cup {t} /\ UNCHANGED cpkgs
Listed(t) == crawl.infos[t].meta > 0
Stale == {t \in Types : crawl.existing[t] # NoPackage /\ ~Listed(t)}

(* Deletes whatever has the name now; one that is gone already will do.           *)
DeleteStale ==
  /\ step = "delete"
  /\ \/ /\ Stale = {} /\ Goes("write") /\ UNCHANGED pkgVars
        /\ crawl' = [crawl EXCEPT !.todo = {t \in Types : Listed(t)}]
     \/ \E t \in Stale :
          /\ crawl' = [crawl EXCEPT !.existing[t] = NoPackage]
          /\ IF pkgs[t] = NoPackage THEN UNCHANGED pkgVars ELSE PutPackage(t, NoPackage)
          /\ Goes("delete")
  /\ UNCHANGED <<repoVars, hostVars, cacheVars, limit, boundVars>>

Status(t) == [meta |-> crawl.existing[t].meta, tags |-> crawl.existing[t].tags]
StatusEqualNever(t) == FALSE
StatusEqual(t) == Status(t) = crawl.infos[t]

Hold(t, p, s) == crawl' = [crawl EXCEPT !.existing[t] = p, !.stale = s]
Written(t) == crawl' = [crawl EXCEPT !.todo = @ \ {t}]

(* create; an existing Package is read from the cache, where it may be missing.     *)
Create(t) ==
  /\ step = "write" /\ t \in crawl.todo /\ crawl.existing[t] = NoPackage
  /\ IF pkgs[t] = NoPackage
     THEN /\ PutPackage(t, [NoPackage EXCEPT !.owner = crawl.uid])
          /\ Hold(t, [NoPackage EXCEPT !.owner = crawl.uid], crawl.stale \ {t})
          /\ Goes("write") /\ UNCHANGED boundVars
     ELSE /\ IF cpkgs[t] = NoPackage
             THEN Fails
             ELSE Hold(t, cpkgs[t], IF t \in lag THEN crawl.stale \cup {t} ELSE crawl.stale \ {t})
                  /\ Goes("write") /\ UNCHANGED boundVars
          /\ UNCHANGED pkgVars
  /\ UNCHANGED <<repoVars, hostVars, cacheVars, limit>>

(* updateStatus, refused when the Package has changed or gone since it was read.    *)
Outdated(t) == t \in crawl.stale \/ pkgs[t] = NoPackage
UpdateStatus(t) ==
  /\ step = "write" /\ t \in crawl.todo /\ crawl.existing[t] # NoPackage
  /\ \/ StatusEqual(t) /\ Written(t) /\ Goes("write") /\ UNCHANGED <<pkgVars, boundVars>>
     \/ ~StatusEqual(t) /\ Outdated(t) /\ Fails /\ UNCHANGED pkgVars
     \/ /\ ~StatusEqual(t) /\ ~Outdated(t)
        /\ PutPackage(t, [owner |-> pkgs[t].owner, meta |-> crawl.infos[t].meta,
                          tags |-> crawl.infos[t].tags])
        /\ Written(t) /\ Goes("write") /\ UNCHANGED boundVars
  /\ UNCHANGED <<repoVars, hostVars, cacheVars, limit>>

NextCrawl == IF crawl.fresh THEN Lesser(Fast, Interval) ELSE Interval
Finish ==
  /\ step = "write" /\ crawl.todo = {}
  /\ Ends(NextCrawl)
  /\ UNCHANGED <<repoVars, pkgVars, hostVars, cacheVars, limit, boundVars>>

(* A call to the host or the API server fails, or its answer is lost.             *)
CrawlFails ==
  /\ step # "idle" /\ Fault /\ Ends(1)
  /\ UNCHANGED <<repoVars, pkgVars, hostVars, cacheVars, limit>>

Crawls ==
  \/ Start \/ Classify \/ ListOwned \/ DeleteStale \/ Finish
  \/ \E p \in Pages : ReadListing(p)
  \/ \E t \in Types : Create(t) \/ UpdateStatus(t)

-----------------------------------------------------------------------------
(* The API server, the informers and the garbage collector.                       *)

SyncRepo ==
  /\ rcached # repo
  /\ rcached' = repo /\ queued' = TRUE
  /\ UNCHANGED <<repo, pkgVars, timer, crawlVars, hostVars, cacheVars, limit, boundVars>>

(* Owns: an event of a Package enqueues the Repository it names as its owner.        *)
SyncPackage(t) ==
  /\ t \in lag
  /\ cpkgs' = [cpkgs EXCEPT ![t] = pkgs[t]] /\ lag' = lag \ {t} /\ queued' = TRUE
  /\ UNCHANGED <<repoVars, pkgs, timer, crawlVars, hostVars, cacheVars, limit, boundVars>>

Orphan(t) == pkgs[t] # NoPackage /\ (repo.phase = "gone" \/ repo.uid # pkgs[t].owner)
Collect(t) ==
  /\ Orphan(t)
  /\ PutPackage(t, NoPackage)
  /\ UNCHANGED <<repoVars, queueVars, crawlVars, hostVars, cacheVars, limit, boundVars>>

(* The tenant deletes the Repository, and may create one of the same name.            *)
DeleteRepo ==
  /\ repo = [uid |-> 1, phase |-> "live"] /\ deletions > 0
  /\ repo' = [repo EXCEPT !.phase = "deleting"]
  /\ deletions' = deletions - 1 /\ smooth' = FALSE /\ UNCHANGED <<changes, faults>>
  /\ UNCHANGED <<rcached, pkgVars, queueVars, crawlVars, hostVars, cacheVars, limit>>
ReleaseRepo ==
  /\ repo.phase = "deleting"
  /\ repo' = [repo EXCEPT !.phase = "gone"]
  /\ UNCHANGED <<rcached, pkgVars, queueVars, crawlVars, hostVars, cacheVars, limit, boundVars>>
RecreateRepo ==
  /\ repo = [uid |-> 1, phase |-> "gone"]
  /\ repo' = [uid |-> 2, phase |-> "live"]
  /\ UNCHANGED <<rcached, pkgVars, queueVars, crawlVars, hostVars, cacheVars, limit, boundVars>>

-----------------------------------------------------------------------------
(* The host, the other repositories of the connection, and time.                  *)

(* An artifact is published (again): its versions are numbered in that order.       *)
Publish(t) ==
  /\ Change
  /\ host' = [host EXCEPT ![t] = (IF @ > gaps[t] THEN @ ELSE gaps[t]) + 1]
  /\ since' = [since EXCEPT ![t] = 0]
  /\ UNCHANGED <<repoVars, pkgVars, queueVars, crawlVars, gaps, committed, cacheVars, limit>>
Unpublish(t) ==
  /\ host[t] > 0 /\ Change
  /\ host' = [host EXCEPT ![t] = 0] /\ gaps' = [gaps EXCEPT ![t] = host[t]]
  /\ since' = [since EXCEPT ![t] = 0]
  /\ UNCHANGED <<repoVars, pkgVars, queueVars, crawlVars, committed, cacheVars, limit>>

(* commitHandler: a RepositoryCommit has succeeded.                            *)
CommitSucceeds ==
  /\ Change
  /\ committed' = 0 /\ queued' = TRUE
  /\ UNCHANGED <<repoVars, pkgVars, timer, crawlVars, host, gaps, since, cacheVars, limit>>

Quiet ==
  /\ step = "idle" /\ ~queued /\ timer # 0
  /\ lag = {} /\ rcached = repo /\ \A t \in Types : ~Orphan(t)

(* Another repository's crawl refreshes a listing of the owner; of images also before  *)
(* it expires, after a commit of its own.  Between two crawls of this one: during one   *)
(* it makes no difference who refreshes.                                       *)
OthersCrawl(p) ==
  /\ Quiet /\ p # "versions" /\ limit = 0
  /\ listing[p].age >= IF p = "image" THEN 1 ELSE TTL
  /\ listing' = Fetched(p)
  /\ UNCHANGED <<repoVars, pkgVars, queueVars, crawlVars, hostVars, known, limit, boundVars>>

LimitBegins ==
  /\ limit = 0 /\ Fault /\ limit' = Limit
  /\ UNCHANGED <<repoVars, pkgVars, queueVars, crawlVars, hostVars, cacheVars>>

(* dependencyHandler: a new token has its own cache and budget.  A crawl under way     *)
(* keeps the credential it resolved, so the change counts from its end.              *)
Rotate ==
  /\ step = "idle" /\ Fault
  /\ listing' = [p \in Pages |-> NoListing] /\ known' = FALSE /\ limit' = 0
  /\ queued' = (queued \/ rcached.phase # "gone")
  /\ UNCHANGED <<repoVars, pkgVars, timer, crawlVars, hostVars>>

(* A restart forgets the queue and the listings, and lists every Repository.          *)
Restart ==
  /\ Fault
  /\ step' = "idle" /\ crawl' = Idle /\ timer' = Never
  /\ rcached' = repo /\ cpkgs' = pkgs /\ lag' = {}
  /\ queued' = (repo.phase # "gone")
  /\ listing' = [p \in Pages |-> NoListing] /\ known' = FALSE
  /\ UNCHANGED <<repo, pkgs, hostVars, limit>>

Older(n, top) == Lesser(n + 1, top)
TimePasses ==
  /\ timer' = IF timer \in {0, Never} THEN timer ELSE timer - 1
  /\ limit' = IF limit = 0 THEN 0 ELSE limit - 1
  /\ committed' = Older(committed, Window)
  /\ since' = [t \in Types |-> IF smooth THEN Older(since[t], OldAge) ELSE 0]
  /\ listing' = [p \in Pages |-> IF listing[p].age + 1 >= TTL THEN NoListing
                                 ELSE [listing[p] EXCEPT !.age = @ + 1]]
  /\ UNCHANGED <<repoVars, pkgVars, queued, crawlVars, host, gaps>>

Tick == Quiet /\ TimePasses /\ UNCHANGED <<known, boundVars>>
Stall == ~Quiet /\ TimePasses /\ Fault /\ UNCHANGED known
Reclassify == Quiet /\ known /\ Fault /\ known' = FALSE
              /\ UNCHANGED <<repoVars, pkgVars, queueVars, crawlVars, hostVars, listing, limit>>

CrawlNext ==
  \/ Crawls \/ CrawlFails \/ Fire \/ SyncRepo
  \/ \E t \in Types : SyncPackage(t) \/ Collect(t) \/ Publish(t) \/ Unpublish(t)
  \/ \E p \in Pages : OthersCrawl(p)
  \/ DeleteRepo \/ ReleaseRepo \/ RecreateRepo
  \/ CommitSucceeds \/ LimitBegins \/ Rotate \/ Restart \/ Tick \/ Stall \/ Reclassify

CrawlSpec == CrawlInit /\ [][CrawlNext]_crawlerVars

(* The controller, the informers, the garbage collector, the timers and the clock go on. *)
CrawlFairness ==
  /\ WF_crawlerVars(Crawls) /\ WF_crawlerVars(Fire) /\ WF_crawlerVars(SyncRepo) /\ WF_crawlerVars(ReleaseRepo)
  /\ \A t \in Types : WF_crawlerVars(SyncPackage(t)) /\ WF_crawlerVars(Collect(t))
  /\ WF_crawlerVars(Tick)
FairCrawl == CrawlSpec /\ CrawlFairness

-----------------------------------------------------------------------------
(* Properties.                                                               *)

Live == repo.phase = "live"
Shows(t) ==
  /\ pkgs[t].meta = host[t] /\ (t = "image" => pkgs[t].tags = host[t])
  /\ (pkgs[t] # NoPackage) = (host[t] > 0)

(* NoFalseDelete: a Package of a Repository that is there is deleted only when the      *)
(* host has dropped the artifact since it published what the Package shows: a crawl    *)
(* that fails, is limited, stalls or reads old listings and caches takes none away     *)
(* ("Preserve observed state", packages/controller.go:155).                      *)
NoFalseDelete ==
  [][\A t \in Types : pkgs[t] # NoPackage /\ pkgs'[t] = NoPackage /\ ~Orphan(t)
                        => gaps[t] > 0 /\ gaps[t] >= pkgs[t].meta]_crawlerVars

(* How far the crawl under way is: it has read the listing of t; and the tags.       *)
Seen(t) == \/ step \in {"list", "delete", "write"}
           \/ t = "image" /\ step \in {"versions", "library"}
Tagged == step \in {"library", "list", "delete", "write"}

(* The mirror and all that a crawl works from agree with the host.                  *)
StoreAgrees ==
  /\ Live /\ rcached = repo /\ lag = {} /\ cpkgs = pkgs /\ pkgs["library"].tags = 0
  /\ \A t \in Types : Shows(t) /\ ~Orphan(t)
ListingsAgree == \A p \in Pages : listing[p].age < TTL => listing[p].val = host[Of(p)]
CrawlAgrees ==
  /\ \A t \in Types : Seen(t) => crawl.infos[t].meta = host[t]
  /\ crawl.infos["library"].tags = 0
  /\ crawl.infos["image"].tags = IF Tagged THEN host["image"] ELSE 0
  /\ step \in {"delete", "write"} => crawl.existing = pkgs
  /\ \A t \in crawl.todo : host[t] > 0
Agrees == StoreAgrees /\ ListingsAgree /\ CrawlAgrees

(* MirrorStays: once the Packages, the caches, the listings and what the crawl has read   *)
(* agree with the host, no crawl, failure, limit, stall, new token or restart writes a    *)
(* Package again until an artifact or the Repository changes (packageStatusEqual,         *)
(* packages/controller.go:267: "skipping the API call when nothing observable changed").  *)
MirrorStays ==
  [][Agrees /\ UNCHANGED <<host, repo>> => Agrees' /\ pkgs' = pkgs]_crawlerVars

(* Mirrors: after the last change the Packages are in the end those of the host, owned  *)
(* by the Repository there is, or none when there is none.                         *)
Mirrored ==
  \A t \in Types :
    IF Live THEN Shows(t) /\ (pkgs[t] # NoPackage => pkgs[t].owner = repo.uid)
            ELSE pkgs[t] = NoPackage
Mirrors == <>[]Mirrored

(* NoChurn: crawling goes on, yet Packages are in the end no longer written ("avoids    *)
(* churn on every crawl"), although every write of one wakes the crawler.           *)
NoChurn == <>[][lag' \subseteq lag]_crawlerVars

(* Fresh: without faults an artifact shows within an interval and the lifetime of a        *)
(* listing, whenever others refresh it (README: "a new artifact can take roughly 4.5      *)
(* minutes"); in the window after a commit an image shows within the short interval, with  *)
(* its tags (README: "within about 30 seconds of publish").                         *)
Fresh ==
  smooth /\ Quiet =>
    /\ \A t \in Types : since[t] >= Interval + TTL - 1 => Shows(t)
    /\ Recent /\ since["image"] >= Fast => Shows("image")
=============================================================================
