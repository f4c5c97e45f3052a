# provider-code in TLA+

This directory specifies, model-checks and, for most of its safety, proves the core of the code
provider: the service that turns `Connection`, `Repository`, `RepositoryCommit`,
`DeployKey`, `Collaborator`, `Package`, `RepositoryCheckout` and
`RepositoryBuildStatus` objects of a kcp workspace into work on GitHub. Paths
below are relative to `src/`. `PROJECT.json` maps every definition to the lines it
models, lists every run, its properties, one mutant per property, the findings,
the hazards and the theorems.

## 1. Inventory

### Components, their state and their operations

| Part | Code | State | Operations |
| --- | --- | --- | --- |
| Request budget and cache | `backend/github/request_cache.go`, `package_cache.go` | per credential: gate token, users, throttle deadline, back-off, cached responses and bytes, listing refreshes in flight | `acquire`, `release`, `RoundTrip`, `observe`, `store`, `expire`, `cachedPackageListing` |
| Bundle store | `commitbundle/store.go` | files per scope and digest, with an age | `Put`, `Get`, `Delete`, `Sweep` |
| `commit_files` tool | `mcpserver/tools_write.go` | where the call is | stage, create the request, store, unstage, wait |
| RepositoryCommit controller | `controller/repositorycommit` | status of the request, informer cache, workqueue, timers | `Reconcile`, `rateLimitRetry`, `fail`, `updateStatusIfChanged` |
| CommitFiles on the host | `backend/github/backend.go` | branch history, the call's base, entries and draft | read ref, find key, build tree, update ref, recover or retry |
| Repository controller | `controller/repository`, `backend/github/backend.go` | object, finalizer, recorded remote id, remote under the name | `Reconcile`, `EnsureRepository`, `DeleteRepository`, identity checks |
| DeployKey, Collaborator | `controller/deploykey`, `controller/collaborator` | object, generated Secret; keys, invitations and members on the host | `Reconcile`, `ensurePublicKey`, `EnsureDeployKey`, `DeleteDeployKey`, `EnsureCollaborator`, `RemoveCollaborator` |
| Connection, credentials | `controller/connection`, `tenant` | credential Secret, validation verdict in the status | `Reconcile`, `ResolveCredential`, `ValidateConnection` |
| Controllers' common part | `controller/shared` | conditions, waits | `ResolveRepository`, `ResolveCredential`, `RateLimitWait` |
| Package crawler | `controller/packages` | `Package` objects, delayed requeues, shared listings | `ListPackages`, `sync`, `nextCrawl`, the handlers of commits and credentials |
| Checkout and build status | `controller/repositorycheckout`, `controller/repositorybuildstatus`, tools | one-shot request objects, the checkout's bundle | `Reconcile`, dispatch, hand-over |
| Actions server | `actions` | slots, staged snapshots, quota | `ServeHTTP`, `authorize`, `resolve`, `stage`, `loadSnapshot` |
| Git collaboration | `backend/github/collaboration.go`, `snapshot.go` | none of its own: branch, pull requests and checks on the host | identity check, branch heads, pull requests, paged feedback, comments, leased push |
| Portal | `portal/src` | page state, refresh timers, cursors | refresh, paginate, journeys |
| Start-up, HTTP, OAuth, tenant clients, API types, stub | `main.go`, `server`, `oauthgithub`, `tenant`, `apis`, `backend/stub` | configuration | wiring, one exchange per request |

### How they interact

The MCP tool and the controllers share the API server (objects with a resource
version) and, for commits and checkouts, the bundle store. Controllers read
through an informer cache that lags behind the API server, and write with the
version of the object they read. Every controller and the package reads of the
portal's API share the backend, and through it the request budget of each
credential. The RepositoryCommit controller calls `EnsureRepository` as well as the
Repository controller, and its successes wake the package crawler. The actions server
uses the backend directly, on behalf of a caller, and records nothing in the workspace.

### What is hard

* **Interleaving**: callers of one credential meet at a gate whose state object may be
  evicted; a branch moves under a commit; two controllers ensure the same remote.
* **Stale reads**: every Reconcile starts from a cached copy; the status writer
  reads again before it writes, which changes what its version check protects.
* **Crashes and lost answers**: between a host call and the status write that
  records it, the process may stop or the write may lose; the call is repeated.
* **Timeouts and retries**: rate-limit waits inside a window, bundle arrival,
  the tool's own wait, the sweeper's age.
* **Self-made events**: every status write wakes the controller that made it; whether it
  comes to rest depends on what it writes the next time.
* **Partial results**: a listing of several pages, or of several registries, fails or
  shifts half-way; a key is registered and its id not recorded.
* **Limits**: states per backend, responses and bytes per state, commits searched
  for a key, keys and invitations on one page, slots and staged bytes.

`PROJECT.json` lists these hazards one by one, each at its line, with the
properties that would notice it going wrong.

## 2. Modules

| Module | Models | Depends on |
| --- | --- | --- |
| `RequestCache` | the request budget, the response cache, coalesced listings | |
| `BundleStore` | the store: put, delete, judge and remove by age | |
| `CommitFlow` | tool, store, RepositoryCommit controller, informer, workqueue, clock, restarts | `BundleStore` |
| `CommitPromise` | what a caller of `commit_files` may rely on (abstract) | |
| `GitCommit` | `CommitFiles` on a branch that others move too | |
| `RepositoryLifecycle` | Repository controller, remote identity, the commit controller beside it | |
| `OneShotRequest` | RepositoryCheckout and RepositoryBuildStatus: their tools, controllers and bundles | `BundleStore` |
| `Reconciled` | what the next three controllers share: object, cache, queue, Secret, rate-limit wait, faults | |
| `DeployKey`, `Collaborator`, `Connection` | one controller each with its backend calls and the host's state | `Reconciled` |
| `TenantObject` | the composition: one object of one of these kinds through its life | the four above |
| `PackageCrawl` | the package crawler, the shared listings, `Package` objects, garbage collector, clock | |
| `ActionCalls` | a call of the actions server: admission, authorisation, body, binding, deadline | |
| `SnapshotStore` | staged snapshots: expiry, quota, temporary files | `ActionCalls` |
| `Collaboration` | the backend's collaboration operations and the host they work on | `ActionCalls` |
| `ActionsServer` | the composition: concurrent calls over store and host | the three above |
| `CommitFlowProofs`, `RepositoryLifecycleProofs`, `OneShotRequestProofs`, `RequestCacheProofs`, `TenantObjectProofs`, `ActionsServerProofs` | theorems | their module |
| `GitHostProofs` | theorems about `GitCommit` and about `PackageCrawl` | these two |
| `FiniteSums` | sums over finite sets and what holds of them; used by the byte counts of `RequestCache` and `SnapshotStore` | |
| `MC...` | instances for TLC: a content map, edits, symmetry | their module |

### RequestCache

A `requestState` is a heap object: `states` maps an identity to the object it has
now, `ref` and `home` are the references goroutines keep. That distinction is the
point: evicting a state that somebody still waits on gives one credential two gates.
`acquire` is one step up to the reservation (it runs under `requestCache.mu`), the
`select` on the gate is another, and the HTTP exchange separates `Send` from
`Receive`. An answer is a record of what `observe` looks at: class, reset time,
Retry-After, body size, and whether the body could be read. A listing's leader goes
through `acquire` once per page, then takes the gate again to publish without a
reservation, as the code does. Freed objects are reused, so the heap is finite.

### BundleStore and CommitFlow

A bundle is a content under a scope with an age; a content stands for its digest.
The sweeper looks at a file's age and removes it in two steps (`judged`).
`CommitFlow` follows `commit_files` call by call (stage, create, store, unstage,
wait; each may fail, the caller may leave at any point) and `Reconcile` step by
step. `cached` is the informer's copy and `synced` says it is the current version:
a write is accepted exactly then. `updateStatusIfChanged` reads the cache a second
time, so what it needs is a current copy *at the write*, not at the start. Times
are ages that saturate at the last value the code compares with. `CommitFiles` is two
steps: the look for the request's key (`LookForKey`) and the rest, which may make a commit
and yet end in an error. `commits` counts the commits made for a request, `applied` are the
requests whose changes the branch has had, and `findable` those whose commit the search for
the key still reaches: a message that quotes the trailer gets no key (`Keyed`), and others
push a commit out of reach (`Bury`). How `CommitFiles` works on the branch is the subject of
`GitCommit`. The create of a RepositoryCommit may take effect and answer an error, and the
delete by which a failed call withdraws its request may fail unnoticed.

### GitCommit

The branch is its sequence of commits. Other writers push between any two looks at
it, a ref update may take effect and lose its answer, and a call may be started
over at any point. `Quoting` is the set of requests whose message already contains
the text of the key's trailer (`commitMessageWithIdempotencyKey` then adds no key).
A truncated tree listing makes `filterNoopGitTreeDeletions` send every entry, and
the host refuses the deletion of an absent file.

### RepositoryLifecycle

One object, one name on the host, under one of several accounts (`Places`): edits of
`spec.owner` or `spec.connectionRef` (`EditSpec`) choose another one, and a create under an account
that is no organisation is repeated under the token's own (`Home`). A lookup or a deletion
may see a 404 although the repository is there. Remote repositories are numbers in the order of
their creation, so a repository recreated under the name is told apart. `current`
says whether a write has come since Reconcile read its copy. Every host call may
fail, or take effect and lose its answer; other users of the host create and delete
the name; the commit controller runs `EnsureRepository` on its own copy and drops the
result.

### OneShotRequest

A request is a checkout, a build-status read or a rerun (`kind`); the two controllers
have the same shape and differ in the host call between `MarkRunning` and
`RecordSuccess`. A tool creates the object, polls it, reads the bundle of a checkout,
and deletes bundle and object on its way out (`Create`, `SeeResult`, `ReadBundle`,
`ReclaimBundle`, `DropRequest`; `GiveUp` is every way to stop waiting). `cached` and
`synced` are as in `CommitFlow`. A rerun is counted when the dispatch takes effect on
the host, whether or not its answer arrives; `fetched` remembers the trees read for a
request, since the branch may move between two attempts. A terminal status carries a
new completion time, so it never equals the one in the cache and is always written.

### Reconciled, DeployKey, Collaborator, Connection, TenantObject

`Reconciled` is a Reconcile without its middle: it takes the cached copy (`Start`), and
ends with a status written under the version it read (`Update`), an error that brings
the object back (`Fail`), or a wait for the reset of a rate limit (`WaitForRateLimit`).
Each controller adds one action per call it makes: the DeployKey controller looks its
Secret up in the cache, generates and stores a pair, lists the keys, registers, records;
the Collaborator controller invites or changes a member, and on deletion lists the
invitations, deletes them and removes the member, while the invited user accepts or
declines; the Connection controller resolves the credential of the cached Secret,
validates it and writes its verdict. A call fails before or after its effect. `limit`
is 1 while the host limits and 2 once the shared transport knows the reset and refuses by
itself; the message in the status names that time, and `at` is what it names. A GitHub App's
connection (`AppKinds`) has a new token at each Reconcile, of which the transport knows nothing.
`shown` is what the host shows the token: everything, one page of keys and invitations that
others fill, or nothing, when every call is a 404 that a deletion takes for success. The wants
of a DeployKey are a generated key, its own, and its own in another repository; those of a
Collaborator two permissions of one user and another user. `owner` is what the Secret's
ownerReference says of the Connection, which only wakes it when it says "controller".
A recreated object has a new uid; its predecessor's Secret goes with the garbage collector.

### PackageCrawl

One Repository, an image (`container`, with versions) and a library (any other type, without).
`ListPackages` is one action per shared listing; a listing is a snapshot with an age, published
when it is complete. How callers join a refresh in flight is `RequestCache`'s subject: here
another repository's crawl refreshes a listing in one step, between two crawls. Reconcile then
reads the cached Packages, deletes, creates and updates one by one, each of which wakes it
again. `timer` is the delayed requeue (the earlier of two is kept), `since` counts the ticks
since an artifact changed on the host. Time advances when there is nothing to do (`Tick`); a
crawl that takes longer is a fault (`Stall`). The versions of an artifact are numbered in the
order of their publication, across removals, so that an old listing can be told from a new one.
`Agrees` says that the mirror and everything the crawler works from, caches, listings and what
the crawl under way has read, is what the host has.

### ActionCalls, SnapshotStore, Collaboration, ActionsServer

A call goes through `ServeHTTP` step by step, and every step on the host may instead end at the
deadline, if the host lets go of git by then (`InGit`). A change of the host is sent (`Send`)
and carried out when it arrives (`Deliver`), which may be after the call has ended, or never
(`Drop`). `known` says whether the last identity check of a call stands, has been overtaken by a
replacement of the repository, or was never made. The host has one branch; an open pull request
has the commit of its branch; a page of checks holds one check here, and a check that runs again
is listed first under a new id. `Replace` gives the name to another repository. The store's
files have an age; the temporary file of an upload is counted like any other and is left behind
by a crash. `stage` holds `snapshotMu` all the time, and the snapshot slot admits one call, so
the two steps of an upload do not interleave with another upload; a crash comes between them.

## 3. Runs

Passing runs:

| Run | Shows |
| --- | --- |
| `request_cache_safety` | requests of one credential are serialized whatever is evicted (`GateExclusion`), a state in use stays in the map (`StatePinned`), a joined refresh has a leader (`FlightLed`), no request is sent before the time GitHub asked for (`ThrottleRespected`) |
| `request_cache_liveness` | the byte count is the size of what is stored, through replacement, expiry and wiping (`BytesAccounted`); every call returns (`CallReturns`) |
| `commit_flow_safety` | success is real (`HonestSuccess`), the flow refines `CommitPromise` (`ImplementsPromise`), a pending request keeps its bundle (`BundleNotLost`) |
| `commit_flow_liveness` | every request settles (`Settles`), every bundle leaves the disk (`Reclaimed`) |
| `git_commit_safety` | one commit per request whose message gets its key (`CommittedOnce`), no file undone that the request does not name (`NothingUndone`), a reported commit has what was asked (`ReportedIsApplied`) |
| `repository` | a recorded id is never replaced (`RepoIdPinned`), create-only adopts nothing (`NeverAdopts`), the remote a Repository recorded is gone from its owner and name once the Repository is released (`GoneByName`), and one being deleted goes away (`DeletionEnds`) |
| `one_shot` | an answer rests on a dispatch made or a tree read for that request (`HonestAnswer`) and every request settles (`Settles`) |
| `tenant_objects` | what is Ready is real (`ReadyIsReal`): a DeployKey has its key on the host under the recorded id and the private half in its Secret, a Collaborator that is Ready for its spec has that grant or invitation; what is released is revoked in the repository the spec names, where the token may act (`Revoked`); DeployKeys and Collaborators end Ready for their latest spec, and a Connection's verdict ends up being about its latest spec and, when the Secret names it as controller or the credential is missing, about the Secret there is (`Settles`); nobody spins during the rate limit of a token that stays (`RestsWhileLimited`); deletions end (`DeletionEnds`) |
| `packages` | no Package is deleted unless the host dropped the artifact (`NoFalseDelete`), the Packages converge to the host's (`Mirrors`) and are in the end left alone (`NoChurn`), a mirror that agrees with the host is written by nothing that happens to the crawler (`MirrorStays`), an artifact shows within an interval and a listing's lifetime, and an image after a commit within the short interval (`Fresh`) |
| `actions` | slots come back, except those of calls that git keeps (`SlotsReturned`), the quotas hold (`Quota`), only what its caller staged and git verified reaches the branch (`PublishesStaged`), and once (`LandsOnce`); feedback lacks no check (`FeedbackComplete`), and what a call reports or does is bound to the commit and the repository it names (`ActsAsBound`): a pull request has that commit, and a replacement of the repository before the identity check stops the call |

Runs that refute what the repository says of itself (see `findings` for the quoted
lines):

| Run | Shows |
| --- | --- |
| `commit_flow_shared` | two requests with the same files share a bundle; the first to finish, here as Failed, deletes it under the other (`KeptUntilCommitted`) |
| `one_shot_once` | without any crash, a rerun is dispatched twice: the status write after the first dispatch loses to a newer version, or the event of a terminal write comes after the next Reconcile has begun |

### What the code does not promise

Behaviours the modules have and that no property forbids, because the code allows them:

* A Reconcile of a RepositoryCommit that began from a stale copy puts a terminal status back to
  Running (`updateStatusIfChanged` reads again before it writes); the request is then served
  again and finds its commit by the key, or makes it again where the search does not reach it;
  `HonestSuccess` and the promise hold.
* At most one commit per request. A commit buried under more than the fifty newest, or one whose
  message quotes the trailer and gets no key, is made again when the request is repeated: the
  answer of a landed commit is a rate limit, others push during the wait, and the retry commits
  again. `ImplementsPromise` allows exactly that. "Retrying is safe: the idempotency trailer
  lets the backend find a commit that landed before the limit hit instead of writing it twice"
  (`repositorycommit/controller.go:153`) is therefore true for fifty commits only.
* That a call answered with "error" has left nothing behind. The create may have taken effect,
  and the withdrawing delete's own error is dropped (`tools_write.go:347`, 352): the request
  lives on, without its bundle, and fails when the bundle does not arrive. `BundleNotLost` and
  `KeptUntilCommitted` are about the other requests.
* A remote that is not under the owner and name of the spec is not deleted: one made under the
  token's own account, one left behind when owner, name or connection were edited, and one the
  token may no longer see, whose 404 counts as success. "On delete, removes it before releasing
  the finalizer" (`controller/repository/controller.go:12`) does not hold for them; `GoneByName`
  is about what is recorded and seen.
* Likewise a key or a grant in the repository that `repositoryRef` named before an edit stays,
  and one where the token may no longer act is taken for revoked: the finalizer's promise "so
  the host-side key is removed before the CR disappears" (`types_deploykey.go:110`) is kept for
  the last repository only. `Revoked` says so.
* The RepositoryCommit controller creates the remote of a create-only Repository without
  recording its id (`repositorycommit/controller.go:120` drops the result); the Repository then
  reports an identity conflict for ever.
* A DeployKey deleted between the registration of its key and a status write that is lost leaves
  the key on the host, since `DeleteDeployKey` goes by the recorded id. Edits of its title and
  `readOnly` never reach the host: the key is found by its material.
* A DeployKey that takes over the name of a deleted one may find its predecessor's Secret in the
  cache and register that key, just before the garbage collector takes the Secret
  (`ensurePublicKey` does not compare owners). `ReadyIsReal` leaves out the Secret of recreated
  objects for that reason.
* A DeployKey whose key is not on the first page of a hundred fails until the page shows it, and
  an invitation beyond that page survives a release. `Settles` and `Revoked` say so.
* A Collaborator whose user name is edited leaves the old user's grant behind: the spec it
  revokes on deletion is the last one.
* GitHub refuses key material that another repository has, so a DeployKey whose `repositoryRef`
  was edited fails until that one is gone (`Elsewhere` in `Settles`).
* A Connection that failed validation is not looked at again without an event: an outage of the
  host during one validation stays on record as `ValidationFailed`. `Settles` says only which
  Secret the verdict is about. A Secret that does not name the Connection as its *controller*
  wakes nobody, and the portal's does not (`portal/src/api.ts:822`), although "owning the Secret
  re-enqueues the Connection once it lands" (`connection/controller.go:53`): one replaced while
  the old one is being validated leaves the verdict about the old one.
* An object of a GitHub App's connection does not wait out a rate limit. Limits are remembered
  per token hash and every Reconcile mints a token (`tenant/github_app.go:106-139`), so each
  attempt is answered by the host; an answer that names another time, as a relative Retry-After
  does, changes the message, and the status write brings the object back at once. The "no-op" of
  `shared.go:68` needs a token that stays, which is the hypothesis of `RestsWhileLimited`.
* The controller of a checkout or a build status need not come to rest. Every terminal write
  re-enqueues its request, and a Reconcile that begins before the event of that write sees an
  unfinished request in its first cached read and a current version in its second, works again
  and writes again. Nothing in the code stops that cycle.
* A git command that the deadline kills may have started processes that hold its stderr
  (`snapshot.go:127-136` sets no `WaitDelay`): the call and both its slots stay taken while the
  host is silent. `SlotsReturned` leaves such calls out.
* An image that is deleted while its listing is still shared makes every crawl fail on its
  versions until the listing expires; the Packages stay meanwhile.
* A pull request whose creation is answered with a conflict (the branch moved in between) exists
  on the host. Staging a snapshot that is already there does not renew its age, so it may expire
  right after. An operation works on whatever repository has the name after its last identity
  check.
* Feedback whose pages shift twice may hide a check behind two runs of another one; the answer
  then shows both runs.

### Bounds, and why they are enough

* `RequestCache`: two callers are enough for a wait, a join and an eviction under
  somebody; two identities with room for one state force eviction and refusal; three
  objects are the most that two callers and one entry of the map can hold. Two listings
  and room for one refresh force the refusal of a refresh. `MaxTime = 1` is enough for a
  throttle that expires (the back-off), for one that outlives the idle age (a reset
  time, a Retry-After of 2), and for a response that expires. `MaxPages = 2` in the
  liveness run lets a leader go back to the gate. There two stored responses of
  sizes 1 to 3 against a limit of 2 bytes replace, wipe and refuse each other.
* `CommitFlow`: one request, one scope, because requests meet only in the store, in the queue
  and at the single worker; two requests are far beyond TLC with crashes and a clock,
  and the proofs cover any number. `Window = 2` with delays 1 and 2 gives a wait that
  fits, one that fits once only and one that does not fit. One restart, since a restart keeps
  only objects, bundles and branch, each of which the recovery finds in any state already;
  the proofs cover any number. `MaxAge = 3` exceeds arrival and one
  retry, as a day exceeds them in the code. The request's commit takes a key and may be
  buried; the count of commits saturates at two. The liveness run counts no commits, which no
  action looks at, and has a restart, so that what a call left behind is reclaimed by the sweeper.
  `commit_flow_shared` takes two requests, no restart and ages far beyond the other times.
* `GitCommit`: two requests, two paths, two values, two foreign pushes and two calls
  per request: enough for a lost ref race, a deletion that becomes a no-op or stops
  being one, and a repeat after a lost answer. `Scan = 5` is the whole history that
  matters here, as 50 is for a branch of less than 50 commits between two calls;
  a commit buried deeper than `Scan` is made again, which the code accepts. One of the
  two requests quotes the trailer: it has no key and may be committed twice, and the
  other one is told apart from it all the same.
* `RepositoryLifecycle`: two remote ids (the provider's and someone else's, in either
  order), two accounts, one edit of the spec, deletion by others or restart, and the three
  creation modes; the proofs cover any number. Reasons that are recorded and tried again
  alike are one ("Failed").
* `OneShotRequest`: one request of each kind in turn, since requests share only the
  worker and the store, and the proofs cover any number; two contents let the branch
  move between two attempts; one restart; an age limit of one tick, so that a bundle is
  swept while its request is still in use. `one_shot_once` needs no restart.
* `TenantObject`: one object, because objects meet only on the host. A DeployKey wants a generated
  key or a given one in another repository, a Collaborator one of two permissions of one user or
  is for another user, a Connection has two specs; the proofs cover the others. The
  Collaborator's connection is a GitHub App's, the others' tokens stay. Two events
  per life of a DeployKey or Connection, out of edits, recreations, failures, rate limits,
  restarts, broken references and Secret edits: one fault during the recovery from
  another, or one during an edit. A Collaborator keeps nothing between attempts, and one is
  enough for it. Deletion, informers, limits that end and the invited user's answers are not
  counted.
* `PackageCrawl`: the short interval is one tick, the long one and a listing's lifetime two,
  the window three: each is reached before the next one, as 30 seconds, two minutes and ten
  are. Either two changes on the host without a fault, or one with a fault, from any set of
  artifacts, or the Repository deleted and created again with an image published. The proofs
  cover any intervals and any number of changes and faults.
* `ActionsServer`: six sets of up to four calls, each aimed at one property, with the events
  of others that can spoil it: uploads of two callers against a quota of two files and three
  units; publication, publication again and by another caller; pull requests created, edited
  and found; feedback of three pages; a repository that is replaced. Two slots and one
  snapshot slot make refusals of both kinds happen.

### Fairness

`RequestCache`: a goroutine that can run does; a gate that is free infinitely often is
eventually taken (Go's channel receive queues are FIFO); the HTTP client has a timeout, so an
exchange ends. Callers need not start calls or cancel them. `CommitFlow`: weak fairness of the
tool, the informer, the worker, timers, the sweeper's goroutine and the clock; none for callers
leaving, deletions and crashes. `RepositoryLifecycle`: weak fairness of the controller and the
informer; strong fairness for a Reconcile that starts from a current copy with a usable
connection and for the host answering, because the workqueue's exponential back-off outgrows the
informer's lag and retries never stop. `OneShotRequest`: weak fairness of the informer, the
worker, the sweeper and the clock. Nothing is assumed of callers or of the host. `TenantObject`:
weak fairness of the controller (taken as one process: its steps, whatever they are, go on), of
the informers and of the timers; none for users, for the end of limits or for references, which
the properties take as hypotheses instead. `PackageCrawl`: weak fairness of the crawl, the
workqueue, the informers, the garbage collector, the release of the Repository and the clock.
`ActionsServer`: weak fairness of a call that was admitted, except while it waits for git;
everything else it waits for has a deadline that ends the wait (`context.WithTimeout`, the
body's read deadline, HTTP requests that follow the context). A git command has no `WaitDelay`,
so its deadline kills the process and not necessarily the wait, and nothing is assumed of it.
None for arrivals, for the host's deliveries or for others.

## 4. Proofs

`CommitFlowProofs` proves for any number of requests, contents and scopes, any delays
and any number of restarts, from the assumptions the modules name
(`StoreAssumption`, `FlowAssumption`):

* `TypeCorrect`: `Spec => []TypeOK`.
* `SuccessIsHonest`: `Spec => []HonestSuccess`.
* `FlowImplementsPromise`: `Spec => ImplementsPromise`, the refinement of `CommitPromise`.
* `BundleKept`: `Spec => BundleNotLost`, about requests whose caller was not told "error", when
  no two requests have the same content (`OwnContents`). Without that hypothesis it is false, as
  `commit_flow_shared` shows.

The argument. `Working` says that a Reconcile has a request exactly when it is not idle and that
its copy of the status is then Running. `Landings` says that a request whose commit can be found
has had its changes on the branch, that the step `push` comes only when its commit cannot be
found, which nobody but this Reconcile can change, and that the step `success` and a status
Succeeded on record both come after the changes. `Untold` says an answer comes only from a call
that is over, which makes every answer the first one of the abstract specification. `BundleInv`
ties the cleanup step to a request that is finished: with own contents, the only deletions at
the controller's scope are then of bundles nobody needs.

`GitHostProofs` has two parts. Of `GitCommit` it proves for any requests, files, edits, pushes
and calls, from `CommitAssumption`:

* `TypeCorrect`, and `NothingIsUndone`, `ReportsAreApplied`: `Spec => []NothingUndone`,
  `Spec => []ReportedIsApplied`.
* `CommitsOnce`: `Spec /\ []SearchIsComplete => []CommittedOnce`, where
  `SearchIsComplete` says that the branch is no longer than what the search for the key
  looks at. `CommittedOnce` speaks of the requests whose message gets its key. Both
  restrictions are needed: a message that quotes the trailer gets no key and a repeated
  call commits it again, and a commit buried under more than `Scan` others is not found.

The argument: whatever entries are sent, filtered for the base or not, the tree they give
is the one `Goal` describes (`SentIsGoal`); a draft is the goal of its base
(`CallInv`), a ref moves only when the branch still is that base, so every commit is
the goal of its parent (`BranchInv`), and a commit found by its key or a base with
nothing left to change has what was asked. For `CommitsOnce`, a call past its search
has no commit on the branch (`OnceInv`), which only its own ref update can change.

Of `PackageCrawl` it proves for any intervals, lifetimes and windows (each at least one tick; the
crawl interval may be shorter than the one after a commit, as the environment variable allows),
any artifacts published at first and any number of changes, faults and deletions, from
`PackageCrawlAssumption`:

* `CrawlTypeCorrect`: `CrawlSpec => []CrawlTypeOK`.
* `CrawlDropsNothing`: `CrawlSpec => NoFalseDelete`.
* `ArtifactsShowInTime`: `CrawlSpec => []Fresh`.
* `MirrorIsStable`: `CrawlSpec => MirrorStays`.

The argument for deletions (`DropInv`). Nothing a Package, a served listing or a crawl has is
newer than the highest version the host has had (`PackageInv`, `ListingInv`, `SeenInv`). If a
served listing or what a crawl has read lacks the artifact while there is a Package, then
the host has dropped what the Package shows. That a crawl does not write what it lacks
(`TodoInv`), and that the listing it read cannot be replaced by another one under it, keep it so:
what a listing lacks can appear in the mirror only after a newer listing.

The argument for freshness (`FreshInv`) is about ages. A listing that is served is right or
fetched before the last change, so the change is no older than the listing (`AgeInv`); what a
crawl has read is therefore right or less than a lifetime behind, and right for an image after a
commit, because a commit enqueues the Repository and a crawl that nothing has asked to repeat
knows of it (`RecentInv`, `ReadInv`). A crawl that has written something is repeated, since
every write comes back as an event; one that is not repeated has found the Packages as it read
the listings (`LagInv`, `WriteInv`). So when a crawl ends for good, each artifact shows or
changed less than a lifetime ago, and from then on every tick takes from the timer what it adds
to the age of the change (`WaitInv`): the sum stays below the bound `Fresh` names. All of it
holds while nothing has failed (`SteadyInv`).

`MirrorStays` needs only the type: `Agrees` is inductive by itself under all steps that change neither
host nor Repository. Its parts are needed together, since a restart replaces the caches,
a new token the listings, and an abandoned crawl what has been read.

`RepositoryLifecycleProofs` proves for any number of accounts, remote repositories, edits, outside
deletions and restarts, from `LifecycleAssumption`: `TypeCorrect`,
`CreateOnlyNeverAdopts` (`Spec => []NeverAdopts`), `ReleasedIsGoneByName`
(`Spec => []GoneByName`) and `IdIsPinned` (`Spec => RepoIdPinned`). The argument: a copy
that passes the version check *is* the object (`CopyInv`), ids are given out in order
and none is known before it was given out (`IdInv`), so a remote that appears later
is never the recorded one; a create-only copy knows only ids the provider made
(`MadeInv`); and the steps `create`, `record` and `release` are reached only with the id
they need (`StepInv`).

`OneShotRequestProofs` proves for any number of requests, contents and restarts, from
`StoreAssumption` and `OneShotAssumption`: `TypeCorrect` and `AnswersAreHonest`
(`Spec => []HonestAnswer`). The argument: what a success rests on (`Backed`: a dispatch,
or a tree read for the request) only grows, so it is enough that the step `success`
(`WorkInv`), a status Succeeded on record (`RecordInv`) and a call that reads or has
answered (`CallInv`) all have it. The bundle's name travels through all three, which is
why a status written over another one, and a bundle shared by content, do no harm.

`RequestCacheProofs` proves for any number of callers, credentials, states, listings, sizes
and limits, from `ConstantsAssumption`: `TypeCorrect` (`Spec => []TypeOK`), `Pinned`
(`Spec => []StatePinned`), `Serialized` (`Spec => []GateExclusion`), `Led`
(`Spec => []FlightLed`), `Accounted` (`Spec => []BytesAccounted`) and `Throttled`
(`Spec => ThrottleRespected`). The argument starts from the reservations: `UsersInv` says
that a state's count of users is the number of callers that refer to it, as a cardinality,
so a state with a caller is not idle and `acquire` does not evict it (`StatePinned`). No
two credentials share a state (`MapInv`), a state's token is with
one caller or in the channel (`TokenInv`), a refresh has one leader (`LeaderInv`) whom
its joiners wait for (`JoinInv`), and the throttle a credential was told of is on its state
or over (`ThrottleInv`); eviction asks for idleness *and* an expired throttle, which is why
both halves are needed. `CacheInv` carries the byte count and both limits of every response
cache through `expire`, `store` and the wipe.

`ActionsServerProofs` proves for any finite set of calls, any scenarios (the requests, the pull
requests there are, how often others interfere), any snapshots, slots and quota, from the
assumptions of the three modules: `TypeCorrect`, `WithinQuota` (`Spec => []Quota`), `Bound`
(`Spec => []ActsAsBound`), `Feedback` (`Spec => []FeedbackComplete`), `Publishes` (`Spec =>
PublishesStaged`) and `Lands` (`Spec /\ FromBase => []LandsOnce`). The invariant has one part
per subsystem: `SlotInv` (the slots taken are the calls in progress, as cardinalities),
`CallsInv` (what each step of a call has already established: the binding, the identity check
that has not been overtaken, the checks read so far), `FilesInv` (a file is what its caller
uploaded, under that caller's scope), `QuotaInv` and `ChecksInv` (a check that runs again keeps
its name). `FeedbackComplete` is a counting argument: as many ids as there are checks, no two of
one check, leave none out. `FromBase` says that publications expect the branch as it was before
any of them. It is needed: a publication that expects another snapshot may land each time that
one does, which `LandsOnce` does not count. The scenario of the run satisfies it.

`TenantObjectProofs` proves for any bounds on edits, recreations, failures, limits and
restarts and any wants, from `ReconciledAssumption` and `KindsAssumption`: `TypeCorrect`,
`Real` (`Spec => []ReadyIsReal`) and `AccessRevoked` (`Spec => []Revoked`: in the repository the
spec named last, where the token may act). The heart of it is
`CopyOK`, what a copy of the object, however old, still says of the object there is: a
copy marked for deletion has an object that is marked or gone; a copy with a finalizer and no
mark has its object there with the finalizer; a copy of an object that is
Ready for its present generation asks for what the object asks for. With it, a
Reconcile that removes something works for an object of which nothing is reported, one that
grants something works for an object not yet released, and one that passes the version
check records what it did for the spec there is. `IdsInv` (ids are never given out again),
`SecretInv` (the first object's Secret is generated once), `MaterialInv`, `GrantInv` and
`RevokeInv` say what each step has already done on the host. A call that fails after its
effect is a case of its own in each of them.

`FiniteSums`. The sums in the byte counts are folds of the community modules, about which
the library states nothing. The lemmas (the sum over a set with an element more or less, over
a union, of equal functions, of a subset, of an image) are proved by induction on the subsets
of a finite set, obtained from the well-foundedness of their strict order with the predicate
as a *set* of subsets: the library's induction rule takes it as an operator, which the
installed provers cannot instantiate.

The type invariants of `CommitFlow`, `GitCommit`, `RepositoryLifecycle`, `OneShotRequest` and
`PackageCrawl` are proved (`TypeCorrect`, `CrawlTypeCorrect`) and are not repeated in their
runs. Each inductive invariant was checked by TLC on a small instance before it was proved.

Every safety property of the passing runs, invariant or action property, is thus a
theorem, three of them under a hypothesis stated with it above (`OwnContents`,
`SearchIsComplete`, `FromBase`).
Only model-checked: the liveness properties (the prover has no rules for fairness):
`CallReturns`, `Settles`, `Reclaimed`, `DeletionEnds`, `RestsWhileLimited`,
`Mirrors`, `NoChurn`, `SlotsReturned`.

## 5. Not modelled

* The validation of bundles (`buildBundle`: paths, modes, sizes, digests): a pure
  function of its input.
* Deletion and forced update of a branch by others in `GitCommit`: the host refuses a
  non-fast-forward update either way, and the history would no longer be one sequence.
* The sweeper's race with a second `Put` of the same content after a day: `ToolPrompt`
  says that a tool call gets from one `Put` to the next in less than the sweeper's age.
* `DeleteRepository` checks the identity and then deletes by name; a repository that
  takes the name in between is deleted. The module has the interleaving; GitHub
  offers no conditional delete and no property forbids it.
* GitHub App tokens: parsing, signing and exchange are one step of `ResolveCredential` that
  succeeds or fails. That each exchange gives a new token shows in what the transport
  remembers of a limit (`Refused`), which is all the modules tell tokens apart by.
* Several replicas. `deploy/chart/values.yaml:11-13` allows them on shared bundle storage; the
  staging quota is counted under a mutex of one process, so replicas that stage at once may
  exceed it. `Quota` and everything else here is about one provider process.
* The informers' periodic resync, hours apart: "for ever" is until then.
* `deleteAll` of the package crawler: it runs for a backend that lists no packages, and
  no registered backend is one. A `docker` image, whose listings are never bypassed, is
  the library with versions.
* Lists of comments and branches and the read of one pull request: single reads behind the
  same identity check as `branch_head`. The texts of checks and reviews.
* The OAuth exchange, the MCP server's routing and list tools, tenant clients, the
  registry and the stub: no state that outlives a request, or a map behind a lock.
* Log messages, conditions' wording, Kubernetes events, HTTP encoding.
* The components of `PROJECT.json` with status `not_modelled`.

## 6. What is left

`PortalRefresh`: the portal's refresh coordinator and pagination merges, which no module has
yet. The liveness properties would need a prover with rules for fairness.
