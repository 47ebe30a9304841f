# A TLA+ model of rapidJS

rapidJS is a web server for Node.js: it serves static files, files built by
plugins, and RPC modules, and handles every request in a pool of workers. This
directory models the parts of it whose correctness depends on the order of
events, checks the models with TLC, and proves their main safety properties with
TLAPS. Paths are relative to `src/packages/` unless they begin with `src/`.

## The system

| Component | State it keeps | Operations | What is hard | What makes it correct |
|---|---|---|---|---|
| **cluster** `AWorkerPool` | idle queue, active map, pending queue, count of workers, destroyed | assign, activate, deactivate, spawn, respawn, destroy | answers, timeouts, errors and exits of concurrent workers in any order | each assignment is settled once, in order, with its own answer; no worker is lost |
| `ThreadPool`, `ProcessPool` | the workers | error and exit handlers | two events per death (threads) or one with late answers (processes) | a dead worker is replaced, unless destroyed |
| `ErrorLimiter` | records of recent errors, initial period | feed | a sliding window over a clock, a timer | the host ends on a burst of errors and only then |
| `Cluster` | one pool | assign, destroy | a process pool of thread pools | errors inside reach the outside |
| **rjs-handler** `RateLimiter` | per client: pivot and two counts | grantsAccess | weights at the border of windows | no more than the limit per window |
| `Handler`, contexts | response cache, limiter, VFS | activate | asynchronous outcomes | each request gets one response |
| `VirtualFileSystem`, `Cache` | cached files with times | read, writeVirtual, load | expiry, reads in parallel | what is read is current |
| `RPCController` | loaded modules | load, import, hasEndpoint, invokeEndpoint | lookups while modules load | the endpoint found is the one invoked |
| POST context | files on disk | pull, extract, copy | webhooks in parallel, partial failure | the deployment is one tarball's |
| **rjs-build** `Plugin`, `Build` | last result and its time, path map | apply, retrieve, retrieveAll | a build in progress while files change | a result is not older than its time says |
| **rjs-server** `Server` | the listening socket, the secure context | start, request, renew | requests before workers, renewal timers | each request is ended once; a valid certificate is presented |
| **rjs** `FileEmitter` | the public directory | emit | emissions that overlap | the output is the build |
| `Logger`, `FileServer`, CLI | the size of the logs | log, emit, serve | a counter of what is on disk | the limit holds |

They interact as follows. `Server` holds an `Instance`, a `Cluster`; each request
is an `assign`, whose promise becomes the response. A cluster of more than one
process is a `ProcessPool` whose children each hold a `ThreadPool`
(`cluster/src/cluster/adapter.process.ts`), otherwise one `ThreadPool`. In a
worker, `rjs-server/src/adapter.ts` makes one `Handler`, whose `activate` is the
worker's handler. `Handler` asks its `RateLimiter`, then makes a context, which
reads from `VirtualFileSystem` (and through it from `Build`), calls
`RPCController`, or deploys an archive. A pool feeds each failure of a worker to
its `ErrorLimiter`, which emits "error" to the pool's user and may end the host
process.

The full list of parts, with what is not modelled, is `components` in
PROJECT.json; the places where the code may go wrong in ways tests hardly reach
are its `hazards`.

## Modules

| Module | Models |
|---|---|
| `AWorkerPool` | the base class: its state, the handlers both pools share, the properties of both |
| `ThreadPool`, `ProcessPool` | worker threads and child processes: their handlers and the next-state relation |
| `AssignmentService` | the contract: what a pool promises to those who assign, without workers |
| `Cluster` | a `ProcessPool` whose children hold pools of threads |
| `ErrorLimiter` | the limiter with a clock, and that the pools' view of it by counts is right |
| `RateLimiter` | the weighted sliding window of the handler |
| `Handler` | a request in a worker: checks, contexts, endpoints |
| `VirtualFileSystem` | a GET and the files it is answered with |
| `Deployment` | a webhook and the deployed directory |
| `Plugin`, `Build` | one plugin's memory; retrieval over several plugins |
| `FileEmitter` | emissions to the public directory |
| `Server` | requests and their responses, over the contract of the pool |
| `SecureContext` | the renewal of the server's certificate |
| `MCPools`, `MCLimiters`, `MCBuild`, `MCCluster`, `MCDeployment`, `MCFileEmitter` | instances for TLC, symmetry, and sums of two models |
| `PoolProofs` | theorems and their proofs about `AWorkerPool`, `ThreadPool`, `ProcessPool`, `MCPools` and `Cluster` |
| `LimiterProofs`, `BuildProofs`, `ServerProofs` | about `RateLimiter` and `ErrorLimiter`; `Plugin` and `Build`; `Server` and `SecureContext` |
| `HandlerProofs`, `VirtualFileSystemProofs`, `DeploymentProofs`, `FileEmitterProofs` | about the module each is named after |

Node runs one event handler at a time, and an `async` method up to its first
`await`; an action of a model is one such run, unless a section below says
otherwise. A rejection nobody handles ends the process (the command line does so
itself), as does "error" without a listener.

### Worker pools

The private methods `activate`, `deactivate`, `deactivateWorker`,
`deactivateWorkerWithError`, `spawnWorker` and `respawnWorker` are fragments
(`Activate`, `Deactivate`, ...) that the actions for the handlers combine, as the
handlers call them:

| Action | Code |
|---|---|
| `Boot` | the `setImmediate` of the constructor |
| `WorkerOnline(w)` | first message of w; `spawnWorker` after its `await` |
| `AssignRefused`, `AssignAccepted`, `AssignSpawns` | `assign`, by its outcomes |
| `Reply(w)` | a message of w, `deactivateWorker` |
| `Timeout(w)` | the timer set in `activate` |
| `Destroy` | `destroy` |
| `InitPeriodEnds`, `Feed` | the limiter's timer and `feed` |
| `HostEnds` | the environment: a signal, or what throws outside the handlers, as the rejection of an `activate` that nobody handles |
| `ThreadError(w)` | the "error" event of a thread |
| `ThreadExitIgnored(w)`, `ThreadExit(w)` | the "exit" event of a thread, by its early return |
| `ProcessExitZero(w)`, `ProcessExitFatal(w)`, `ProcessExit(w)` | the "exit" event of a child, by its code |
| `ForkFails(w)` | the "error" event of a child that was not started |

An assignment is its number, in the order of the calls. `status` and `reply` are
what its promise was settled with. `running[w]` holds the assignments w has been
sent and not answered; a worker answers them in any order, or never, and the
answer says nothing about the question, exactly as the messages of the code do.
The pool takes it for the answer to whatever w holds.

What is simplified, and why nothing is lost:

- The end of a handler call and the reading of its answer are one step. An answer
  that has been sent and not read is one the model has not let be sent yet. Where
  a death makes a difference the answers sent before it are the set `late`: those
  of a process may still be read after its exit, those of a thread after its
  error; a thread's are all read before its exit.
- The death of a process and its "exit" event are one step: a message sent in
  between is one sent before, never answered.
- A failed send to a dead child is fed to the limiter in the step that sends;
  Node emits that error before any other event.
- A child that exits had been online if its first message was sent.
- Once the host has ended the model stops, whatever exit handlers do then.
- Data is not modelled, only whose data it is; serialisation only by its failure.
- A replacement needs a worker of `Worker` that was never used. When none is
  left, an exit that would need one does not happen. This is the bound on deaths.

### Cluster

`Cluster` EXTENDS `ProcessPool` and tells `running[w]` apart into what was sent and
not read (`sent`), what waits in the child's own pool (`waiting`), what a thread has
(`taken`) and answers not read by the parent (`answered`). `ChildReads`,
`ThreadOnline`, `ThreadAnswers`, `ThreadFails` and `ThreadTimeout` are steps of the
child: the pool of `AWorkerPool.ts` once more, by its counts, since its threads are
interchangeable. `ThreadFails` and `ThreadTimeout` end the child, because the
adapter throws the error and awaits the rejected promise with nobody to catch it;
`ChildExitsZero` is a child that ends with code 0. `ParentOnly` has `destroy` with
the other calls and timers of the parent, and `ParentEnds` every way in which the
parent ends: of itself, by the error code of a child, and by a fork that fails.

### Limiters

Time is a natural number that does not go back. `CountsAsInPool` states that each
step of the timed `ErrorLimiter` is a `Feed` or `InitPeriodEnds` of `AWorkerPool`,
where records leave the window at any time, so the pools may be modelled without a
clock.

`GrantsAccess(c)` of `RateLimiter` is `grantsAccess`; the weights are multiplied by
the span of two windows, so all is in integers. `grants` is not a variable of the
code: it counts what a client was granted since its pivot last moved.

### Handler

One worker and the requests handed to `activate`.

| Action | Code |
|---|---|
| `Arrives(r)` | the call, with any method, endpoint and set of checks that fail |
| `Refuses(r)` | a check that fails, in the order of the code |
| `Get`, `Put`, `Post`, `Other` | the switch of `activate` and `process` up to its `await` |
| `FileRead(r)` | a GET's file is there, or reading it threw |
| `Invoked(r)`, `Returns(r)` | the end of `invokeEndpoint`, or its rejection, and what the endpoint returns |
| `Pulled(r)` | the download has ended, or failed |
| `Imports(m)` | a module has been imported, in an order of its own |
| `RemoveFile(m)` | the environment: the file of a module is removed |

`process` is asynchronous in every context, so the `try` around it catches nothing;
what it throws ends the worker (`Rejected`): a failed read, a body of `null`, an
endpoint that throws, an import that fails, a module that is not there. `HasEndpoint`
looks up a name as the code does, which finds those that every object has, with or
without a module; `member` is which kind of name a PUT has. The response cache is
left out: `has` of `Cache.ts` is never true, so nothing reads what it holds. Which
checks a request fails is data; that the limiter is right is the module
`RateLimiter`. `dev` is a variable: a behaviour is of one mode.

### VirtualFileSystem

One request at a time per client. `Asks` is the GET; `Handles` the next of its
events: a look into the cache and for a public file (`Reads`), the reading of that
file (`LoadsPublic`), the search of what was built at the start (`LoadsPrivate`, in
production) or the end of a retrieval (`LoadsBuilt`, in development), and the
response or the next 404 page (`Found`). `Preretrieves` settles the start in
production, with each file as it was at some moment before; it may fail, as may a
retrieval (`RetrievalFails`), which ends the process.

What a retrieval answers is the matter of `Build` and `Plugin`. Here it is a version
the path had in the course of the retrieval (`during`), unless the retrieval is
`doubtful`: another one is under way with it, or the last edit of the path was one
the plugin's scan has not noticed, or the map names another plugin (`missed`). Then
it is any version that the path ever had, or none, as `Plugin.apply` answers
`lastApplyResult ?? []` while another caller's application is awaited. The ghost
`misled` records it for the properties.

`EditPublic` and `EditSource` are the environment. A file is the number of the edit
that wrote it. `Has` says what `Cache.has` says: nothing is found, because
`keyStoreTimestamps` is never written. Headers, ranges, MIME types and how an ETag is
compared are left out.

### Deployment

The webhook from its accepted payload to the removal of what it downloaded, on
files that all workers share. The archive is of the head when its request is served
(`Served`) and arrives any time later (`Downloaded`), after which the hidden paths are
chosen; a hook is under way, and overlaps others, from when it is served. `Starts`,
`Opens`, `Unpacks`, `Extracted` and `ExtractionFails` are the writing of the archive,
`Tar.extract` and the tar process, and `Lists`, `Copies` and `Removes` the `finally`
callback, file by file, with the other workers in between. Each of these may fail
by the disk: the archive cannot be written, which is answered with 404; a directory
or a file of the site cannot, as the disk is full or what has the path is of another
kind, which leaves the file as it was or torn and ends the worker; what should be
removed stays in part. Of which kind a path is in a commit is not told apart: the
failure is always possible. `Killed(w)` is the environment and ends a worker at any
point; its tar process runs on until `OrphanEnds`. Commits are numbers, all with the
same paths; `Push` is the environment.

### Plugin and Build

`ApplyFromMemory` and `ApplyAnew` are `apply`; the import of the build module
(`Imports`), the reading of each file (`Reads`), the call (`Called`), its result
(`Built`) and their failure (`Fails`) are the steps of `applyResults`, in any number
of overlapping applications. What a plugin makes of its files is which version of
each it was given. `Modify` and `Remove` change files with the time of the clock; a
file removed from a folder leaves its time to the folder.

`Build` is in development, where nothing is retrieved at the start. `FetchPlugins`
is its scan of the directory, `RetrieveUnmapped` and `RetrieveMapped` are `retrieve`
by whether the path is in `outpathMap`, `Applied` is the end of one application, and
`Retrieved` and `Answered` what follows it. An object of a plugin is the directory
with the number of changes when it was created, since a plugin that goes and comes
again has a new memory while the map may name the old one. `scan` is what the next
look at the files' times will say: a change of the files sets it to "outdated" if
the scan will notice it, and may fail to, as when the newest file is removed.
`Apply` is then `apply`: of an object whose scan is "current" the answer is what it
remembers, which during another caller's application (`Called` to `Built`) is the
result before, or nothing. The applications of one object by several callers
overlap, each with what it has read. `Rebuild`, `AddPlugin` and `RemovePlugin` are the
environment, which may also change the files while they are read. The walk over the
files' times is in `Plugin` by times, in `Build` by what it can tell.

### FileEmitter

`Emit` removes the directory, `Built` or `BuildFails` end the build, and
`MakesDirectory` and `Writes` put one file after the other. A path may be a file in
one build and a directory in another. Each step on the disk has its failures: the
removal stops in the middle, as the disk fails or another emission puts files into
a directory that is being removed (`RemovalFails`); a directory is not made because
a part of its path is a file; a file is not written because its directory is gone or
it is a directory itself; or the disk fails, which may leave a torn file.
What a build answers is any of `Builds`, as it may come from memory (`Plugin`), which
outside development it always does after the first. `Depth` is in how many
directories a node is: the traversal goes one deep.

### Server and SecureContext

`Server` composes the constructor of `Server` with the pool of its `Instance`, which
it takes by `AssignmentService`: whatever holds here holds over any pool that keeps
the contract, and `pools` checks that both do. The constants of the contract are
given by the code: `Instance` leaves `maxPending` at infinity.

| Action | Code |
|---|---|
| `Listens`, `PoolOnline` | the two calls of `DeferredCall` |
| `Arrives(r)` | a request whose body is not read, up to its assignment and "request" |
| `ArrivesWithBody(r)`, `BodyEnds(r)`, `BodyFails(r)` | a PUT request: its body is awaited first |
| `Answered(r)`, `Rejected(r)` | the pool settles the assignment: then, catch and finally |
| `Stops` | the process ends by its pool, an unhandled "error" or a signal |

A promise's reactions run before the next event, so the chain of `then`, `catch` and
`finally` is part of the action that settles. The pool rejects with 0 or 2
(`EClusterError`), which the catch does not take for an HTTP status: it throws
again, the `finally` ends the response with status 200, and the process ends.
Headers and bodies are not modelled, only that writing them may throw.

`SecureContext` has `updateSecureContext` (`Updates`), its connection (`Connects`,
`ConnectionFails`) and the second write (`Retries`), on a clock: what is due happens
before it goes on, and a delay beyond the longest of `setTimeout` is one of 1. A
connection may fail at any time, for what it meets of the certificate or for
something else; the ghost `broken` records the latter.
`RenewCertificate` and `RenewKey` are the program that replaces the files, not
part of the repository.

## Runs

Three runs check the sum of two models: a behaviour is one of the first or one of the
second, as a variable of the MC module says, and neither touches the other's state.

| Run | Instance | Question |
|---|---|---|
| `pools` | threads or processes; 3 workers, limit 2, 3 assignments, 2 pending | the invariants and the contract |
| `pools_liveness` | the same with limit 1, 2 assignments | every assignment is settled once one was taken up; the limit is exceeded by one at most |
| `pools_own_reply` | as `pools` | violated: a late answer goes to another assignment |
| `limiters` | requests: limit 2, window 3, time to 16, 6 requests a window; errors: threshold 3, window 2, 6 errors | what the weighting guarantees; the window of errors against its definition; `Feed` of the pools |
| `server` | 4 requests | what becomes of each request and its response |
| `build` | a plugin with 2 files, 2 callers, 2 edits, time to 2; 2 plugins, 1 path, 2 callers, 2 changes | memory and retrieval in development |
| `get` | a page in 1 folder, 2 clients, 1 edit, both modes | what GETs are answered with, and that they are |
| `handler` | 2 requests, 1 module, both modes | what becomes of a request in a worker |
| `deployment` | 2 webhooks, 2 workers, 2 commits, 2 kills, 4 files | what is deployed, and who crashes |
| `secure_context` | delays 1, 2 and 5, time to 15, 3 certificates | what is presented |
| `cluster` | 4 children, 2 at a time, 2 threads each, 3 assignments, every end of a process | what the nesting adds |
| `file_emitter` | 3 emissions, 3 paths at depths 0, 1, 2, 5 builds, one path in some a file and in others a directory | what is left in the public directory |

The properties of the pools:

- `Accounted`: a promise is open exactly while its assignment waits or is held by
  one worker. A code path that drops or settles twice breaks it.
- `AnswerFate`: what is left of "its own answer": an older, settled assignment's
  answer may be delivered, each one once, never to an older assignment.
- `NoStranding`: assignments wait only while a worker is active, except before the
  first was taken up. There the code does strand: the assignment that spawns is
  not dispatched when its worker comes, nor by "online"; the next `assign` takes it up.
- `PoolSize`: the count of workers is not below those alive, and above the limit
  by one at most, the constructor's.
- `HeldOnce`: a worker that came online is idle once or active, never both, never
  queued twice, whatever comes of it in what order, and one that is up is in either
  place, where `destroy` finds it. A dead one stays queued.
- `Contract`: each step is one of `AssignmentService`, or none of its business. It
  adds to the invariants that a settled assignment makes room at once, what is
  refused and when, and that nothing is settled that was not taken up.
- `EverySettles`: liveness, below.

Of the cluster: `SecondThreadAfterTimeout` (as the parent gives a child one
assignment at a time, all threads of a child but one idle until a timeout) and
`OneAtATime`. That a child which fails for ever is respawned for ever, and that
`destroy` misses a worker that is starting and has the children it stops replaced, is
what the code does: the models have it, and no property says otherwise.

Of the server:

- `NothingHangs`: a request that was taken awaits its body or an open assignment, or
  its response was ended, on every path through the promise chains.
- `OwnResponse`: no client is given another's answer, though `AnswerFate` is all the
  pool promises and `OwnReply` fails for it. The reason is an accident: the first
  timeout, which is what displaces answers, also ends the server. The mutant that
  answers 500 and goes on, as one would expect of the code, breaks it.
- `OnlineOnce`: "online" is emitted for the later of its two conditions.
- `RenewalKeepsUp`: updates do not end, nor is an expired certificate presented for
  longer than the least delay, if each update finds what it needs and no connection
  fails for something else than the certificate, which does end them.
  `PairPresented`: the second write makes up for a half replaced pair.

Of a request: `OneResponse` (none twice, none dropped by a worker that lives) and
`OwnWork` (its endpoint is invoked once, and by it if it is answered with a result).
Of a GET: `NothingStaleServed` (no file that was gone or replaced before its read
began), `MissedOnlyIfGone` (a 404 is for what was gone, its page and each 404 page
that was passed over; a page that moves from public to built in the course of the
request may be missed) and `EveryRequestAnswered`. The first two have an exception in
development, of a path the request was `misled` about: without it both are
violated, by an older file and by a 404 for a file that is built throughout.

Of files: `FreshUnlessRaced` says what the memory of a plugin may be outdated for,
`NothingOnlyWhileBuilding` when an `apply` answers with nothing, and
`LostOnlyToAnother` when a retrieval misses a file that is built: if the map names
another plugin, or if the plugin answered from a memory that missed a change or that
another application was awaited for. `SoloDeploys` is the
whole promise of a webhook, whatever earlier ones left behind, if none overlaps it;
`BackOnlyByOverlap` and `CrashOnlyByOverlapOrFailure` confine what goes wrong to
those that do, or to a disk that fails. Of emissions `SoloIsExact` and
`LastIsComplete` say what they leave, and `FailsForOverlapOnly` that nothing which
earlier ones left, such as a file where a directory is needed, is in their way.

Bounds. Three assignments are the fewest for one to be late, one displaced by it
and one waiting; `MaxPending = 2` is then reached and refuses. Three workers allow
one to die and be replaced with another alive; `Threshold = 2` makes the second
error of a window fatal, and a first one survivable. The cluster has two more
workers than its limit, so that both children are replaced. The error limiter has a
threshold of errors in, at and over the window; the rate limiter three windows
and their borders, one client (the entries of clients are independent; the proofs
are for any set). The server has four requests: one that fails, one that a late
answer could go to, and two behind them. Two callers, webhooks or requests are the
fewest to overlap; emissions are three, for one to find another under way
and be followed by a third. Of a GET two clients are the fewest for one retrieval to
mislead another, and one folder gives a 404 page above the page; one edit makes what
was read before it stale. With two edits the run takes too long for what they add:
an edit is only before or after a read, and the safety proofs are for any number of
edits, clients and folders. Two changes of plugins let one be removed and come back,
or change while it is read and again after.
In `secure_context` certificates are valid for less than the least delay, for as
long, and beyond the longest timer. Behaviours end when the bounds are used up or
a process ends: hence no deadlock check.
Workers, webhooks and emissions are interchangeable and no definition chooses
between them, so safety runs use symmetry; the run with liveness does not.

Fairness. `FairPoolSpec` adds weak fairness of `Timeout(w)` alone, of a thread or of
a process: a timer of a live event loop fires. Nothing is assumed about handlers,
which may never answer, about starting workers, or about the user. `halted` is an
outcome of `EverySettles` because a host that has ended settles nothing. `FairSpec`
of `VirtualFileSystem` adds that the promise of the start settles, or is rejected,
and that the event loop goes on with each request: file reads and retrievals end. A
plugin that never settles would leave its requests unanswered, and nothing in the code
bounds that: it is an assumption of `EveryRequestAnswered`, not a result.

## Findings

`pools_own_reply`: `AWorkerPool` cannot tell a late answer from the one it waits for
(AWorkerPool.ts:112, 194). A timeout displaces the answers of that worker from
then on, each to the next assignment.

Other places where the code departs from what it says, met while modelling. The
models have the behaviour; no run is spent on it:

- After "error" a thread is idle, is given the next assignment, and its "exit"
  rejects that (ThreadPool.ts:44-54).
- The age of the old pivot weighs the counts of the new window
  (RateLimiter.ts:28-45): with 100 requests a minute, the first request after more
  than 200 minutes is refused.
- At the beginning of a window that follows a quiet one the current count has
  weight 0, so a burst of any size is granted (RateLimiter.ts:39).
- The ETag is "stable across single runtime" by its comment
  (VirtualFileSystem.ts:61), and made anew with every request, since no entry of
  the cache is ever found.
- While the first application of a plugin is awaited, `apply` answers others with
  nothing, and a built file with 404 (Plugin.ts:179-184, 207); later ones with the
  result before it.
- A name that every object has, such as "toString", is an endpoint of every path
  (RPCController.ts:57): without a module `invokeEndpoint` throws and ends the worker
  (RPCController.ts:66). So does a PUT whose body is `null`
  (PUTHandlerContext.ts:50).
- The message that renewal is not supported for self-signed certificates
  (Server.ts:233-237) is given for any error of the connection, and ends the
  updates also of a certificate that is not issued to localhost.

## Proofs

Every safety property that a run checks is proved, but for the one that is violated,
and the action properties with them. The theorems hold for any finite or infinite set
of workers, files, callers and clients (the server's requests, the webhooks and the
emitted files are finite), any limits, delays and bounds, under the assumptions named
in the modules (`WorkerAssumption`, `BoundAssumption`, `SwitchAssumption`,
`ThreadLimitAssumption`, `RateAssumption`, `ErrorAssumption`, `ServerAssumption`,
`PluginAssumption`, `BuildAssumption`, `HandlerAssumption`,
`SecureContextAssumption`, `FileSystemAssumption`, `DeploymentAssumption`,
`FileEmitterAssumption`).

*Pools.* For both pools: `TypeOK`, `Accounted`, `AnswerFate`, `NoStranding`,
`PoolSize`, `HeldOnce`, `Contract`, and one that no run repeats: `InOrder`, no assignment
overtakes another in being taken up. None is inductive alone. The inductive invariant is `PoolInv /\ LimiterInv`:

- `Books`: types, the places of an assignment and of a worker: a worker in `idle`
  was started, is there once, and holds nothing. The pending queue ascends and is
  newer than all that was taken up.
- `Moving`: once something was taken up, a worker is active, or nothing waits and
  one is idle. This is what makes `NoStranding` inductive.
- `Answers`: every answer a worker may still send is to an assignment that has
  been taken up, no two workers may answer the same one, none that was used is
  still to come, and none is newer than what the worker holds. The last part is
  what makes a late answer always an older one; it needs that a worker is sent
  assignments in order, that is, `Books`.
- `LimiterInv`: while the host lives fewer errors are recorded than the threshold.

Each predicate takes the state as arguments, so that the lemmas about the fragments
(`Activate`, `Deactivate`, ...) are stated once and cited by every handler that
calls them. Every handler has a lemma (`...KeepsInv`), and a lemma for the steps of
each pool puts them together.

`Contract` is a refinement: each pool implements `AssignmentService`, for any number
of workers. Under the invariant a handler's effect on the queue, on the set of
assignments held and on the promises is a step of the service or nothing
(`Contracted`), and the limiter's end of the host can come with either
(`ContractedIsStep`). `Answers` gives that an answer is one the service allows
(`ResolveIsContracted`), and `Single` that a worker that is freed makes room for one
assignment (`DeactivateMakesRoom`).

`PoolSize` is made inductive by `SizeInv`: the workers alive are finitely many and
covered by the count, and where assignments await "online" none was counted before
the constructor's spawn. `PoolInvariant` carries the invariant over to the sum of the
two pools.

*Cluster.* `ClusterIsProcessPool`: each step of a cluster is a step of its parent, a
process pool, or none to it. So `PoolInv` holds of the parent, and only the children
are left: in `ClusterInv` a child that is up has, until an assignment is given up, what
its parent has it for, in exactly one place (on the way, with the thread, on the way
back), and one thread, idle if it does not have it. `OneAtATime` and
`SecondThreadAfterTimeout` follow. An assignment that was given up stays so
(`GivenUpStays`): this is not inductive in terms of the children, but comes from the
contract of the parent, by which nothing settled is settled again.

*Rate limiter.* The total is a weighted mean of two counts, hence between them
(`MeanAtMost`, `MeanAbove`) as long as the age is within the span; that proves
`NoFalseRefusal` and `FloodRefused`. In a window that has not rolled the weight of
the count before is at least one half (`HalfMeanAbove`): `HeavyClientWaits`.
`FirstWindowExact` is by induction on the steps of a client.

*Error limiter.* `ErrorInv`: time does not go back (`Chronological`), the records are
the latest errors (`RecordsLatest`), and those without a record were out of the window
when the last error came (`DroppedTooOld`). Of times in their order those in the window
are the last ones (`WindowIsSuffix`), and the filter, a recursive function, keeps just
those (`FilterKeepsSuffix`). So the first error of a burst that the error at hand
completes has its record still (`FeedKeepsInv`): `TerminatesOnBurst`.
`CountsAsInPool` is the refinement step: a timed `Feed` leaves a number of records
that `Feed` of the pools reckons with.

*Server.* All its properties, with its type and that a response is ended twice only
after the outer catch (`EndedAgainAfterThrow`), from `ServerInv`: the places of an
assignment in the contract's queue (`Places`), that none has failed while the server
lives and each that was resolved has its own answer (`Promises`), that requests do
not share assignments (`Requests`), and which calls have been deferred (`Startup`).
`AnsweredKeepsInv` has the argument of `OwnResponse`: an answer to another could only
come from an older assignment that failed, and there is none, or from one that was
resolved, whose answer is used.

*SecureContext.* `ContextInv`: how the two timers relate to the last update
(`Schedule`), what the second write has presented (`Presented`), and that what is
presented outlasts the wait but for the least delay, unless an update met what does
not verify or a connection broke off (`Kept`). It also gives `UpdatesSpaced`: updates are never closer than the least delay.

*Handler.* `HandlerInv` is a type and one predicate of a request, `Sound`: how far it
is, what it was answered, what it did and what that needed. A step is one
request's, so a lemma carries `Sound` for the others past it. Besides the run's
properties it proves that in production nothing is done for a request any check
refuses (`NoWorkForRefused`).

*VirtualFileSystem.* `FileSystemInv`: what is missing now, and what was passed over on
the way up, has been gone at some moment of the request, but for what it was misled
about (`Passed`); what the path it is at holds now is among what it held in its
course, and each version that a retrieval may answer with was held, or is no file and
was gone (`Tracked`); an answer has its reason (`Justified`). That a retrieval is not
`doubtful` is what makes its answer one of these. Of what `cache` holds nothing is
needed, since nothing is found there.

*Plugin.* `PluginInv`: what an application has read of a file that is not raced is
current (`ReadsCurrent`), and what the timestamp says is applied is in the result, or
an application awaits a result (`AppliedIsCurrent`, `AppliedHasResult`). The result
that is stored last may be of the application that began first; its reads are
current all the same, which is why overlapping alone does not make memory stale.

*Build.* `BuildInv` has two parts. `MemoryInv`: what an object that noticed each
change remembers is what its plugin builds, once no result is awaited (`MemoryKept`),
and so is what an application of it has read (`ReadKept`), so that memories can only be
wrong where the property excuses them. `BuildCall` follows a plugin that builds the
path during all of a call (`steady`): its objects answer with the path or are excused
(`SteadyMade`), and while the map has nothing one of them is still awaited
(`SteadyAwaited`). Hence a retrieval that finds nothing in the map has no such plugin
but those that are excused. Of the map nothing is assumed: other calls write it.

*Deployment.* `DeploymentInv` says of a hook that none overlaps that nobody else is
under way (`NobodyElse`), that the site has nothing newer than its commit (`Advances`),
and for each of its phases what the disk holds of it (`Progress`): the archive while
it is extracted, a complete directory once it is, unless it has failed, and of the site
what it has copied. That the paths it writes to were free, whatever
earlier hooks left there, is by counting: there are more numbers than hooks, and one
that is taken was chosen by some hook (`Chosen`, `HiddenIndexIsFree`).

*FileEmitter.* `EmitterInv` says of an emission what of its files is there: if none
overlaps it exactly what it has written, and no directories but those that its build
needs (`AloneExact`), which is why nothing of an earlier one is in its way; if none was
started after it at least that, in some version, and the directory that it is about
to write to (`LastKeeps`), for the ones it finds under way only write. `RejectedFor`
adds why an emission was rejected.

Induction over data is out of the prover's reach as a theorem of the library. The two
proofs that need it, of the filter and of the free number, take the least number for
which a claim fails (`LeastNatural`).

Only model-checked: liveness (`EverySettles`, `EveryRequestAnswered`), which with
ENABLED is out of the prover's reach.

## Not modelled

- `Logger`: a stream and one counter, that answer to nobody. `TLSRedirectServer`:
  no state.
- `Request`, `Response`, `LocalEnv`, `TypeResolver`, `Options`, `Args`: parsing and
  defaults, functions of their arguments that unit tests reach.
- `Printer`, `Command`, `FileServer` and the command line: terminal output and
  start-up. The watch of `FileEmitter` is the environment that calls `emit`.
- In `Handler` and its contexts: header fields, ranges, MIME types, compression and
  the hashing of signatures. In `Server`: the output forwarded to the logger.
- An error of `import` in `ModuleDependency`: optional modules are installed.
- create-rjs, the release scripts, the test application, and `rjs-proxy`, which is
  empty.
