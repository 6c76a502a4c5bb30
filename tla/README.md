# A TLA+ model of the SMM2 game server

This directory holds a formal model of the Super Mario Maker 2 NEX server in
this repository: TLA+ modules, the TLC configurations that model-check them on
small instances, and theorems that the TLA+ proof system (TLAPS) checks for
every value of the constants. All references `file:line` are to the sources of
the repository.

To run it: `tlc -config <run>.cfg <MC module>.tla` for a check and
`tlapm <module>Proofs.tla` for the proofs. Every run and its module are listed
in `PROJECT.json`, and below.

## 1. The system

One Go process. It is built on the library `nextendo-nex` (PRUDP, RMC,
matchmaking), whose source is not in the tree; it is external here and modelled
only as far as this code uses it. The console, the account service
(`nextendo-account`) and the administrator who polls the monitoring are the
environment.

| component | where | state | operations |
| --- | --- | --- | --- |
| course catalog | `smm2_storage.go:52-170` | `nextID`, `byID`, the file `catalog.json` | `load`, `alloc`, `complete`, `setSize`, `get`, `persistLocked` |
| object server | `smm2_storage.go:190-231, 304-322` | the files `<id>.bin` | PUT and GET of `/object/<id>` |
| DataStore object methods | `smm2_objects.go:123-190` | none of their own | `prepare_post` (24), `prepare_get` (25), `complete_post` (26) |
| S3 upload endpoint | `smm2_storage.go:237-288` | files under flattened keys | POST `/` |
| upload descriptors | `smm2_objects.go:24-118` | none | rewriting of hosts, sizes and PIDs in measured answers (66, 132) |
| NSA resolver | `gates.go:68-154` | `nsaCache`, `nsaNegCache`, the channel `nsaInflight` | `resolveNSAtoPID`, `rememberNSAFailure` |
| login | `main.go:178-304`, `gates.go:34-57` | none; the account service keeps the accounts | `resolveUser`, `nextendoPIDFromToken`, `nextendoOnlineCheck` |
| monitoring | `dashboard.go:25-89, 224-357` | totals, `playerMeta`, the ring `events`, `peakConnected` | `noteRMC`, `buildStats` |
| connections, lobbies, eviction | `main.go:129-144`, `dashboard.go:360-412` | in the library | `OnDisconnect`, the reaper, `/api/kick` |
| DataStore dispatch and replay | `smm2_datastore.go`, `init_replay.go` | captured bodies, read once | a method to its answer |
| user profiles | `smm2_profile.go` | a cache of names, templates | `get_users` and its patching |
| RMC capture | `smm2_capture.go` | a log file | one line per request |
| keepalive (type 8) | `type8.go` | none | acknowledges a packet |
| start-up | `main.go:51-173` | none | starts all of the above |

**How they interact.** `main` starts the storage server in a goroutine
(`main.go:149`) and serves RMC beside it. A course is uploaded by
`prepare_post`, which allocates a data_id in the catalog; a PUT to the object
server, which writes the blob and records its size in the catalog; and
`complete_post`, which makes the course ready. It is downloaded by
`prepare_get` and a GET. A login goes to the auth server, whose
`resolveUser` finds an account by a signed token, a bare PID or the NSA id of a
console. The last one goes through the resolver and all of them through the
online check, both HTTP requests to the account service. The ticket of a login
earns a connection to the secure server, which does not ask again; the account service learns from the monitoring who is
online. When the endpoint drops a connection, `OnDisconnect` removes its
player's lobbies. Assets of a level go another way: methods 66 and 132 hand out
a measured S3 descriptor in which our host, the size and the account were
swapped, and the console POSTs to that host under the key it finds there. Every RMC
request passes through `noteRMC` before it is handled; `/api/stats` reads what
it has counted.

**What is hard.** Requests run in goroutines of their own and share the
catalog, the caches and the counters under five different locks, or none:
`load()` runs without the catalog's mutex beside requests that take it; blob
files are written under no lock; every call to the account service leaves a gap
between a check and its use. The process may die between any two steps; saves,
reads and writes may fail and some of these failures are dropped; consoles
abort a PUT and send it again. `hazards` in `PROJECT.json` lists each of these
at its line, with the properties that would catch it going wrong.

**What makes each component correct.**

- *Catalog*: no data_id is issued twice; what `complete` has answered is never
  forgotten; a course is ready only if it was reported complete.
- *Object server and methods*: behind a ready course is its whole blob; the
  size in the catalog is the blob's; a download is as long as announced.
- *Resolver*: it is fail-closed, its slots are never leaked, its table of
  failures is bounded, a late failure does not undo a success, and every call
  is answered.
- *Login*: nobody is admitted under a PID other than his credential stands for,
  or under one that is barred.
- *Monitoring*: no count is lost; an answer is consistent although its parts
  are read at different times; only a race of two polls lowers the peak.
- *Lobbies*: none outlives its player; nobody is locked out behind a dead
  connection; the end of an old connection does not remove the lobby of a new
  one.
- *Descriptors*: the declared lengths stay right; who can be served is not
  refused. *S3 endpoint*: what a console takes for stored is stored, under its
  own name.
- *Dispatch and profiles*: who is shown is an account under its own PID, code and
  name; profiles are those asked for, as many as announced; a name once known is
  not lost to a failing lookup.

## 2. The modules

```
DurableCatalog        what a catalog promises (abstract)
    ^ refined by
CourseCatalog <------ CourseTransfer     the catalog; upload and download on it
    ^                     ^
CourseCatalogProofs <- CourseTransferProofs
MCCourseCatalog       MCCourseTransfer

NsaResolver <-------- Login              the resolver; logins on it
    ^                     ^
NsaResolverProofs <-- LoginProofs
MCNsaResolver         MCLogin

Presence ----> Login                     connections and lobbies on the logins
PresenceProofs ----> LoginProofs
S3Upload ----> UploadDescriptors         POSTs on the descriptors handed out
DataStore ---> UserProfiles              the dispatch on the profiles
Monitor

MCPresence, MCS3Upload, MCDataStore, MCMonitor
S3UploadProofs, DataStoreProofs, MonitorProofs
```

`MC...` modules add only the symmetry sets and the values of constants TLC uses. A definition whose comment
begins with "Mutant:" is a plausible bug in the definition after it; no
specification uses one. They show that each property would notice it.

### CourseCatalog (and DurableCatalog)

| TLA+ | code |
| --- | --- |
| `nextID`, `byID` | the fields of `courses` (`smm2_storage.go:65-73`) |
| `disk` | `catalog.json`; a missing or unreadable one is `EmptyFile` |
| `phase`, `saved` | how far `load()` has come, and its local copy of the file |
| `issued`, `verdict` | history: what `alloc` and `complete` have answered; a course cancelled after it was ready is `withdrawn` |
| `SetPath`, `ReadCatalog`, `CompareNextID`, `RaiseNextID`, `MergeCourse`, `FinishLoad` | the statements of `load` (77-100) |
| `Alloc`, `CompleteOK`, `CompleteCancelled`, `SetSize` | the operations, each one step as it holds the mutex |
| `Persist` | `persistLocked`: atomic by its rename; a failure changes nothing |
| `Crash` | the process dies and starts again |

Three constants set the environment: `EarlyRMC` (requests may overtake
`load()`), `WriteFaults` and `ReadFaults` (saving or reading the file may
fail). The code excludes none of the three, so what is shown under
`EarlyRMC = FALSE` holds of a server that receives its first request after
`load()` has returned. `load()` is not atomic: its comparison of the counter,
its assignment and each merged course are separate steps, and an `Alloc` that
overlaps the assignment may overwrite it (`RaiseOverwritten`). The Go runtime
may also stop the process when `load()` and an operation touch the map at the
same time; that is a `Crash`, which is enabled at every step.

`DurableCatalog` has one table, one counter and neither a start-up, a file nor
a crash. The refinement mapping takes the memory while requests are served and
the file before that, so that loading and crashing are invisible.

### CourseTransfer

It EXTENDS `CourseCatalog`: every catalog change is a catalog action.

| TLA+ | code |
| --- | --- |
| `files` | the length of each `<id>.bin` |
| `put[c, k]` | the goroutine of the k-th PUT of console c: `ReadBody`, `OpenBlob`, `WriteBlob`, `RecordSize` |
| `console` | the uploading console: `PreparePost`, `SendPut`, `GiveUp`, `PutAnswered`, `CompletePost` |
| `guest` | a downloading console: `PrepareGet`, `FetchBlob`, `Forget` |
| `ServerCrash` | `Crash`, with all requests in progress |

A console uploads one course; every body it sends is a prefix of it, so bodies
and files are lengths. `os.WriteFile` is two steps, truncation and writing, as
nothing keeps other goroutines out between the two. A body that breaks off is
taken for complete because `objectHandler` ignores the error of
`readAllLimited`. `PrepareGet` reads the size in the step of the lookup although
the code reads it after the mutex is released: the value read is one a lookup at
that later moment would find. A guest that asks for an unknown data_id gets
nothing of this store (`elsewhere`): what it does get is in `DataStore`.

The handler of `complete_post` takes any data_id from anybody at any time.
`CompletePost(c, id, success)` does so for the data_ids in the constant
`Unordered`; for the others the consoles keep the order of the flow at
`smm2_storage.go:11-16` (`InOrder`): a course is completed by its own console,
after a PUT of it was answered, as often as that console likes, and cancelled by
it when no PUT is pending. The handler itself looks for no file and for no
owner, so out of order it publishes a course without a blob.

### NsaResolver

| TLA+ | code |
| --- | --- |
| `nsaCache`, `nsaNegCache` | the maps; `fresh` stands for an age below `nsaNegTTL` |
| `nsaInflight` | the number of tokens in the channel |
| `call[c]` | a goroutine inside `resolveNSAtoPID` |
| `Lookup`, `Acquire`, `Answer`, `Record`, `Release` | its sections in order: under the mutex, the `select`, the request, under the mutex again, the deferred receive |
| `link`, `Link`, `Unlink` | the account service (external) |
| `Expire` | time |

### Login

It EXTENDS `NsaResolver`. `TokenLogin`, `NumberLogin`, `NSALogin` and
`Anonymous` are the four ways through `resolveUser`; `Resolved` takes up the
resolver's result; `nextendoOnlineCheck` is the gate, which allows an account
when no answer comes (`GateFaults`); `Connect` and `Disconnect` are the
connection that a login earns. The gate looks at no status: an error of the
account service told in JSON has no `allow` and refuses, which `GateFaults`
allows as well. A token is the account it is for: forging one is
out of the model, lapsing (expiry or revocation) is in it. An anonymous PID is
a hash into a range that contains the accounts' PIDs, hence any PID. `barred`
holds the accounts that the service refuses; `Elsewhere` is its question to the
monitoring.

### Monitor

`CountCall`, `NotePlayer` and `NoteEvent` are the three sections of `noteRMC`
(atomic counter, `metaMu`, `eventsMu`). `ReadConnections`, `ReadPlayers`,
`ComparePeak`, `RaisePeak`, `ReadEvents` and `ReadTotals` are those of
`buildStats`. Polls overlap, as `net/http` serves each in a goroutine; `overtaken`
is history, the polls between whose comparison and assignment of the peak
another one has assigned it. What an answer only lists is left out.

### Presence

It EXTENDS `Login`: a login that is `online` is a connection in the endpoint's
register.

| TLA+ | code |
| --- | --- |
| `lost` | the registered connections whose console is gone; the server cannot see it |
| `lobby[pid]` | the gathering a player is in, by the connection that entered it |
| `OnDisconnect` | `RemovePlayer(c.PID)` (`main.go:135-137`) |
| `Reap`, `KickPID`, `KickConnection` | the reaper (`main.go:144`) and `/api/kick` (`dashboard.go:390-404`) |
| `Lose`, `JoinLobby`, `LeaveLobby`, `Close`, `Drop` | consoles and library (external) |
| `disputed` | history: the accounts that came in past the gate |

The endpoint's drop and its call of `OnDisconnect` are one step: the library is
not in the tree, so that what happens between the two is unknown. A console that
is there is never reaped, as `type8.go` keeps its connection alive.

### UploadDescriptors and S3Upload

A measured body is a sequence of tokens with widths in bytes (host, text, size,
PID), a descriptor is a body and the length declared around it. `ourUploadHost`,
`rewriteUploadHost`, `rewriteRelationDescriptor` and `Template` are the functions
of `smm2_objects.go:24-118`; `Scatter` is what `bytes.ReplaceAll` does with an
empty token: every token is torn apart, the host included, which
`rewriteUploadHost` then no longer finds. A key begins with two texts of its kind
(`KeyText`), of which one may be a separator. `Accepts` is the console as the comments describe it
(`smm2_objects.go:43-56`).

| TLA+ | code |
| --- | --- |
| `console[u]` | external: upload `u`, an account and a kind of asset |
| `post[k]` | the goroutine of the k-th POST: `ParseForm`, `OpenObject`, `WriteObject` |
| `objects` | the files of `storageDir`, by their flattened key |
| `sanitizeKey`, `NameOf` | the key of the descriptor as a file name |
| `PrepareUpload` | methods 66 and 132 |
| `PostAnswered` | the console compares the ETag with its asset |

A file is known by its length and the uploads that wrote it. As in
`CourseTransfer` a write is a truncation and a writing, between which others
run. `Flat` turns every separator that `sanitizeKey` replaces into the
underscore. That no two kinds of relation assets have keys that differ in
separators alone is an assumption about the measured bodies (`KeysAssumption`).
The parts of a form that carry a file name are cut at the limit, the others
are not (`smm2_storage.go:251-258`); `Named` has the uploads of the first sort.

### UserProfiles and DataStore

| TLA+ | code |
| --- | --- |
| `pseudoCache`, `userInfoTemplate`, `resultSuccessTpl` | the variables of the same names |
| `carveUserTemplates`, `WholeUsers`, `ResultAt` | the carving of a body that may be cut anywhere |
| `job[r]` | a goroutine inside a DataStore handler |
| `Lookup`, `Answer`, `Store` | `resolvePseudo`: under the lock, the request, under the lock again |
| `Write` | the patched profile goes into the answer |
| `patchUserInfo`, `patchSyncProfile` | the patching; a template of less than 6 bytes (`BareUser`) is returned as it is |
| `capturedResponses` | the measured bodies of the build, each known by the players it shows |
| `GetUsers`, `SyncUserProfile`, `EmptyEnvelope`, `NotFound`, `OwnHandler`, `PrepareGetObject`, `Replay`, `EmptyList` | the ways through the dispatch, one action each |
| `name`, `Rename` | the account service (external) |

The public build has no measured bodies and nothing in the tree but a test calls
`carveUserTemplates`. `DataStoreInit` therefore starts in any build: no body at
all, or all of them with a whole or a cut answer of get_users from which the
templates were carved, and a profile for 49 that may be too short. Structures
are records of their identity fields. The methods 24, 26, 66 and 132 appear as
`OwnHandler`, their effect is the subject of the modules above; 25 is
`PrepareGetObject`, whose answer for an unknown data_id is the measured body or
an error. Measured bodies of 48, 49 and the methods with empty envelopes show
players; who may be in others is not known from the sources, so they show none.

## 3. What TLC checks

| run | instance | shows |
| --- | --- | --- |
| `transfer_patient` | 2 uploads, 1 guest, lengths 0..2 with a body limit of 1, 2 PUTs each, 2 data_ids; failing blob writes, crashes; consoles wait for the answer to a PUT | `ReadyBlobWhole`, `SizeIsBlobLength`, `FetchedAsTold`; of the catalog below `VerdictHonoured`, `IdsBelowCounter`, `AllocFresh` and the refinement `ImplementsDurable` |
| `transfer_faults` | 2 uploads with one PUT each, data_id 1 in order and data_id 2 `Unordered`; consoles that give up, early requests, failing saves, reads and writes, crashes | `ReadyHasBlob`, `ReadyOnlyIfCompleted` |
| `nsa_safety` | 2 calls, 2 consoles, 1 slot, a table of 1 failure | `SlotsAccounted`, `NegCacheBounded`, `OnlyLinked`, `OnceResolved`; `CallAnswered` (liveness) |
| `login_proven` | 2 logins, 2 accounts, 1 console, 1 slot; everything required | `IdentityBound`, `BarredStayOut` |
| `presence` | 3 consoles of 1 account; nothing required, a gate that may not answer, or answer with an error | `LobbyKept`; `PhantomGone`, `PlayerFreed` (liveness) |
| `uploads` | 4 uploads of 2 accounts, 2 POSTs, sizes 5, 7 and 20 with a limit of 6; failing writes, crashes | `WellFramed`, `NobodyRefused`, `ConfirmedStored` |
| `datastore` | 2 requests, 2 players, 1 renaming, all routes, 5 builds (none, whole, cut twice, too short) | `OnlyOwnIdentities`, `AnsweredAsAsked`, `OnceNamed` |
| `monitor_counts` | 2 requests, 2 polls at a time, a ring of 1 | `CountsAgree`, `RingIsTail`, `AnswerConsistent`, `PeakFallsByRace` |

The runs of a composed module check the properties of the module below it too:
`CourseTransfer` drives the catalog through all its actions, so that the catalog
needs no run of its own for what holds.

Four runs end with a counterexample. Each shows that a statement in the sources
does not hold of the code:

- `catalog_early_id`: a `prepare_post` before `load()` has raised the counter
  issues a data_id that an earlier run of the process issued
  (`smm2_storage.go:119`, "reserves a new data_id").
- `transfer_retry`: a console gives up a PUT and sends it again; the first
  goroutine goes on after the second was answered and cuts the blob of the ready
  course short.
- `login_one_place`: two logins to one account are both allowed before either
  connects (`gates.go:8`, "un seul endroit à la fois").
- `descriptor_token`: without `SMM2_RELATION_PID_TOKEN` a relation descriptor is
  not left alone: the replacement of the empty token puts the PID between all
  bytes (`smm2_objects.go:49`, "simplement sautee").

A late failure in the resolver, recorded after another request has cached the
success (`gates.go:139` wants it gone), is harmless: the cache is consulted
first, which `OnceResolved` shows.

Where a property needs an assumption the code does not enforce, the assumption
is a constant with a name. `VerdictHonoured` fails with `EarlyRMC` (an early
save writes a catalog that is not loaded yet) and with `WriteFaults` (a failed
save is dropped and the request answered with success). `SizeIsBlobLength`
fails with `Impatient` (two PUTs may write in one order and record in the
other). `ReadyHasBlob` speaks of the data_ids that are completed in order: no
course in `Unordered` need have a file, as the handler checks nothing.

`IdentityBound` says what ties each login to its PID, and does not call all of
it proof. `main.go:46-47` says that `requireAccount` rejects any login without a
valid token, and `main.go:353-354` and `example.env:15` that `requireSignedToken`
accepts only an identity proven by a signed token. The code does neither: a bare
account PID passes without `requireSignedToken` (`main.go:222`), and a console
passes with its bare NSA id, which anybody may send, under both settings. For
the consoles this is meant (`main.go:212-214`: they send no such token).

`LobbyKept` and `PlayerFreed` except the accounts in `disputed`: when the gate did not answer, was
not asked, or let two logins pass at once, two connections of one account exist
and the end of one removes the lobby of the other. `ConfirmedStored` excepts
uploads that were cut off while they overwrote themselves, and levels, which all
consoles POST under one key (`smm2_datastore.go:84`). `NobodyRefused` excepts a
size with another number of digits, which the code leaves alone
(`smm2_objects.go:67-70`), and types without a body of their own.
`OnlyOwnIdentities` excepts what is left of the first measured user where the
body of get_users breaks off inside it: no template is carved then, and method 48
replays the body, against `smm2_profile.go:175-177`. A build that has such a body
and never carves it is not in the model. `AnsweredAsAsked` excepts builds without
a result, and templates that are too short to have a PID.

**Why the bounds are enough.** Two data_ids are an old course and a new one, and
enough for the races of `load()`, whose steps concern the counter and one
course. In `transfer_faults` lost catalogs issue data_id 1 to both consoles, and
data_id 2 is completed by either at any time; one PUT each is enough there, as a
PUT that was given up goes on (the proof covers any number). A file of length 0
is a blob that was truncated and not written, and 2 PUTs are one that was given
up and one that was answered. In `transfer_patient` the limit `MaxBody` is 1, so
that a course of 2 is above it: it is stored cut (`objectHandler` ignores the
error) and excepted from `ReadyBlobWhole`, while its recorded size and its
download still agree with the file. In the other runs no course is above the
limit. Two calls on one slot fill the channel with a call left over; a table
of one failure is at its limit at once. Two logins can
overtake each other at every step; the proofs cover any number of both. Two
requests overflow a ring of one, and two polls are one that is overtaken and one
that overtakes. Three consoles of one account are one that is
lost, one that takes its place and one that is let in past the gate. Two POSTs
are one that was given up and one that was answered; 5 and 7 have as many digits
as the measured size and 20 has not, and both 7 and 20 are above the limit. Two
requests overlap in every section of a lookup; lists of PIDs are empty, single,
double, repeated and too long. The only bounds on behaviour are `MaxID`,
`MaxPuts`, `MaxPosts`, `MaxRenames` and `MaxCalls`, each in the guard of the action that counts.
Deadlock is checked in all runs.

**Fairness.** `FairSpec` of `NsaResolver` has weak fairness of `Step(c)`, the
goroutine's own steps in a call. It waits for nothing but an HTTP request, which
the 3 s timeout of `gateClient` (`gates.go:29`) ends, and the mutex, which is
held for a few statements; the channel is tried, not waited for. `PresenceSpec`
has weak fairness of `Reap(c)`: main starts the reaper (`main.go:144`), which
looks at all connections again and again. Consoles, administrators and the
account service are under no fairness.

**Symmetry** is used for safety only. Accounts, consoles, logins, handlers and
methods are interchangeable in the modules that say so; `FirstID .. MaxID` and
lengths are numbers and not symmetric.

## 4. What is proved

All theorems hold for every value of the constants that the ASSUMEs of their
module allow: any number of accounts, data_ids, logins, consoles, requests and
slots. These assumptions are what the code fixes: positive
capacities, PID 0 is no account, finitely many goroutines, names of types are
names, the texts the model marks players with are no PIDs, the measured answer of
`get_users` is one that was cut off somewhere. Only `KeysAssumption` goes beyond
the code, see `S3Upload` in section 2. A theorem that needs more says so in its ASSUME:

| hypothesis | of | what it says |
| --- | --- | --- |
| `~EarlyRMC` | `CounterAhead` | no request overtakes `load()` |
| `Calm` | `VerdictsHold`, `NoReissue`, `Implementation` | that, and the catalog file can be written and read |
| `Patient` | `BlobWhole`, `SizeRecorded`, `DownloadAsTold` | `Calm`, consoles wait for the answer to a PUT, and they complete in order (`Unordered` is empty) |
| `requireAccount`, `~GateFaults` | `GateHolds` | a setting of the server, and the account service answers the gate |
| `PIDTokenSet` | `DescriptorsFramed`, `Usable`, `Stored` | `SMM2_RELATION_PID_TOKEN` is set |
| `BaseWidth <= HostWidth` | `Usable` | our host fits where the measured one was |
| `OwnBodies` | `Stored` | no kind is handed the body of another |

Each is needed. Runs end with a counterexample without the first
(`catalog_early_id`), without waiting consoles (`transfer_retry`) and without
`PIDTokenSet` (`descriptor_token`); the others are explained in section 3, but
for `OwnBodies`: when 132 falls back on the body of another type
(`smm2_objects.go:110`), two assets of one account that both have the measured
size get one key, and the later one replaces the earlier.

**CourseCatalogProofs.**
- `TypeCorrect`: `[]TypeOK` under all faults and races. `load()` may put into
  memory only what the file held, so the types of `saved` and `disk` are part of
  the invariant.
- `CounterAhead`: `~EarlyRMC` implies `[]IdsBelowCounter`, under failing saves and
  reads. The property is not inductive: between reading and merging, courses
  are in `saved` only. `CounterInv` adds that they lie below the counter of the
  file, and that this counter has been overtaken once merging begins.
- `ReadyReported`: `[]ReadyOnlyIfCompleted`, that complete() once reported each
  ready course finished, under all faults and races. Between a
  crash and the end of `load()` a course may be in `load()`'s copy only, so
  `ReadyInv` speaks of memory, copy and file.
- `VerdictsHold`, `NoReissue`: with neither early requests nor faults (`Calm`),
  what `complete` answered holds and no data_id is issued twice. `DurableInv`
  says how memory, `saved` and the file make up one table in each phase of
  `load()`, and that the file agrees with the history.
- `Implementation`: under `Calm`, `Spec => Durable!Spec`. Initial states map to
  initial states; each operation to its abstract one; loading and crashes
  (`HiddenStep`) to stutters, by `DurableInv`.

**NsaResolverProofs.**
- `TypeCorrect`, `SlotsNeverLeak`: `SlotInv`, types and the accounting
  `nsaInflight = Cardinality(Holders)` together, as neither is inductive alone:
  `nsaInflight - 1` is a number only because its holder is counted.
- `FailuresBounded`: `NegInv` adds that the table is finite, which the
  cardinality needs when there are infinitely many consoles.
- `FailClosed`: `LinkInv` follows a PID from the service's answer through the
  call to the cache.
- `NeverForgotten`: `SureInv`; the cache only grows and is consulted first.

**LoginProofs.**
- `ResolverImplemented`: a login's steps are steps of the resolver or leave it
  alone, so everything above holds of it here and is reused.
- `LoginTypeCorrect`; `IdentitiesBound`, under any settings: `IdentityInv` ties a
  waiting login to its own call of the resolver, and `FailClosed` then vouches for
  the link of the PID returned.
- `GateHolds`, assuming `requireAccount` and a service that answers: `GateInv`
  carries the accounts barred since the login began through to the check.

**CourseTransferProofs.**
- `CatalogDriven`: a behaviour of `CourseTransfer` is one of the catalog's `Spec`,
  whatever fails. The theorems about the catalog hold of it by this one fact.
  `ShapeInv` says what the catalog's operations need of their callers: a console
  that has begun has a data_id, a body that was read has a length.
- `TransferTypeCorrect`: from `ShapeInv`.
- `ReadyFileThere`, under all faults and for any set `Unordered`. A course may be ready in memory, in the file
  of the catalog or in `load()`'s copy only, so `BlobInv` speaks of all three; it
  adds that a PUT past its truncation, and a console that had one answered, have
  a file, so that completing in order finds one. Files are never removed, so it does not matter whose it is.
- `BlobWhole`, `SizeRecorded`, `DownloadAsTold`: `WholeInv`. It says how far the
  catalog, the file and the one PUT in progress of a patient console have come
  together (`PutWhole`, `ConsoleWhole`), that no two consoles have one data_id
  (`OwnCourse`, from `NoReissue`'s lemma `FreshID`: each course of the catalog
  belongs to a console, `CatalogWhole`), and that what a guest was told is what
  the file has (`GuestWhole`).

**PresenceProofs.**
- `PresenceRunsResolver`: the resolver's theorems hold under connections too.
- `PresenceTypeCorrect`: says also that no lobby stands under a connection that
  has ended. That needs `FoundInv`, whoever is past the resolver has a PID.
- `LobbiesKept`, an action property: by `NoRival` an undisputed account has one
  ticket or connection at most, so that another's end removes no lobby of it.

**MonitorProofs.** Sums over functions are defined by a `CHOOSE` of a recursive
function on subsets. The first lemmas show, by a least counterexample, that this
function exists and what a sum is after one value has grown.
- `NothingLost`: `CountsInv`, the counts and their types.
- `ConsistentAnswers`: `PollInv` carries each part of an answer forward from the
  lock it was read under: counters only grow (`TotalsGrow`).
- `PeakFalls`, for any number of polls: by `PeakInv` a poll that is about to
  assign the peak, and was not overtaken, has seen more players than it.
- `RingKeepsTail`, `MonitorTypeCorrect`: `RingInv`.

**DataStoreProofs.** All of it from `DataStoreInv`. `BuildType` says that the
templates are what they are taken for, wherever the answer was cut
(`Carved`); `CacheType` that a cached name is one of its account's; `JobInv`
splits a list into the profiles that are answered and the PIDs still to come.
- `DataStoreTypeCorrect`, `AskedIsAnswered`, `NobodyMeasured`. For the last one:
  without a template a cut answer has no whole user (`BuildType`), so that the
  replay of 48 shows a piece of one at most; all other methods that show players
  have a handler or an empty envelope before the replay.
- `KnownIsNamed`: the accounts known when the request came stay in the cache, and
  a request that asks the service asks for none of them.

**S3UploadProofs.** First the descriptors: what each token of one is
(`DescriptorShape`), that swaps keep widths and bodies of the same widths have the
same length (`SameWidths`, for a fold, without induction: both are values of the
same function), and that names tell kind and account (`NamesDiffer`).
- `UploadTypeCorrect`: `CoreInv` under no hypothesis. A POST's console keeps the
  size its descriptor was made for, and a file is of uploads of its name and no
  longer than one of them, without which the length of a file that is written
  over is unknown.
- `DescriptorsFramed`, `Usable`: from the lemmas; `Usable` needs of `CoreInv` that
  who was refused was refused for his descriptor.
- `Stored`: `Settled` is about uploads whose whole asset the server has taken once
  (`Received`), not only those whose console knows: a POST given up may have
  arrived, and its console may yet take a later answer. Every other POST of the
  same upload leaves the file whole again or leaves the upload `Torn`, and
  `NobodyElse` has its name.

Only model-checked is liveness (`CallAnswered`, `PhantomGone`, `PlayerFreed`): it
rests on fairness and ENABLED, which the proof system does not reach. Every
safety property that a passing run checks is a theorem.

## 5. What is not modelled, and why

- Wire formats, logging, certificates, environment variables, kerberos keys and
  the parameters of the endpoints: no state depends on them.
- The library: PRUDP, tickets, the kinds of gatherings and who is matched with
  whom. What this code sees of connections and lobbies is in `Presence`.
- The bytes of measured bodies, which are not in the tree, and of structures;
  the arithmetic of `makerCode`, of which only matters that it depends on the PID
  alone. Object keys other than those of the descriptors handed out.
- Time: 256 lookups of names, one after the other, may take minutes while the
  account service hangs.
- A crash is the death of the process. What a power failure does to a file that
  was renamed but not synced is out of the model.
- The contents of blobs beyond their length; two consoles whose courses have
  the same length and share a data_id are not told apart.
- The monitoring's lists.
- A build with a measured get_users that nothing carves.
- The RMC capture and the type 8 keepalive: stateless or diagnostic.

## 6. The plan

All components that keep state, but for the diagnostic RMC capture, are
modelled, and every safety property the runs check is proved. What is left, in
order of importance:

1. `CourseTransfer` as a refinement: under `Patient`, what upload and download
   promise stated as an abstract specification (a store that has a course whole
   or not at all), implemented by `files`, PUTs and catalog together.
2. The action properties behind the liveness checks: that the resolver's `Step`
   never takes a call back, and that `Reap` of a lost connection cannot be undone,
   so that only fairness is left to TLC.
3. `DataStore`: that the cache of names only grows, as an action property.
4. `S3Upload`: `Stored` with the fallback, for accounts whose assets differ in size.
