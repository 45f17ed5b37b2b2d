# Verification of the Bourbon Warfare backend

TLA+ models of the Quart backend `bw/` of this repository, TLC runs that check
them on small instances, and theorems about them whose proofs TLAPS checks.

## 1. The system

The backend is one Python process with one asyncio event loop. Its database
calls are synchronous, so a handler is interrupted only where it awaits. Every
method of a store (`EventStore`, `UserStore`, `ProcessStore`, ...) opens its own
`state.Session.begin()`: a request that calls three stores commits three
transactions, and a failure or a crash can leave it after any of them. These two
facts decide the grain of every module: *a step is the code between two awaits,
cut again where a transaction commits if something can fail there.*

Two more processes matter: the game servers (children that outlive the backend)
and the cron runner, which talks to the backend over HTTP.

| Component | State | Operations | What makes it correct |
|---|---|---|---|
| Realtime bus (`bw/realtime`) | tables `events`, `queued`, `published`; `Queue.queues`, the inboxes of the `Worker`s | publish, the background task, subscribe, stream, disconnect, stop, restart | each stream yields a gapless piece of one total order; nothing unpublished is dropped; what is queued arrives |
| Process manager (`bw/server_ops/process`) | table `processes`, the operating system's processes | start, stop, restart, status, pruning | no live process escapes the table; stop means stopped; the number of clients follows the configuration |
| Updates (`bw/server_ops/arma/api.py`, `mod_store.py`) | table `mods`, files on disk, servers stopped by an update | `update_server`, `update_server_mods`, users' start and stop | the record is never newer than the disk; servers that ran run again; no instance runs that nobody asked for |
| Cache and broker (`bw/cache`, `bw/events.py`) | two maps and a linked list per cache | insert, get, expire, event, clear | it drops what was used least recently, and no more than it has to |
| Accounts and sessions (`bw/auth`) | users, Discord and bot credentials, sessions, access codes | create, log in, revoke, access codes | an account is one user for ever; an ended session never counts again |
| Roles, permissions, groups (`bw/auth`) | five tables that refer to each other by serial number | create, edit, delete, assign, join, leave, check | by name the tables are the access rights the requests describe; deletions are never refused |
| Missions and reviews (`bw/missions`) | mission types, missions, iterations, files, reviews, cosignatures | upload, copy, review, cosign, list | an iteration is recorded for a file that is there, once; a signature under a result counts once |
| Sessions of play (`bw/session`) | sessions, played missions | register, finish, finish a mission | what is recorded as played is what ran, and subscribers hear of what is recorded |
| Mod and modlist configuration (`mod.py`, `server.py`, `api.py`) | the global maps `MODS` and `MODLISTS` with shared `Mod` objects, TOML and text files | load, reload, update, add, flush, start | no name or modlist is lost, modlists name defined mods, an update finds the servers it affects, files that were loaded load again, under the conditions of section 6 |
| Cron runner (`bw/cron`) | heap of scheduled crons, login | gather, announce, run and request what is due | what is due is run, however late, and nothing is left over |
| Deployment of mods and keys, configuration and environment, web layer, subprocess wrappers, migrations | none that requests share, or the file system | | |

Interactions. Handlers publish through the `Broker`; its subscribers are
`Queue.on_event` (realtime bus) and `Cache.event`. An update calls the process
manager and SteamCMD; an upload calls hemtt; a login calls Discord. Access
checks guard the endpoints of all other parts. An update of mods reloads the
configuration before it calls `update_mods`, which asks the objects in the
modlists which servers to stop. The cron runner logs in as a bot and publishes
over HTTP. Foreign keys tie iterations,
reviews and played missions together.

Hard behaviours, listed line by line under `hazards` in `PROJECT.json`: streams
joining and pausing between ticks; a crash between the two transactions of a
tick; game processes that exit, become zombies or get their pid recycled between
being read and being killed; updates and start/stop requests interleaving at
SteamCMD's awaits; loads of the configuration that overlap while they wait for
the workshop and share objects; a heap in which files that were removed still
stand, and rounds of the cron runner that come late; overlapping first logins; requests that fail between two
transactions and are retried; names that are deleted and used again.

## 2. Modules

| Module | Models | Role |
|---|---|---|
| `EventBus` | | abstract: what the bus promises |
| `RealtimeQueue` | `bw/realtime`, `bw/models/realtime.py`, the task in `bw/server.py` | implements `EventBus` |
| `RealtimeQueueProofs` | | theorems about `RealtimeQueue` |
| `ProcessManager` | `bw/server_ops/process` | |
| `ProcessManagerProofs` | | theorems about `ProcessManager` |
| `ServerUpdate` | updates in `bw/server_ops/arma/api.py`, `ModStore` | |
| `ServerUpdateProofs` | | theorems about `ServerUpdate` |
| `LruCache` | | abstract: a least-recently-used cache |
| `L1Cache` | `bw/cache`, `bw/events.py` | implements `LruCache` |
| `Accounts` | `UserStore`, `SessionStore`, their requests | |
| `AccountsProofs` | | theorems about `Accounts` |
| `Roster` | | abstract: access rights by name |
| `AccessControl` | roles, permissions, groups | implements `Roster` |
| `AccessControlProofs` | | theorems about `AccessControl` |
| `MissionLibrary` | `bw/missions` | |
| `GameNights` | `bw/session` | composes with `MissionLibrary` (EXTENDS it) |
| `GameNightsProofs` | | theorems about both |
| `ModRegistry` | | abstract: names of mods and modlists over them |
| `ModConfig` | `mod.py`, `State._load_arma_configs`, their requests in `api.py` | implements `ModRegistry` |
| `ModConfigProofs` | | theorems about `ModConfig` |
| `CronRunner` | `bw/cron/runner.py` | |
| `OperationsProofs` | | theorems about `L1Cache` and `CronRunner` |
| `MC...` | | small sets for TLC; `MCOperations` instantiates `L1Cache`, `CronRunner` and `ModConfig` |

How state and actions correspond to the code:

* **RealtimeQueue.** `events`, `queued`, `published` are the tables. `loop` names
  the uninterruptible code that is half done, so a crash can hit between
  `create_event` and `queue_event` (`CreateEvent`, `QueueEvent`) and between
  delivering, publishing and popping (`TickDeliver`, `TickPublish`, `TickPop`).
  `phase` is where the coroutine of a stream is suspended. The queries have no
  ORDER BY, so a tick reads its rows in any order. `log`, `start`, `baseline` and
  `received` are history variables; no guard reads them.
* **ProcessManager.** `rows` is the table, `os` what runs under each pid. A request
  expands into a `plan` of starts, stops and status checks; `stage` is the
  transaction it is at. Rows are read unordered (`Fetched`).
* **ServerUpdate.** Each `job` is a coroutine suspended at an await: SteamCMD for
  the server files (`app`), the workshop's answer (`fetch`), a batch of mods
  (`download`). Of the process manager it keeps how many instances run and
  whether the recorded pid is one of them. A stop may time out (`Late`): the
  process and its pid stay, and neither update looks at the answer, so a start
  adds an instance. `accounted` is a history variable: the instances there may be
  for what users asked, processes did and stops under an update failed to do.
* **L1Cache.** The two maps and the links of the list, one action per call. `reply`
  is what the call raised or returned, failing assertions included. `LruCache`
  knows neither links nor failures: it charges a new entry for its value and
  refunds its key when it goes, as the code counts.
* **Accounts.** `Commit` applies the list of states a request's transactions lead
  to; a failing request stops at one of them. `login` holds the Discord logins
  that wait for Discord. `kind` is a history component.
* **AccessControl.** `acl` holds the tables with serial numbers. A transaction is
  the sequence of states after each of its statements; the database refuses it
  if one breaks a unique column or a foreign key (`Consistent`).
* **MissionLibrary, GameNights.** An upload waits for hemtt, then copies the
  file, creates the mission and the iteration in transactions of their own
  (`UploadStages`). A file's name (`Pbo`) and the name it was saved under inside,
  of which the uuid is made, are independent: `UploadBegin` takes any of both.
  `Reported` is what the game makes of a file's name, which `FinishMission` looks
  the mission up by. It records and then publishes, and its handler of failures
  covers both.
* **ModConfig.** A `Mod` object is its name in `MODS` and which load made it, because
  modlists keep the objects of older loads; `made` is the definition it was made
  from: id, filename, whether it is installed by hand, and its `place`, which
  stands for directory and kind. `has_mods_from` compares all of it and the name
  (`SameMod`). A file is a sequence of entries; `NameOf` is what
  `replace('-', ' ').strip()` makes of their keys, so that two keys may become one
  name. `BeginLoad` is `load_mod_configs` up to the await of the workshop
  (entries before a bad one are taken), `Details` the rest of the request;
  `GoOn` reads the modlists and hands over to `update_mods` (`Check`). `Boot` is
  `State.__init__`, which loads into empty maps before requests are served.
  `untold` and `verified` are history variables.
* **CronRunner.** `heap` is the list `heapq` works on, with `heappush` and `heappop`
  as they move entries, because the code looks at the list's *last* element. A
  round is `Gather`, `RunDue` until nothing is due, `AsyncRuns`, `Request`, `Sleep`;
  the ways the process ends are the stages `drained` (IndexError), `failed` and
  `exited`. Files of crons come and go between any two steps.

## 3. Runs

| Run | Question it answers |
|---|---|
| `realtime_safety` | under crashes, a restart, failing transactions and an upgrade: do the streams implement `EventBus`, without duplicates and in one order, and is nothing lost from the queue or marked behind a stream's back? |
| `realtime_liveness` | without faults: does a queued event reach every open stream and the published table, and does `stop()` end busy streams? |
| `realtime_crash_delivery` (violation) | is an event delivered after a crash? No: see 6 |
| `process_faults` | all requests under failing spawns, exits, timeouts, crashes and pids that other programs get: do the constraints hold, does a start launch the configured number, does stop neither forget nor lie about survivors? |
| `process_stop_orphan` (violation) | does stop reach every live process? No: see 6 |
| `update_records` | two updates, batches, users and every fault: is the record never ahead of the disk, and is every instance of a server accounted for? |
| `update_liveness` | two updates of servers that share a mod: does each server that ran run again? |
| `operations` | is the linked list the abstract cache; does the cron runner leave nothing that is due; is the configuration a registry, does an update find its servers, and do loaded files load again? |
| `cron_schedule` (violation) | is a cron run in every minute of its schedule? No: see 6 |
| `cache_assertion` (violation) | does the cache keep its own assertion? No: see 6 |
| `auth` | overlapping logins, failures, expiry: identities and sessions; names used again, deletions with dependants: are the access rights the roster by name? |
| `missions` | overlapping and failing uploads, reviews, a session: numbering, files, votes, what was played |

Every property of a passing run is broken by a faulty variant of a definition
(`mutants` in `PROJECT.json`), written beside the definition it replaces.

### Bounds, and why they are enough

* *Realtime:* two events and two connections, one restart. Two of each are what
  order, duplication and agreement relate; a third adds no new relation. One
  restart is what brings rows of a dead process before a new one. The proofs
  remove the bounds.
* *Processes:* three pids and two clients: server and both clients can live at
  once, and a pid can be recycled while others are in use. `process_stop_orphan`
  needs one client only.
* *Updates:* two jobs, two servers that share a mod, three mods in batches
  (`BatchN` 2) so that a modlist needs two SteamCMD runs; versions 0 and 1, so a
  release can fall before, between and after any two steps. `MaxInstances` stops
  users from starting a server for ever. The second server may be one whose
  status raises.
* *Operations, auth:* cache, cron runner and configuration share no state, and
  neither do accounts and access control, so a behaviour lets one of them move
  (`part`), and their states add up instead of multiplying.
* *Cache:* three keys of sizes 1, 1 and 2, values of sizes 1 and 2, and a limit of 3:
  eviction of none, one and several entries, re-insertion and reordering all
  happen, with keys smaller and larger than the values under them. The counted
  size is followed until it is off by more than `MaxDrift` (2) below nothing or
  above the limit. The proofs need no bound.
* *Cron runner:* periods 2, 4 and 5 with minutes that meet and minutes that do not, and
  a file without a class; six minutes, rounds one minute late, two changes of
  files: a file can go and come back while its entry is queued. `cron_schedule`
  needs no fault and no change.
* *Configuration:* three mods, two of which define one workshop number, and a title
  that is no key; a mod that moves to another place, one that comes to be installed
  by hand, and a key with a dash that becomes the name of another; two modlists and servers; two requests that wait for the
  workshop at a time and two loads of a mod, so a modlist can hold an older object
  than `MODS`; one write. The files include one that is refused half-way.
* *Accounts:* two Discord accounts, two logins waiting together, three users and
  tokens, two failures, clock 0..2 with a session of length 0 and one of 1, so
  that sessions end before, at and after each other.
* *Access control:* two users and two names of each kind, two rows per table over
  the whole history: a name can be deleted and made again with another number.
* *Missions:* two file names and two names a file may have been saved under, of
  which the game reports one, two servers, two uploads at a time, one failure, two
  reviews, one session, one played mission.
  The constraint `Explored` looks at reviews only without sessions and with one
  upload at a time: reviews read and write other tables than uploads and
  sessions do, so these combinations repeat what is covered apart.
* *Symmetry* is used in safety runs only, on sets whose members no constant or
  invariant tells apart. `missions` keeps the two files symmetric, not the two
  names. `auth` lets users and Discord accounts, and groups and waiting logins,
  share their model values: only one of the two components moves.

`CHECK_DEADLOCK FALSE` stands where the system may stop: a server that is down
and not started again, a process table with every bound used up, a cron runner
that has ended or reached the last minute.

### Fairness

* `RealtimeQueue!FairSpec`: code between two awaits completes, the background
  task's sleep ends, and a stopped process is started again by its supervisor
  (weak fairness). A stream's coroutine is scheduled again and again between
  ticks, and a tick disables it only while it runs (strong fairness). Nothing
  makes clients connect, requests publish or the server stop.
* `ServerUpdate!FairSpec`: SteamCMD ends and the event loop resumes the update
  that awaited it (weak fairness per job). Users need not do anything.

## 4. Proofs

`RealtimeQueueProofs` proves, for every set of connections, every finite set of
events, every choice of faults and every number of restarts:

| Theorem | Statement |
|---|---|
| `TypeCorrect` | `Spec => []TypeOK` |
| `InvCorrect` | `Spec => []Inv` |
| `NoDuplicateDeliveryCorrect` | no stream yields an event twice |
| `OrderAgreementCorrect` | open streams agree on the order of what both yielded |
| `ServedInFullCorrect` | nothing is marked published behind an open stream |
| `UnpublishedStaysQueuedCorrect` | a row leaves the queue only when it is published |
| `ClosedIsNotFedCorrect` | a closed stream is never fed |
| `ImplementsBusCorrect` | `Spec => Bus!BusSpec` |

Assumptions: `EventsAreFinite` (orders of a set of rows exist), the range of
`Faults` and of `MaxRestarts`. No library fact is assumed.

The argument. No duplicate delivery is not inductive: the state must say that a
row that has been appended to the Workers is deleted before a tick reads the
table again. `LogInv` says the log repeats nothing and knows only rows of the
tables; `LoopInv` that a half-done tick works on exactly the queued rows that are
in the log, and that between ticks of a running task none is left; a tick that
fails ends the task, so its rows are never read again in this process.
`WindowInv` says each stream is a window on the log: what it yielded, then its
inbox, from where it subscribed, and to the log's end while it is subscribed.
`PhaseInv` ties `alive` and membership in `subs` to the phase, `ServedInv`
carries what a half-done tick is about to mark. Each action preserves each part
in a step of its own; the safety properties follow from `Inv`, the action
properties from `Inv` and one step, and the refinement maps every action to a
step of the bus or to a stutter (`TickDeliver` is `Broadcast`, `PopEvent` is
`Receive`, `QueueEvent` is `Accept`, `Exit` is `Restart`).

`ServerUpdateProofs` proves, for every set of servers, every finite set of mods,
every modlist, every `batch_n`, any number of concurrent updates and every choice
of faults:

| Theorem | Statement |
|---|---|
| `BatchesCover` | batches of `ceil(n / batch_n)` lose no mod of a modlist |
| `UpdateInvariant` | `Spec => []Inv` |
| `TypeCorrect` | `Spec => []TypeOK` |
| `RecordNeverAheadCorrect` | the record never claims a version that is not on disk |
| `InstancesAccountedCorrect` | no instance runs beyond what users' starts and timed-out stops account for |

Assumptions: `ModAssumption` (finitely many mods, so that they can be listed) and
the ranges of the other constants. The argument: the record is written long after
the workshop was asked, so the state must carry what the update still knows.
`DetailsInv` says the versions an update holds are not newer than the workshop's,
and that a mod in no batch still to come is at least that new on disk; it starts
to hold because the batches cover the modlist, a finished batch preserves it
because SteamCMD installs what the workshop has *then*, and it gives the claim when
no batch is left. Other updates and releases only make versions grow (`Growing`).
Steps of the other jobs, users, crashes and failures leave a job's part alone or
end the job. `Inv` was also checked by TLC on the instance of `update_records`.

`AccountsProofs` proves, for every set of Discord accounts, codes and waiting
logins, every length of sessions and any number of requests that fail half-way:

| Theorem | Statement |
|---|---|
| `TypeCorrect` | `Spec => []TypeOK`: the foreign keys and unique columns hold |
| `OneApiSessionCorrect` | a bot never has two sessions |
| `InactiveForEverCorrect` | a token that no longer counts never counts again |
| `AccountKeepsItsUserCorrect` | an account is one user for ever |
| `StrandedOnlyByFailureCorrect` | no more users without a login than failed requests |

Assumptions: the ranges of the bounds and of `SessionLength`. The argument: each
transaction is a function from a database to a database, and a request may stop
after any of them. So the lemmas are about transactions: one takes a `Good`
database to a good one that `Follows` it (no account changes its user, no issued
token begins to count), `Follows` is transitive, and `CommitKeeps` then gives the
step of every request, wherever it fails. A link is good because a first login
links a user it has just made, whose number no account has; a new api session
because the older ones were deleted in the stage before; a new token because its
number is greater than that of every session, which `TypeOK` has to say. What
remains for `InactiveForEver` is the clock, which only grows. For
`StrandedOnlyByFailure` each transaction is looked at once more: creating a user
adds one nobody can log in as, linking it takes that one away again, the others
add none; so every stage of a request has at most one more than the state it
began in, and its last stage none. A request that stops before it is a failure.

For `InstancesAccountedCorrect` of `ServerUpdateProofs` a second invariant, `Owing`,
counts for each server the updates that will start it again: what runs and what is
owed is at most what is accounted for. An update owes a start of what it stopped; a
stop that worked takes an instance away as it owes one, a stop that timed out adds
one to the account. So a start pays what is owed, and users, failures and crashes
account for themselves. It assumes finitely many jobs (`JobAssumption`), users may
start and stop what they like.

`ModConfigProofs` proves, for all names, files, titles, any number of overlapping
requests and every choice of faults:

| Theorem | Statement |
|---|---|
| `ConfigInvariant` | `ConfigSpec => []ConfigInv` |
| `ConfigTypeCorrect` | what modlists, titles and requests refer to was made |
| `ReloadedFilesBootCorrect` | files a running backend loaded are accepted by its next start, if no two keys become one name |
| `AffectedAreFoundCorrect` | with every title told, an update finds every server with a mod of an equal definition |
| `ImplementsRegistryCorrect` | `ConfigSpec => Registry!RegistrySpec` |

Assumptions: keys may stand on lines of modlists, and the ranges of the files and
bounds. The argument: `ConfigInv` adds to the types that a stopped backend holds
nothing (`Down`); that an object without its title was added by a request, is
installed by hand, is awaited, or `untold` is true (`Told`), so that objects made from
equal definitions have one name when an update compares them; and that the file an undisturbed
update has read is one that loads into empty maps (`CleanIsAccepted`). There the
two rules for duplicates meet: an update forgives what is defined already, a
start does not, but both refuse a number or a filename twice in one file, and in
empty maps nothing is defined. A start also refuses a name twice in one file, which
an update does not: hence `DistinctNames`. The refinement forgets the objects and keeps names; `Stop` is
`Forget`, every other action a `Change` or a stutter.

`GameNightsProofs` proves, for all files, missions, servers, overlapping uploads and
testers, and any number of failures, sessions and played missions:

| Theorem | Statement |
|---|---|
| `NightInvariant` | `Spec => []NightInv` |
| `TypedInvariant` | `Spec => []TypedInv` |
| `TypeCorrect` | `Spec => []TypeOK` |
| `RecordedIsOnServerCorrect` | a recorded file is in the folder of its mission's server |
| `FileIdentifiesIterationCorrect` | a file of a server is recorded at most once |
| `PlayedIsWhatRanCorrect` | what is recorded as played is a version of the file that ran, the mission's own if it has one |
| `VotesCountedOnceCorrect` | a signature of a tester under a result is counted once |

Assumptions: `FilesAssumption` (the path of a file has one map), `ReportedAssumption`,
`FiniteAssumption` (finitely many files, servers and testers) and the ranges of the
bounds; nothing relates the name of a file to the mission it was saved as. The
argument: a failing request leaves one of its stages, so
`SoundLibrary` is shown of every stage of an upload, with one lemma per
transaction. An iteration is new because its file was not in the folder before,
and every recorded file is in its folder: the first two properties need each
other. The lookup joins without the mission of the iteration and fails unless it
finds one row: then it is the only iteration of that file on any server. `TypedInv` adds the columns, and that a tester has
one result for an iteration and has not cosigned it; an iteration's number is no
greater than the number of iterations, which `FileIdentifiesIteration` bounds by the
number of files times that of servers. The votes are a fold over results. A recursion over the subsets of a
finite set has one solution (`SubsetRecursion`), and the number of signers is one,
because testers differ and so their signers add up.

`ProcessManagerProofs` proves, for every set of pids and any number of clients, with
any requests and faults:

| Theorem | Statement |
|---|---|
| `LaunchMatchesConfigCorrect` | a start launches the server and the configured number of clients |
| `StopNeverForgetsCorrect` | only a start's launch takes a live pid out of the table |
| `TypeCorrect` | `Spec => []TypeOK`: parents are rows, pids are unique |
| `StopTellsTheTruthCorrect` | what stop answers covers the survivors |

Assumptions: `NoPid` is no pid, and the ranges of the other constants. Rows may come
back in any order, as PostgreSQL returns them, or in the order of their creation.
The argument: `ManagerInv` carries the
count through the loops. While rows are pruned, `todo` is the rest of `procs` and
the rows that are *not* in `procs` are at most as many as configured
(`PruningInv`); when all of `procs` is deleted (`DeletedInv`) only these are left;
what is fetched and what will be created make the configured number (`CountInv`).
A listing of a finite set without repetitions misses no element, by the
pigeonhole principle. Pruning forgets no live process because a row's pid is gone
before the row is (`KilledInv`, and again `DeletedInv`). Stop counts rows: `CoverInv`
says that while rows are created or looked through, `procs` lists the whole family,
so the clients found running and the server's own row are all that can be alive.

`AccessControlProofs` proves, for all users, names, grants and any number of rows:

| Theorem | Statement |
|---|---|
| `SoundAlways` | `AccessSpec => []Sound(acl, serial)` |
| `TypeCorrect` | columns, unique columns, foreign keys |
| `DeletionsAcceptedCorrect` | no statement of a deletion is refused |
| `ChecksFollowRosterCorrect` | a check permits what the caller's groups give together |
| `ImplementsRosterCorrect` | `AccessSpec => ByName!Spec` |

Assumptions: `GrantsAssumption`, the range of `MaxRows`, and `Nothing` is no number and
no name. The argument: `Sound` says that rows have their columns, no number is used
twice or is still to come (`Numbered`), and the database's constraints hold
(`Consistent`); a request keeps it because the database refuses what would break
`Consistent`, and a new row's number is fresh. Then the tables are functions of
names. One lemma per request reads its effect by name (`...ByName`), and each is
the roster's step: a fresh number is what keeps a name that is created again from
bringing back the members of the old one.

`OperationsProofs` proves of `CronRunner`, for every finite set of files, every
schedule, any number of changes and attempts to log in, and rounds that are late
by any number of minutes:

| Theorem | Statement |
|---|---|
| `CronInvariant` | `CronSpec => []CronInv` |
| `CronTypeCorrect` | `CronSpec => []CronTypeOK`: the list is a heap |
| `NothingOverdueCorrect` | when a round leaves the heap, nothing in it is due |
| `FirstDueRunsCorrect` | what was found is run in the first minute it is due in |

Assumptions: finitely many files, each with a phase below its period. The argument:
the path an entry takes through the heap is the least set that holds the place it
starts from and is closed under going to the parent (or to the earlier child),
`Reached`, so every other place of the path follows a place of it
(`ReachedIsLeast`). From this, `PushKeepsHeap` and `PopKeepsHeap` show that what
`heappush` and `heappop` leave is again a heap and lacks none of the entries it
should have, and `FirstIsEarliest` that the one that is popped is not later than any
other. `CronInv` then says of every file that was found that its first minute has
been run or is still an entry of the heap, unless the process has ended.

Of `L1Cache` it proves, for every finite set of keys, every limit, and values and
keys of every size:

| Theorem | Statement |
|---|---|
| `CacheInvariant` | `Spec => []CacheInv` |
| `CacheTypeCorrect` | `Spec => []TypeOK` |
| `CountCoversKeysCorrect` | if no key is larger than a value, the counted size is never below that of the cached keys |
| `DriftOnlyGrowsCorrect` | under the same condition, only `clear` takes back what it exceeds them by |
| `ImplementsLruCorrect` | `Spec => ImplementsLru`: a step of `LruCache` as long as every entry is in the list |

The argument: `CacheInv` says that some sequence of different keys is what `oldest`,
`newest`, `prev` and `next` hold (`Links`). Taking an entry out of the list takes its
key out of the sequence, making it the newest appends it. Here a failed assertion
counts: `get` of the only entry raises after the entry has left the list, and what it
leaves is a list that ranks fewer keys than the maps have. So `CacheInv` asks of the
sequence only that it lists *some* keys of the maps. `ImplementsLru` is about the calls
before that: `AllRanked` holds at first, every call keeps it unless the assertion
fails, and while it holds the sequence is the ranking of `LruCache`. Sizes do not
matter. The eviction loop drops keys from the front of the sequence, one a round,
and each gives back its refund, so after as many rounds as there are keys the count is
within the limit or nothing is left (`RoundsDrop`); an insertion that ends within it is
`Put`, with the number of rounds for the number of dropped keys, and one that runs out
of entries raises the AttributeError that the property excepts. A hit is `Touch`,
`expire` is `Expire` or nothing, an event is `Lapse`. The eviction loop and the fold over
the keys of an event are recursive functions; `StepsExist` and `FoldExists` show that
there are such functions, which their definitions only name. The size of a set of keys
is the number of its units, so that one key more adds its size; `expire` gives back
exactly the units of the key and `insert` adds those of the value, which is the drift.

Only model-checked, and why: the liveness properties `QueuedIsDelivered`,
`QueuedIsPublished`, `StopEndsBusyStreams` and `ServersComeBack`, because fairness
and ENABLED are beyond the prover, and the four claims that runs refute. Every
safety property, action property and refinement of the passing runs is a theorem.

Recursion. The library's theorems about induction take an operator as parameter,
which the provers cannot instantiate. Where a proof needs induction over data, it
takes a minimal counterexample in a well-founded order (`WFMin`, on numbers and on
finite sets) and refutes it. No module a proof uses declares an operator RECURSIVE.

## 5. What is left out

Message wording, logging, the layout of responses and HTML, chunking of large
responses. In the modules: deletions of users (no request calls them), the
filters of event queries, process lookup by uuid, the queries to a game server
over the network, what is read out of mission files but their mission's name and
type, `update_mission_type`, which no request calls; a review whose result could not be
created, which belongs to no iteration and is never read; of the configuration,
`SERVER_MAP`, whose reload re-reads known servers only, and the HTML made from a
modlist; that `update_mods` runs SteamCMD per install directory; of the cron
runner, what a cron prints and how its file is imported.

Taken for granted: the database's local clock, which sessions expire by, never
steps back and the tokens it issues differ (`Accounts`); a publish tells all of the
`Broker`'s subscribers or none, for one that raises keeps the event from those after
it.

### Not modelled

* *Deployment of mods and keys*: links and copies in the file system, made from
  scratch by each request; what could go wrong is in the file system's semantics.
* *Configuration and environment*, *migrations, scripts and web pages*: read once, or
  run by hand, without state that requests share.
* `web_utils.py` and `response.py` translate requests and exceptions and keep no
  state.
* The fixtures under `integrations/` are tests, not the program.

## 6. Where the code differs from what is said of it

* `bw/realtime/event.py:30` and `:38` publish and pop in two transactions. After a
  crash between them the next process meets the duplicate key, its background
  task dies and nothing is delivered any more, although
  `integrations/realtime/test_queue.py:154` says "process_event_queue pushes each
  queued event to every active worker." (`realtime_crash_delivery`)
* `start_server` overwrites the pids of a running server; the stop that follows
  misses them, although `arma3.py:244` says it "Terminates the primary Arma 3
  server and all of its associated headless clients." (`process_stop_orphan`)
* `bw/cron/runner.py:127` queues a cron that has run only if it is due after the last
  element of the heap's list. Two crons suffice: the one that ran is not queued
  again while the other stands later, and misses its minutes, although
  `README.md:14` says of the cron files that the runner "runs them on a
  schedule." (`cron_schedule`) When the list is empty, `cron_queue_[-1]` is an
  IndexError that ends the process (stage `drained`).
* `bw/cache/l1.py:122` asserts `self.newest_entry is not None` after the entry that was
  hit left the list. When it was the only one the assertion fails: a `get` right after
  the first `insert` raises instead of returning the value, and the entry stays in both
  maps and in no list. (`cache_assertion`)

Behaviour a reader of the models should know of:

* `Modlist.has_mods_from` compares `Mod` objects by value, their name included. After
  a load whose titles did not all arrive, or while another load waits for its
  titles, an update can miss servers that have one of its mods: these are the
  conditions of `AffectedAreFound`, and the property fails without them. The same
  goes for a mod whose definition (a directory, a filename, `manual_install`, `kind`)
  was edited between the loads that made the two objects.
* Keys of the mods file are normalised (`mod.py:283`) after TOML has made sure they
  differ. An update accepts two keys that become one name, and the later entry
  replaces the earlier; the next start raises `ModAlreadyDefined`. `ReloadedFilesBoot`
  fails without `DistinctNames`.
* A stop that times out (`arma3.py:299`) raises nothing. `update_server` and
  `update_mods` do not look at its answer and start the server again next to the
  process that is still there: this is the term in `InstancesAccounted`.
* The uuid of a mission is made of the name inside the file (`missions/api.py:141`), the
  iteration gets the file's own name (`:201`), and `finish_mission` looks the mission up
  by the name of the file (`session/api.py:46`). For a file that was renamed the join of
  `missions.py:330`, which does not ask whose iteration it finds, records mission B with
  an iteration of mission A; and the same file name on two servers makes `one()` fail,
  so that the played mission is not recorded. `PlayedIsWhatRan` states what is left.
* The cache counts a new entry by its value (`l1.py:99`) and gives back the size of its
  key (`:77`); a key that is inserted again keeps its old charge, and its old event. The
  counted size drifts; when it exceeds the limit with nothing left to evict, every
  `insert` raises an AttributeError until `clear`. An entry that left the list through
  the failing assertion is not evicted any more, and others go for it. Published
  events expire nothing (`events.py` passes the event, `l1.py:67` compares the class).
* `flush_mods` cannot write a `WorkshopId` as TOML and has truncated the file by then;
  `save_modlists` writes the titles of mods, which are not their keys. Neither
  file can be loaded again; this is why `ReloadedFilesBoot` is about files that
  were loaded, and a flush ends `verified`.
* The cron runner looks only at paths it does not know (`bw/cron/runner.py:93`): a
  file that changes is not read again, although `README.md:14` says "Reloads on
  change.", and what was queued for a file that was removed is still run. In
  `CronRunner` a changed file is a step that changes nothing.
* `reload_mod_configuration` refuses a file with a mod that is defined already, so
  it can only add.

## 7. Plan

Written so far, in this order: the realtime bus with its proofs, the process
manager, updates, the cache, accounts, access control, missions and sessions, the
configuration of mods, the cron runner, and the proofs of all of them. What would
come next:

1. `ServerUpdate` over the actual `ProcessManager` instead of counters, and after
   `ModConfig`'s `Check`, with a refinement from the counters to the tables.
2. The server of a session in `FinishMission`, should the code come to ask for it; a
   chunked response.
3. Deployment as a function from the modlists of the servers to links, if its
   requests ever run at the same time.
