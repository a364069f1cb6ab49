# TLA+ models of plex-transcode-offload (prt)

`prt` offloads Plex Media Server (PMS) transcodes to a remote worker over HTTP.
PMS starts the *shim* in place of its transcoder. The shim registers a session
with *masterd* on the master, posts the job to *workerd* on a worker, and
mirrors the job's events stream until it can exit with the transcoder's code.
The worker runs the real transcoder, pushes every finished chunk to masterd, and
holds back the transcoder's announces until the chunks they name are stored.

The models follow the Go sources under `internal/`. `PROJECT.json` maps every
definition to the lines it stands for.

## 1. Inventory

| Component | State | Operations | Interacts with | What makes it correct |
|---|---|---|---|---|
| worker job (`workerd/job.go`, `pusher.go`, `watcher_linux.go`) | `state`, `failing`, `cancelState`, `acked`, `pending`, `intakeClosed`, `queueClosed`, the upload channel, the out dir | `run` and its phases, `enqueue`, `uploadWorker`, `drainUploads`, `abortFail`, `requestCancel`, `monitorLifeline`, `finalize` | transcoder (process, files, inotify), masterd (PUT), event hub | chunk before announce; no finished chunk deleted without ACK; every upload counted once; every path ends in a terminal state |
| announce gate (`workerd/proxy.go`, `gateWait`) | one blocked handler per announce, woken by `j.cond` | `relayAnnounce`, `gateWait`, `relay` | job, PMS through masterd | an announce passes only when its chunks are stored; none is held forever |
| event hub (`workerd/events.go`, `handleJobEvents`) | history (states, stderr ring, exit), subscriber channels, `clients`, `clientGone` | `publish`, `subscribe`, `close`, the handler, client accounting | job, shim | no state lost or repeated across snapshot and live events; slow clients dropped, never silently skipped; an unattended job ends |
| segment store (`masterd/sessions.go`) | session table, tombstones, drain timers, the files of a session directory | `register`, `lookup`, `touch`, `close`, `tombstone`, `reap`, `handlePutFile` | worker (PUT), shim (register, DELETE), PMS (deletes directories) | 200 means the chunk is there; the final name shows whole chunks only; 410 is final |
| shim (`shim/shim.go`, `ndjson`) | progress of `tryRemote`, `gotEvent`, the events channel, the liveness context | register, pick a worker, dispatch, mirror, cancel, fall back | masterd, worker, PMS (signals) | the exit code is the job's; nothing is left running or open |
| job table (`workerd/workerd.go`) | `d.jobs`, job directories | admission, lookup, reaping | jobs, codec cache | a live job keeps its directory |
| codec cache (`workerd/provision.go`, `masterd/files.go`) | flights, `.partial` directories, manifest cache | cold fetch, warm sync, manifest | admission, jobs | a warm build is complete; no torn file |
| worker health cache (`masterd/workers.go`) | one status per worker | probe, snapshot | shim | a worker that stays down is not offered for ever; a stale pick costs a fallback and nothing more |
| argv (`shim/classify.go`, `rewrite.go`, `workerd/subst.go`, `build.go`, `prepare` and `spool` of `job.go`, `handleMedia` of `masterd/files.go`) | the media map, the spool dir | classify, rewrite, spool, substitute | shim, worker, masterd, transcoder | the worker's transcoder opens the files the master's would have opened |
| tonemap rewriting (`workerd/tonemap.go`) | none | filtergraph to filtergraph | argv | the same frames, on the GPU |
| tokens, configuration, EAE supervisor, relay (`authtok`, `config`, `workerd/eae.go`, `masterd/relay.go`) | none shared with the rest | | | not modelled (section 6) |

What is hard: goroutines of one job that meet at one mutex and one condition
variable; decisions taken under a lock and acted upon after it; timers that race
the events they bound (drain deadline, liveness, TTL, retries); handlers that
share a file name; best-effort cleanups over a network; processes that die
between any two steps. The list of hazards in `PROJECT.json` names each at its
line, with the properties aimed at it.

## 2. Modules

| Module | Models | Composes or implements |
|---|---|---|
| `ChunkGate` | the abstract segment plane: produce, store, post, pass, refuse | |
| `JobLife` | the abstract life of a job: its states, what decides how it ends | |
| `EventLog` | the abstract events stream: a log of milestones, readers that are told it in order | |
| `WorkerJob` | one job: every goroutine, the watcher, the transcoder (external), masterd's answers | implements `ChunkGate` and `JobLife` |
| `SegmentStore` | masterd's table and PUT handlers, on inodes | |
| `EventHub` | hub, stream handlers, lifeline | implements `EventLog`; the job reduced to its states, and as such implements `JobLife` |
| `Dispatch` | one transcode seen by the shim, and the health cache it picks from | session, job and stream reduced to what the shim can tell |
| `CodecCache` | the codec cache of one build: the shared run, the fetch, the master's directory | |
| `JobTable` | admission, the job table and directories, the reaper, a crash of workerd | extends `CodecCache`: admission looks at the cache, a starting job tops it up; a job's life is reduced to its states |
| `Filtergraph` | texts, the tonemap rewriting, and the frames a graph computes | |
| `Argv` | the arguments of one transcode from PMS to the worker's transcoder | extends `Filtergraph` |
| `WorkerJobProofs`, `DrainProofs`, `WakeupProofs` | theorems about `WorkerJob`: announces, deletion, the life of the job; the accounting of uploads; the waits on `j.cond` | the others build on the first's invariant |
| `SegmentStoreProofs` | theorems about `SegmentStore` | |
| `EventHubProofs`, `StreamProofs` | theorems about `EventHub`: sizes and counts; what a client is told | the second builds on the first's invariant |
| `DispatchProofs` | theorems about `Dispatch` | |
| `JobTableProofs` | theorems about `CodecCache` and `JobTable` | |
| `MC*` | instances for TLC | |

### WorkerJob

A step is one critical section of `j.mu`, or what a goroutine does between two of
them when another goroutine can tell. `run` is the program counter of `run()`;
`uploader[u].at` that of an upload worker: `put` (in `pushFile`), `ok`/`err` (the
result is known, `j.mu` not yet taken), `remove`/`abort` (`j.mu` released, file
not yet deleted or `abortFail` not yet called). The order in which `uploadWorker`
resolves, then removes or aborts, is the point of the component and is kept.
`gate[a]` is the handler of announce `a`; `asleep` means waiting on `j.cond`, and
`Broadcast` wakes what sleeps there, `run()` in `drainUploads` included.
`closeWrite` delivers inotify events only while the watcher is open; closing it
drops what is undelivered (`settled` records whether there was anything).

* A PUT may succeed, fail and be retried, store the chunk although the answer is
  lost, or fail for good (410, file gone).
* The handler looks at one name per step although `gateWait` keeps `j.mu` between
  two names that need no wait: the model has more interleavings than the code.
* `monitorLifeline` decides under `j.mu` while RUNNING and cancels after: since
  `requestCancel` checks everything again, this is one step enabled in RUNNING and
  DRAINING. Who is connected is `EventHub`'s business.
* `need[a]` is a history variable: the finished chunks the announce named when it
  was posted. Names of files still being written or never written are not part of
  the promise (`gateWait` skips names that are not local files).

`ChunkGate` says what the job owes Plex Media Server, `JobLife` what it owes the
shim: states in order, one verdict, decided by what had happened until then (a
cancel before a failure), and untouched by what comes between the verdict and the
state (`run` = `finalize`). `RunVerdict` is where `run()` reads `cancelState`,
`failing` and the exit code in one critical section; `terminalFor` and
`abortState` are the same on the early paths.

### SegmentStore

One file name in each directory, several sessions and PUT requests. Files are
inodes: `openTmp` creates or truncates the inode behind the temporary name, a
handler keeps writing to its inode whatever happens to the name, `rename` moves
whatever the name stands for. A chunk is `Blocks` writes labelled with the job
that wrote them, so a mixture is visible. `overlapped`, `why` and `gone` are
history variables. The worker's side is reduced to `pushFile`'s rule: one attempt
at a time, none after a 200 or a 410; an attempt may time out at the worker while
its handler goes on. A restart of masterd empties the table and ends handlers.

### EventHub

`toPublish` is what `run()` still has to publish after having left `j.mu`: the
state is visible to the monitor before the event is to the clients. `Subscribe`
fills the channel and registers it in one step (`h.mu`), and is followed by
`CountClient`, a step of its own (`j.mu`). `got` is what the client was sent.
The properties speak of the part of a stream that consists of milestones (states
and the exit event) or of numbered lines: `only(s, S)`.

In `EventLog` the log is what the hub keeps for ever, the states and the exit
event, `told` the milestones among what was written to a client, and `conn` what
its handler makes of it. Snapshot, ring, channels and dropped subscribers are
hidden; a dropped subscriber keeps a part from the start.

### Dispatch

The shim's program counter, the queue `todo` of cleanup calls and what follows
them, the channel of the reader goroutine, the connection. Every request may be
lost before or after it took effect. SIGTERM kills the shim until `signal.Notify`
and is remembered after it; SIGKILL is possible at any time. The job is reduced
to PENDING, RUNNING, DRAINING and its end. TTL expiry is allowed only when the
shim is past its spawn budget (1.5 s) and the job is not draining (at most 30 s),
as `session_ttl` is 600 s by default.

`offered` is what `pickWorker` would find in masterd's cache, `up` whether the
worker runs, `known` whether the job is in its table (a worker that comes back has
lost it). One round of the prober is one step: only the shim reads the cache, and
it may be late anyway, so that nothing can tell an answer from its storing. A
worker that is up may be reported with or without room, as its other jobs come and
go. `ReadTooLong` is a line that passes `mirrorStderr`'s limit of 1 MiB and exceeds
the reader's, the same number, once it is wrapped in JSON: the reader ends with an
error on a stream that is healthy.

### CodecCache and JobTable

A library is `Absent`, `Part` (PMS is still downloading it), `Whole`, or `Torn` (a
body cut short): its size and its sum alike. A directory is a function from names
to these. `prov` is `d.prov[build]`; `run[r]` is one `provisionRun` with its
goroutine in `fetchCodecs`. A download is one step, as only its final rename can be
seen. A run that returned nil keeps its manifest while a caller holds it.

`JobTable` adds `d.jobs` (`job`), the directories (`dir`) and the reaper: `expired`
are jobs taken out of the table under `d.mu` whose directories are still to be
removed, `entries` a listing of the directories that grows stale while it is worked
through. `old` stands for both ages the reaper looks at, so time may pass at any
point. FINISHED jobs leave their directory to the reaper; DROPPED ones (cancelled,
lost) remove it at the end of `finalize`, after the state is visible. Ids are
random, so each is posted once; were one reused within the reaper's window between
`d.mu` and `RemoveAll`, the new job would lose its directory.

What `provisionBuild` returns to a caller that joined a run is about that run's
manifest, which may be older than the call, so a starting job may miss a library
that PMS added in between (its comment says that every call re-fetches the
manifest). `VouchedCached` states what does hold.

### Argv and Filtergraph

A text is a sequence of symbols, each a piece of an argument: a name, a separator,
a backslash. Two texts differ where the code can tell them apart. The model keeps
each function of the rewriter and its order (the two passes over a filter string
included, since the first writes the placeholders the second meets), the map of
media inputs with its sharing, the spooled files with their names, and the
substitution on the worker. A signed URL is the escaped path it is for.

The reference is what ffmpeg makes of its arguments: `ffReads` says which input,
file or text each stands for, reading filter strings with ffmpeg's own rules
(`ffSplit`, `ffUnescape`, named and positional options). `onMaster` applies it to
the arguments of PMS, `onWorker` to those of the worker, resolving its local names
back to the files they are copies of; `ArgvFaithful` compares the two, in the
request and in the process that is started. `frames` evaluates a filtergraph on a
decoded frame (size, pixel format, tone, where it is stored), following the labels;
`SameFrames` compares the graph of PMS with the one the worker runs.

`ArgvFaithful` names the two shapes it does not hold for (`hardNames`; section 5
has the lines): the instance holds both, and the run shows that among its lists
there are no others. Directories behind `fontsdir` are spooled in vain.

## 3. Runs

| Run | Instance | Checks |
|---|---|---|
| `gate` | 2 chunks, 2 upload workers, queue of 1, no retry, 1 announce naming both chunks | `NoLostWakeup`, `ChunkBeforeAnnounce`, `UnackedKept`, `PendingExact`, `CompletedDrained`, `CompletedAccounted`, `NoSendOnClosed`, `ImplementsChunkGate` |
| `job_live` | 1 chunk, 1 worker, 1 retry, 1 announce | `ImplementsJobLife`, `DrainEnds`, `AbortEnds`, `HeldAnswered`, `UploadersReturn` |
| `puts` | 2 jobs, 1 directory, 2 PUTs, 2 blocks, 2 registrations, 1 drain timer, 1 restart | `AckLeavesChunk`, `FinalIsWhole`, `TombstoneJustified`, `GoneIsFinal`, `TmpCleaned` |
| `hub` | 2 clients, ring of 1, channel of 7 | `StatesComplete`, `SnapshotFits`, `LostUnattended` |
| `hub_live` | 1 client, ring of 2, 2 lines | `ImplementsEventLog`, `LinesInOrder`, `LostJobEnds`, `StreamEnds` |
| `dispatch` | wire and inbox of 1 | `ExitTruthful`, `NobodyWaitsInVain`, `OrphanEnds`, `ShimEnds`, `SessionEnds`, `DeadNotOffered` |
| `table` | 1 library, 2 runs, 2 jobs, room for 1, 1 crash | `WaitAnswered`, `CacheClean`, `VouchedCached`, `ColdPublishWhole`, `RunEnds`, `ActiveKeepsDir`, `LeftoversGo` |
| `argv` | 1493 argument lists, 5 listings of drivers | `ArgvFaithful`, `SameFrames` |
| `completed`, `ack`, `ttl`, `fallback` | smallest instance that shows it | one statement of the sources each, violated (section 5) |

Why the bounds are enough for the cases meant. In `gate`, two chunks and two
workers give every order of ACKs and a list of which a part is stored; a queue of
one overflows as soon as both chunks are finished before a worker is free. A
retry only repeats `putOnce`; it is in `job_live`, where the attempts matter for
liveness. In `puts`, two requests and two blocks are the least with which a file
can be shared and torn, and two registrations cover both a quality switch (two
ids) and a re-registration (one id twice). In `hub`, the channel is exactly the
largest snapshot: five states, one line, one exit event, as in the code the
channel (1024) must hold the states, 200 lines and the exit event; one slot less
and `SnapshotFits` fails. In `dispatch`, one place bounds only what is
published while the connection is up (the exit event and the end of the stream
always follow), so that an event, an exit code and an end of stream can be under
way or unread while something else happens; with two places each (0.9 million
states) the invariants hold as well. In `argv`, the lists combine every kind of
input, of subtitle option (positional, named, `fontsdir` within and without, one
and two filters) and of output with names that hold separators, escapes, relative
and parent paths, and a file named both as input and in a filter; the graphs are
PMS's own, the same in one chain, one whose last chains skip the tonemap, one in
another order, and variations of label, size and curve. In `table`, one library
passes through every state on the master while runs look at it; with two (2.3
million states without the liveness properties) the invariants hold as well. Two
runs are what a caller that still holds an old result and a new fetch need; two
jobs and room for one make the second wait for the first.

The type invariants (`TypeOK`) are in no run: each is proved for every value of
the constants (section 4), and a mistake in a type shows there first.

Deadlock checking is off in every configuration but `table`: a job, a stream, a
shim end.
Every property of a passing run has a mutant in `PROJECT.json`, a plausible
mistake in a mapped definition that makes TLC find the property violated. The
mutated forms stand beside the definitions they change.

### Fairness

Goroutines and processes are scheduled (weak fairness of their steps) and armed
timers fire. Not assumed: that masterd answers, that a transcoder exits by
itself, that a client reads, that a watcher error or a request ever comes. A
transcoder that was signalled exits, as SIGKILL follows SIGTERM (`cancelGrace`,
`WaitDelay`). `HeldAnswered` and `UploadersReturn` take as a premise that PUT
attempts end, which `pushAttemptTimeout` guarantees; `DrainEnds` and `AbortEnds`
do without it. `StreamEnds` takes as a premise that the client reads. In
`Dispatch` a session expires for certain only once its job is over, the prober's
ticker runs and each probe ends (`probeTimeout`), and the shim's requests end
(`dispatchTimeout` and its like); that a worker comes back is not assumed. In `JobTable`
fetches end (`provisionTimeout`), a starting job stops waiting (`codecSyncWait`),
the clock and the reaper's ticker run; that a job ever ends is not assumed.

## 4. Proofs

Every invariant and action property of a passing run is a theorem, for all
values of the constants, except the two of `Argv` and `Filtergraph`; so is
every refinement, and `TypeOK` of every component, on which the inductive
invariants rest. Each proof module starts with its inductive invariant, shows that
each action keeps it (one lemma for each action that needs more than a leaf), and
ends with the theorems.

| Module | Invariant | Properties of the runs | Stated in the proof module |
|---|---|---|---|
| `WorkerJobProofs` | `Invariant` | `ChunkBeforeAnnounce`, `UnackedKept`, `NoSendOnClosed`, `ImplementsChunkGate`, `ImplementsJobLife` | |
| `DrainProofs` | `UploadInvariant` | `PendingExact`, `CompletedDrained`, `CompletedAccounted` | |
| `WakeupProofs` | that of `WorkerJobProofs` | `NoLostWakeup` | |
| `SegmentStoreProofs` | `StoreInvariant` | `FinalIsWhole`, `TombstoneJustified`, `TmpCleaned`, `GoneIsFinal`, `AckLeavesChunk` | `PublishedFrozen` |
| `EventHubProofs` | `HubInvariant` | `SnapshotFits`, `LostUnattended` | `ImplementsJobLife` |
| `StreamProofs` | `StreamInvariant` | `StatesComplete`, `LinesInOrder`, `ImplementsEventLog` | `OnceInv`, `StreamsOwed`, `LifelineWatched` |
| `DispatchProofs` | `DispatchInvariant` | `ExitTruthful`, `NobodyWaitsInVain` | `FirstEventDecides` |
| `JobTableProofs` | `TableInvariant` | `CacheClean`, `VouchedCached`, `ColdPublishWhole`, `ActiveKeepsDir`, `WaitAnswered` | `SlotsBounded`, `CacheGrows` |

The last column has statements that no run lists. TLC agrees with those on the
instances of section 3; they are kept beside their proofs because a theorem for
every instance makes a run of its own superfluous.

### Assumptions

| Assumption | Why the code justifies it |
|---|---|
| `ChunksAssumption`, `UploadersAssumption` (`WorkerJob`), `HubAssumption` (`Clients`), `NamesAssumption` (`Jobs` of `SegmentStore`): finite sets | one job writes finitely many chunks; `push_concurrency` workers; `j.clients` counts open connections; `reap` walks over a table |
| `NamesAssumption` (`WorkerJob`): an announce names a non-empty list of chunks | one that names none is forwarded like any other request |
| `BufferAssumption`: `RingSize + 6 <= SubBuffer` | `stderrRingSize` is 200 and `subBuffer` 1024 (`events.go:13-15`, whose comment says that the buffer exceeds the largest snapshot); six are five states and the exit event |
| `CapsAssumption` (`Dispatch`): channels of at least one place | `InboxCap` is the reader's channel; `WireCap` only bounds the model |
| `StoreAssumption`: a chunk has at least one block | a file is created before it is written and renamed after: with no block there is nothing between the two to see |
| `CodecAssumption`, `NoFile \notin Puts` | "none" is not one of the things there are |
| `TableAssumption`, `BoundsAssumption` and the rest of the above: bounds are natural numbers | sizes, retries, and the bounds of the model |

### WorkerJob: announces

`ChunkBeforeAnnounce` is not inductive: the gate never looks at `stored`. `IInv`
adds what links the two: an upload worker past a successful PUT holds a stored
chunk, and only such a worker records an ACK (`UploaderInv`, `acked \subseteq
stored`); a finished chunk without ACK is on disk (`DiskInv`), so the gate cannot
skip it as "not a local artifact", unless the job directory was removed, which only
happens in a terminal state that breaks the gate (`EndInv`); hence every needed
name behind the handler's position is ACKed (`PassedInv`), and a handler past the
last name has them all. `NoSendOnClosed` follows from `EndInv`: the channel is
closed only when `run` is `done`, and then `enqueue` finds a terminal state. The
refinement maps `gate` to `phase` and uses `PassedInv` for the `Pass` step.

### WorkerJob: the life of the job

For `ImplementsJobLife`, `LifeInv` reads the state off the program counter of
`run()`: nobody else sets `state`, and nobody but a broadcast moves `run()`. The
verdict is `verdict.state` from the moment `run()` has decided. A cancel or a
failure that comes after it is a step of `JobLife` that the end ignores; this is
the window of the run `completed`, seen from the other side. The job of
`EventHub`, in which a verdict and its state are one step, implements the same
specification (`HubLifeImplementation`), so the two models of one job cannot
disagree on the order of its states or on what decides its end.

### WorkerJob: the waits on j.cond

`NoLostWakeup` says that whoever sleeps on the condition variable waits for
something that has not happened. With `IInv` it is inductive: each step wakes
the waiters, leaves alone what they test, or is the waiter itself, which looks
before it sleeps. The step that needs an argument is the deletion of a local copy
(`RemoveLocal`), which does not broadcast although the gate tests `disk`: the
chunk was ACKed before, and that did. It is the safety half of `DrainEnds` and
`HeldAnswered`; the other half is that the upload it waits for ends.

### WorkerJob: the accounting of uploads

`PendingExact` (pending is the length of the channel plus the number of workers in
flight) is nearly inductive: it needs to know that nobody counts before the pushers
are started, and each move of a worker changes a cardinality by one. A job is
COMPLETED only after a drain that found `pending = 0`; that it stays so is
`DrainInv`: `drainUploads` closes the intake before it looks, so that nothing is
enqueued afterwards. For `CompletedAccounted`, `HeldInv` says where a finished chunk
may be (with masterd, given up, in an undelivered inotify event, in the channel, in
the hands of a worker); after a settle delay that sufficed there are no events left
(`SettledInv`), and when nothing is pending the last two places are empty. Only a
failing job drops events, and a job that was failing when the drain ended is not
COMPLETED; one that begins to fail between is the case of the run `completed`,
which is why the theorem speaks of uploads given up.

### SegmentStore

Files are inodes named after the request that created them. `OwnInv` and `ShareInv`
say that a handler between `openTmp` and the end either has met another in its
directory or owns the temporary name (as long as the directory is there), and that
in the second case what it has written so far is its own; so what it renames is
whole. `FinalInv` says that whoever still writes to an inode that has the final name
has met another: this keeps `FinalIsWhole`. `InodeInv` keeps names apart: an inode
lives in the directory of the request it is named after and has at most one name
there, so that a new request, whose inode is not in use, disturbs nobody. `TmpCleaned` follows
from who owns the name. For `GoneIsFinal`, `SessionInv` says that a registration in
`gone` is older than the live one of its id, or is not live: a 410 is answered only
for a registration that has ended, and `register` mints a new one.

`PublishedFrozen` is what a reader of the directory can rely on between two
renames: what stands under a final name changes only through a request that shared
its temporary file. `WhoWrites` leaves two suspects: a handler that opens a
temporary name, whose inode is another one (`InodeInv`), and one that copies into an
inode that has the final name, which has met another (`FinalInv`).

### EventHub: sizes and counts

`clients` is the number of handlers between `CountClient` and its end (`CountInv`);
the monitor finds the lifeline lost only when it is zero. A job publishes at most
five states: each phase of `run()` raises `Rank(state)` by what it then owes
(`RankInv`), and it owes one state at a time (`OneState`); with a trimmed ring and
one exit event (`RingInv`) the snapshot has at most `RingSize + 6` events.

### EventHub: what a client is told

`StatesComplete` compares what a client has and will get, `got[c] \o chan[c]`,
restricted to milestones, with `states \o exit`: equal while it is subscribed, a
prefix afterwards. The snapshot holds them in this order only because nothing is
published as a state after the exit event (`EndInv`: `finalize` publishes the
terminal state, then the exit, then closes). `AwayInv` says that a handler that has
not subscribed, or is over, holds nothing. `LinesInv` adds that the lines in the ring and
in the streams are among those written so far, so a new line is a larger one.

`ImplementsEventLog` refines the log to `states \o exit`. A publication is `Record`
because no milestone comes twice: `OnceInv` compares the rank of what is recorded
and of what `run()` owes with the rank of the state. A write to a client is `Tell`
if it is a milestone, and then the next one, by `StatesComplete`; a line is a
stutter. A handler that ends, by itself or because its client is gone, is `Leave`.

`StreamsOwed` and `LifelineWatched` are the safety halves of `StreamEnds` and
`LostJobEnds`. A handler that serves a client is one the hub knows, or its channel
is closed; the hub closes only behind an exit event (`CloseInv`: `finalize` puts
them in this order). The monitor returns only from a job that is over or being
cancelled, and no job drains without one.

All of this rests on lemmas about `only`, the filter (empty, one more element, two
sequences joined, everything kept), which are proved by induction on the length of
a sequence. The library's induction theorems take a predicate, which the provers
here cannot instantiate; the lemmas take the set of lengths at which a claim holds
instead and derive from the theorem on minimal elements of well-founded relations
that it contains every natural number (`LessWellFounded`, `NatSet`, `SeqSet`).

### Dispatch

`ToldInv` says that every code on the wire, in the reader's channel and in the
shim's hands is in `Told`: none before the job is over, and then the one it ended
with. A job that ends keeps its code; one that crashed with its worker never had
one, and is no longer known there (`KnownInv`), so that no stream to it ends with a
code.

`NobodyWaitsInVain` is the safety half of `ShimEnds`: while the shim is in its event
loop, a handler feeds its stream on behalf of a job the worker knows, or the end of
the stream is on the wire or in the reader's channel, or the connection is silent,
which the liveness watch ends. Whatever takes the handler away (the end of the job,
a slow reader dropped by the hub, a crash) puts the end on the wire, and the reader
passes it on last.

`FirstEventDecides` is what the comment of `tryRemote` says: the shim hands over to
the local transcoder only if it has taken no event, and reports the worker's code or
75 only if it has. `OwnerInv` adds that a decision exists only while it cleans up,
and that no event is taken before the loop. (That the window closes with the first
event and not with the first segment is the run `fallback`.)

### CodecCache and JobTable

`CacheClean` and `VouchedCached` speak of `<build>` alone. They last because one
fetch works at a time (`OneWorks`: `d.prov` is cleared only when the fetch is
over), what it lists or assembles the master had, and the master's libraries only
become more complete (`FromMaster`), so that the manifest of the fetch at work is
at least as complete as everything in the directory (`FreshManifest`): a top-up
takes nothing back. A fetch that has been through its list has all of it in the
directory it fills (`Assembled`), which gives `ColdPublishWhole` and, with
`ResultAtEnd`, what a nil vouches for. `ActiveKeepsDir` lasts because whatever
`finalize` or the reaper is about to remove belongs to a job that has ended
(`Doomed`): the reaper decides under `d.mu`, removes after, and ids are not reused.

`WaitAnswered` is the safety half of `RunEnds` as a starting job sees it: the run it
waits for is over, or is `d.prov` and at work. `EndRun` clears `d.prov` and ends the
run for all who hold it in one step, and a caller joins only `d.prov`.
`SlotsBounded` (never more than `cfg.MaxJobs` active) needs no assumption on `Jobs`:
that the active ones are finitely many is part of the induction, and the count and
the entry into the table are one critical section. `CacheGrows` says that a top-up
takes no library back from the transcoders that use the directory; it follows from
`FreshManifest`.

### Model-checked only

* Liveness: `DrainEnds`, `AbortEnds`, `HeldAnswered`, `UploadersReturn`,
  `LostJobEnds`, `StreamEnds`, `OrphanEnds`, `ShimEnds`, `SessionEnds`,
  `DeadNotOffered`, `RunEnds`, `LeftoversGo`. Fairness speaks of ENABLED, which the
  prover does not handle.
* `ArgvFaithful` and `SameFrames`: the functions on texts are RECURSIVE operators,
  for which the prover has no arithmetic backend, and the statement is about the
  lists of the instance.

## 5. Where sources and code disagree

* `completed`: a job may end COMPLETED although an upload failed. `uploadWorker`
  takes the upload off `pending` and wakes the drain before it calls `abortFail`;
  in between `run()` finds nothing pending and nothing failing. `abortFail`'s
  comment says that `run()` then finalizes with FAILED.
* `ack`: two PUTs of one name share a temporary file, and one may be acknowledged
  for what the other wrote, or a mixture. `handlePutFile`'s comment calls the ACK
  the chunk-before-announce ground truth.
* `ttl`: the TTL reaps the session of a live shim whose job pushes nothing for
  `session_ttl`. `touch`'s comment says it only reaps sessions whose shim vanished.
* `fallback`: the fallback window closes with the first event, not with the first
  segment as the README says.

`CompletedAccounted`, `AckLeavesChunk`, `FinalIsWhole` and `TombstoneJustified`
state what holds beside these: their exceptions are exactly the cases above.

Met while modelling, and not the subject of a run:

* A job whose uploads failed or timed out is FAILED with the transcoder's own exit
  code, which may be 0 (`job.go:167-176`); the shim exits with it.
* `subtitles=/a=b.srt`: a positional name with an equals sign is taken for an
  option with an unknown key and is passed through (`rewrite.go:134-142`), although
  the comment says that the positional first option becomes a placeholder. The
  worker's transcoder then looks for the master's path.
* The extension of a spooled file is kept and put into the filter string without
  escapes (`job.go:274`): one that holds a colon or a comma cuts the value short.
* `fontsdir` names a directory, and `handleMedia` answers 404 for directories
  (`files.go:53-56`): a job that uses it fails while it spools, which is after its
  first event, so that the shim does not fall back.
* `driverDriDir` returns the first listed bundle that matches by name or by
  version (`build.go:85`); its comment puts the exact name before the version.
* A SIGTERM that arrives between the trap and the events loop waits in `sigCh`; if
  the dispatch then fails, the shim becomes the local transcoder and the signal is
  forgotten (`shim.go:190-213`).
* `probeTimeout` is at least one second (`workers.go:68-70`), which for a probe
  interval of one second is not "well inside" it, as its comment says.

## 6. Not modelled

* Daemon shutdown (`d.ctx`): it cuts every wait short.
* A transcoder that rewrites a file, writes through a temporary name in the out
  dir or closes one twice: outside the repository.
* Requests of the transcoder that are not announces: forwarded without touching
  the job.
* Tokens, signatures and their expiry: stateless cryptography. Configuration,
  environment and build strings: data.
* A transcoder that streams its input when masterd refuses it: it fails like any
  other transcoder.
* The EAE supervisor (a restart loop around one process) and the PMS relay (a
  stateless reverse proxy): no state shared with the rest.

## 7. What could follow

Every component with state of its own is modelled; every invariant, action
property and refinement of these models is proved, but for `Argv` and
`Filtergraph`. What a later change of the code would ask for first:

1. One specification of the whole path of a transcode, composed of `ChunkGate`,
   `EventLog` and `JobLife`, which `Dispatch` would assume of the worker instead of
   its own reduced job. Today the link is `JobLife` alone, and only for `WorkerJob`
   and `EventHub`; that the jobs of `Dispatch` and `JobTable` (where PREPARING to
   DRAINING are one state) are reductions of it is argued in their comments.
2. The rewriting of arguments with folds in place of RECURSIVE operators, so that
   the media map (one URL for one file) and the names of spooled files could be
   reasoned about for all lists.
