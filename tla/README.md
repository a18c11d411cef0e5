# TLA+ models of pocker

pocker runs container images without root privileges. A *tracer* attaches to every process
of the container with ptrace, intercepts its syscalls, and *augments* them: paths are moved
into the root file system of the image, permissions and hard links are simulated, and so on.
A small async library, `krsm`, lets each tracer be written as coroutines over ptrace stops.

This directory holds TLA+ modules for the parts of that program whose control is hard to
test, the TLC configurations that check them on small instances, and TLAPS proofs.
`PROJECT.json` maps every definition to the lines it models.

    tlc -config <run>.cfg <module>     # a run of the table below
    tlapm <module>Proofs.tla           # the proofs about a module; KrsmProofs for all of krsm

## 1. Inventory

| Component | State | Operations | Interacts with |
|---|---|---|---|
| lookup map, `krsm/src/common.rs` | a sorted array of N optional pairs and its size | set_default, edit, read, find, remove, map_edit, map_edit_batches, inner_join_keys | used by the runtime (pending counters) and the task tracker |
| async runtime, `krsm/src/runtime.rs` | counter of pending futures per reason; the response at hand | run_async_step, unblock_futures, new_pending_future; poll and drop of a future | polls the coroutines of a tracer |
| yielder, strong and weak futures, `krsm/src/futures.rs` | a flag; the result of the strong future | yield_now, unblock; poll of both futures | the signals coroutine yields to the syscalls coroutine; path augments are blended with their syscall |
| task tracker, `krsm/src/tasks.rs` | tasks and their responses | sync, register_if, work | a worker thread and the main thread hand it to each other |
| executors, `executor/src` | should_serve, a channel of closures | execute, stop, serve | tracer threads send ptrace requests to the main thread |
| tracer, `sysaug/src/handler_{sync,async}.rs` | the coroutines' locals and ten flags | event_loop, wait_for_syscall, do_resume_syscall, do_skip_syscall, insertion of syscalls after execve | the kernel, through ptrace and waitpid |
| write regions, `ptrace/src/mem_direct.rs` | a stack of free regions, regions by pid, thread locals | get_own_region_id, write, close_tracee | shared by all tracer threads |
| path augments, `sysaug/src/aug_paths*.rs` | the arguments of one syscall | the parts of each augment before and after the syscall | metadata, tracer, futures |
| metadata, `sysaug/src/aug_common.rs` | a JSON file per guest file, with a link counter | save, read, delete | all tracer threads, through the host's file system |
| image store, `main/src/pocker.rs` | index, tar files, layer directories, running markers | pull, run | several pocker processes, through one directory |
| launcher, `main/src/lib.rs`, `runtime.rs` | none | launch_ptrace | executor, tracer |
| child transfer, `executor/src/lib.rs`, `aug_clone.rs`, `aug_waitpid.rs` | a set of children whose SIGSTOP is pocker's | prep_attach_to, attach_to; the augments of clone and wait4 | two tracer threads, the kernel and the child's real parent |
| path resolution, `aug_common.rs`, `aug_paths_common.rs` | root, excluded directories, rename rules | calc_real_path, parse of one path argument | every path augment, exec |
| permissions, `aug_perms.rs`, `config.rs` | eight ids of a tracee | get*id and set*id | exec of set-id files |
| exec and seccomp augments, `aug_exec.rs`, `aug_seccomp.rs` | none | one augment per syscall | path resolution, permissions |
| struct codec and slow memory, `ptrace/src` | none | conversions | tracer |
| syscall table and BPF filter, `sysaug/src/syscalls.rs`, `common.rs` | constant | lookup | tracer |
| procfs | none | reads /proc | tracer |

What is hard here:

* **counting stops.** The entry and the exit of a syscall stop the tracee alike. The tracer
  tells them apart by counting, across seccomp stops, signals, failed execves and inserted
  syscalls, on kernels that order their stops differently.
* **threads.** One tracer thread per tracee; they share regions, the executor's channel and
  the metadata files, and none of the pieces of code knows of the others.
* **futures.** A response goes to whoever waits for it in that step, and is gone after it. A
  future that is dropped must be uncounted; one that has returned must not be polled again.
* **two resolvers.** The tracer follows some links of a path and the host's kernel the others;
  each must stop where the other goes on, or the path leaves the root.
* **other processes.** Tracees and pocker processes may be killed anywhere.

`PROJECT.json` lists these hazards one by one, each at its line, with the properties that
would catch it.

## 2. Modules

| Module | Models | Composed of |
|---|---|---|
| `BoundedMap` | what a map of bounded size promises | |
| `FixedSizedMap` | the sorted array that implements it | refines `BoundedMap` |
| `AsyncRuntime` | the runtime, under any async program | |
| `TaskTracker` | tracker, driver loop and worker | instantiates `FixedSizedMap` |
| `PathAugments` | strong and weak futures, with the augments of one path syscall | |
| `PtraceKernel` | ptrace, seccomp and signals of one process (external) | |
| `SyscallTracer` | the tracer thread of that process | extends `PtraceKernel` |
| `SharedRegions` | the regions and their tracer threads | |
| `MainThreadExecutor` | serve, execute, stop and launch_ptrace | |
| `MetadataFile` | the metadata of one guest file under concurrent syscalls | |
| `ImageStore` | the storage directory under concurrent pull and run | |
| `TraceeTransfer` | the hand-over of a child between tracer threads, with wait4 | |
| `SyscallTable` | the table of augmented syscalls and the BPF filter | |
| `PathResolution` | calc_real_path, and the lookups of the kernel | extends `SyscallTable` |
| `Permissions` | the ids of a tracee | |
| `ExecExpansion` | scripts, loaders and set-id files | extends `PathResolution`, `Permissions` |
| `GuestCalls` | the syscalls of a guest through all of these | extends `ExecExpansion` |
| `FixedSizedMapProofs`, `SyscallTracerProofs`, `SharedRegionsProofs`, `TraceeTransferProofs`, `MetadataFileProofs`, `MainThreadExecutorProofs`, `ImageStoreProofs` | proofs (section 4) | each extends the module of its name |
| `KrsmProofs` | proofs about the users of the map and of the futures | extends `AsyncRuntime`, `TaskTracker` and `PathAugments`, instantiates `FixedSizedMapProofs` |
| `MCKrsm` | the futures of krsm, one at a time, for TLC | extends `AsyncRuntime`, `PathAugments` and `TaskTracker` |
| `MCSyscallTracer`, `MCMetadataFile`, `MCImageStore`, `MCGuestCalls` | constants for TLC | |

Definitions keep the names of the code where they can. A definition whose comment begins
with *Mutant* is a plausible bug; no specification uses it. It shows that the property named
with it in `PROJECT.json` would notice.

**FixedSizedMap.** `items` is the array, `size` the field, `ret` the value of the last call. Each
call is one action. The search follows the standard library's `binary_search_by` probe by probe,
because `inner_join_keys` searches an array that is not sorted any more and the probes decide what
it finds. The loops of the code (probes, swaps, rounds of the join) are recursive functions of the
number of rounds. `map_edit` and `map_edit_batches` lend the entries to a closure of the caller,
which may change keys and, in batches, empty slots (the unit tests do change keys): after them the
slots lent hold anything. `ordered` remembers whether all closures so far have left the array in
order; what the map promises is stated for as long as they have. `map_edit` panics at a slot that
a batch has emptied. `BoundedMap` has no array; its `lawful` is `ordered`, and its `InnerJoinKeys` is
the intersection that the comment promises. The array does not implement that, so
`ImplementsBoundedMap` excepts the join, `JoinKeepsSmallest` says what the join does, and
`JoinIsIntersection` what it should.

**AsyncRuntime.** `pending_futures` and `has_unblock` are the fields. A handle is one call of
`new_pending_future` and its future. The async program is any program: in a step it creates,
polls and drops futures in any order. `delivered` and the like are histories.

**TaskTracker.** The array of `FixedSizedMap` is part of its state (INSTANCE), so it inherits the
faulty join. Its names differ from those of `AsyncRuntime`, as do those of `PathAugments`, so that
one module can extend all three: `unblocked` is `has_unblock`, `TaskReasons` and `MAX_TASKS` are
the `YieldReason` and `MAX_PENDING` of the tracker, and `driver` is where the loop is. The driver
is the loop of `krsm/examples/http_openjev_client.rs`. Under `TrackerAssumption` no more reasons
exist than the map has room for. The program may start any future at any step.

**PathAugments.** One action per poll of one augment. An augment has a plan: absent, failing
before the syscall, awaiting, reading the result of the syscall, or failing after it.
`timing` is the future of the syscall. The model keeps what Rust enforces at run time: a
future that has returned panics when polled, and so does a completed strong future.

**SyscallTracer on PtraceKernel.** The kernel takes a syscall through the points entry,
seccomp, run and exit, stopping where the tracer's last request and the filter make it; the
program makes any syscall at any time, and signals arrive. The tracer handles one stop per
action, since the tracee does not move meanwhile. `co` holds the syscalls coroutine: the
place it awaits at and its locals, under their names. `StartWait` and `EndWait` are the two
halves of `wait_for_syscall` around its await. An augment is reduced to resume, skip or
fail. `saved` and `mistaken` are ghosts: a handler that starts after `orig_syscall_num` was saved and
makes a syscall that is taken for the saved one. The async runtime is used through what is proved of it in `KrsmProofs`.

**SharedRegions.** Calls are cut where a lock is taken or a shared structure changes. `Leave`
is the exit of `event_loop` by `?`, which does not close the tracee.

**MainThreadExecutor.** Each access to `should_serve` and each channel operation is an action.
A request's result is the request itself, so a wrong one shows.

**MetadataFile.** A syscall is cut at every call into the host's file system. Inodes are
modelled, because a metadata file can be unlinked while another tracer has it open. `Rename` is the
rename of another file onto a name of the hard link, which takes that name away. `slips` remembers
which of six interleavings that nothing in the code guards against has happened (section 6).

**ImageStore.** A tar file or layer directory is absent, complete, or begun by a process.
`Dies` kills a process anywhere, and stands for every error return too. The registry serves
any manifest and may change it (external).

**TraceeTransfer.** The parent is a process of several threads, each with its tracer thread and
its set `ignore` (`ignore_sigstops`). `proc` is what the kernel keeps of a child: who traces it,
where it runs or stops, its pending signal, and whether its parent has a stop to be told of. The
two halves of the transfer (`TracerStep`, `OwnStep`) are cut at every ptrace request and wait; the
guest sends STOP, CONT and KILL at any time, and calls wait4 with and without WNOHANG and status
address. With the "main" client nothing is transferred.

**SyscallTable.** `RAW_SYSCALL_INFOS` has the rows of the table as compiled for x86_64, built by
the operators that stand for its macros and struct updates. `SECCOMP_FILTERS` is the BPF
program made from it and `RunFilter` its interpreter; `Traced` is what the program stops.

**PathResolution.** A path is absolute or relative and a sequence of names; a file system maps
places to nodes. `calc_real_path_recurse` follows the code; `Walk` is the lookup of a kernel,
either the host's or, with a view, that of a kernel under chroot(2) where the excluded
directories are mounted: the reference. There is no `..`, and a pattern of a rename rule
matches the front of a path.

**Permissions.** `perms_ids` as a function from eight slots to a set of at most one id.
`IntBits` and `WordBits` are the widths of `i32` and `usize`, small enough for TLC and different,
because the code compares ids at both.

**ExecExpansion.** What a file holds is a constant; `expand_exec` returns the registers of the
execve or why there is none; `ChrootExec` is execve under chroot(2), again as a reference.

**GuestCalls.** One step per syscall: parse of the paths, augments before, the kernel, augments
after. `meta` holds the mode in the metadata of each place. `conf` is the command line; it also
says which calls the guest makes in this world, which keeps each world small. `mode` and `astray`
are histories.

## 3. Runs

| Run | Checks | Bounds |
|---|---|---|
| `fixed_sized_map` | the array stays sorted and dense; every call but the join refines `BoundedMap`; the join keeps the smallest common key and only common ones | 3 slots, 4 keys: overfull, every position of an insertion or removal, and every array that an edit function can leave |
| `fixed_sized_map_join` | **violated**: the join is the intersection | the same |
| `krsm`, runtime | counters match live guards; a response answers one call and is lost only if nobody wants it; refusal only when full | 3 reasons for 2 slots, 3 calls, 2 responses |
| `krsm`, augments | parts before the syscall run before it, those after it after it, all of them; nothing panics unless an augment failed early; the augment ends | 4 augments of any plan: two that always wait and one on each side |
| `krsm`, tracker | only pending futures are answered; the worker gets what is pending and overwrites no answer; every task is answered once no more are started | 3 reasons, started any number of times |
| `syscall_tracer` | see below | 4 kernels, root and child, with and without seccomp and handlers, sandbox bans; 2 signals |
| `shared_regions` | no region in two hands, none lost but by an error exit, free ones zero | 3 threads for 2 regions |
| `main_thread_executor` | each request runs once and returns to its caller; serve ends cleanly; nobody waits for ever | 3 threads, 2 requests each |
| `metadata_file` | no update is lost; until a slip the link counter is the number of names, and the content goes only with the last of them | 2 tracers, 3 names, 2 fields, counters up to 4 |
| `image_store` | indexed tar files exist; an undisturbed pull completes the image | 2 processes, 2 manifests that share a layer |
| `tracee_transfer` | the thread that made a child never sees the stops of its transfer; the child never runs untraced; no request of the transfer is refused; the child ends up traced | 2 threads, 1 child, both clients, 2 wait4 calls per thread |
| `guest_calls` | see below | 16 worlds; 8 links in a lookup, 3 nested scripts, ids of 3 bits in words of 6 |
| `guest_calls_unlink` | **violated**: unlink removes the name it is given and succeeds | the same |
| `guest_calls_ids` | **violated**: setreuid and its like set the ids they name | the same |

A behaviour of `krsm` is one of the runtime, of the augments of a syscall or of a task tracker
(`part`), with the other two at rest: they share no state, and the run is the sum of the three.

`syscall_tracer` shows, for every kernel and option at once: what is handled as an entry is an
entry, what is handled as an exit is the exit of the same syscall, and from a seccomp stop
the right number of stops leads to it, on every kernel (`PhaseAgreement`); no
syscall runs before its entry was handled, also not during the switch from PTRACE_SYSCALL to
PTRACE_CONT (`NoEscape`); the syscall that runs is the one the program asked for or one the
tracer put in its place (`RunsWhatItAsked`). Both name one exception, `Mistakable`: a syscall of a
signal handler that started between two insertions of a root tracer, which section 6 describes;
the machines include those where it happens. With --fix-sigsys no SIGSYS kills (`SigsysNeverKills`);
every entry is closed (`EveryEntryIsClosed`). Linux before 4.8 with seccomp is part of the run
but excepted from the count of stops (`Countable`): section 6 says why.

`guest_calls` compares the guest with a process under chroot(2), after any sequence of open,
creat, chmod, symlink, unlink, rename, chdir, get*id, set*id, fork, execve and seccomp calls:

* `ChrootView`: every path syscall finds the same object or the same error. One syscall is
  asked for each way in which table and kernel treat a path; the assumption `EveryTreatment`
  checks that none is missing. Its exceptions are in its comment and in section 6.
* `StatShowsMode`: stat shows the mode a file was last given, under each of its names.
* `OnlyOwnIds`: an id that get*id shows changes only by a call about ids of that kind, by a set-id
  file, or in a new child; users' and groups' ids are never confused.
* `ExecRuns`: execve starts the program, loader and arguments that it would under chroot(2).

Its worlds (`MCGuestCalls`) have: links of every kind (absolute, relative, to directories, out
of the root, in `/proc`), with the tracer in the root and outside it; a hard link; renamed and
hidden paths; no chroot; modes of two files under three names; scripts of scripts, dynamic and
static programs, cycles and malformed scripts; every perms mode, with ids all alike and each its own,
below a root, and where the host traps getters. Three places are enough for a link to a link to a file, or for a loop of links.
`MaxLinks` is above the longest chain that is no loop, and `MaxScripts` above the longest chain
of scripts that is no cycle. The view leaves out whether the last call succeeded, which no
property of that run and no later step depends on.

Why the bounds are enough: the map's operations treat positions alike, so first, middle, last
and full are what matters. The other models have symmetric actors and every hazard listed
needs two of them, plus a third where one can profit from the mistake of two (regions,
requests). The tracer's state is finite once signals are bounded; two signals allow one to
arrive while the signals coroutine has yielded because of the other.

Counters that the bounds cap: `MaxResponses`, `MaxRequests`, `MaxSignals`, `MaxNest`, `MaxWaits`,
`MaxLinks` (links in a lookup; in `MetadataFile`, the counter at which no link begins any more),
`MaxScripts`. `MetadataFile` and `ImageStore` are
checked under a symmetry and a view that leaves out locals of idle actors; they have no liveness
property. Deadlock is checked in all runs but `metadata_file` and `tracee_transfer`, which stop at
their bounds, and `guest_calls`, where the guest may be killed; in `krsm` the runtime may rest,
since the response it waits for need not come.

The type invariant of `AsyncRuntime` is listed in its run. The other components have theirs
(`TypeOK`, `TrackerTypeOK`, `AugmentTypeOK`) as a part of the inductive invariant, from which
everything else is proved; TLC checked them on the same instances.

**Histories.** `MetadataFile` keeps `raced`, inodes that two tracers created at once, and `slips`.
`NoLostUpdate` speaks of files that are not raced, `CountsNames` and `ContentStays` of behaviours up
to the first slip: section 6 has what happens then.

### Fairness

* `SyscallTracer`: WF on handling a stop or moving a syscall on. The kernel finishes what it
  began and waitpid returns for a stopped tracee. The program need not make another syscall.
* `PathAugments`: WF on polls, SF on the end of the syscall. Whenever the tracee stops the
  runtime polls; that the stop it waits for comes is `EveryEntryIsClosed`.
* `MainThreadExecutor`: WF on the main thread and on a thread whose result is there; SF on a
  blocked send, since the channel wakes blocked senders in turn. The root tracer stops some day.
* `TraceeTransfer`: WF on each tracer thread, on each child's own thread and on the kernel's part
  of a child (delivery of a pending signal, end of a wait). They are threads that the host
  schedules; the guest's calls and signals are under no fairness.
* `TaskTracker`: WF on the main loop and on the worker, which are threads that do not block. That the
  program starts no more futures some day is no fairness, and the code does not see to it: it is the
  premise of `EveryTaskAnswered` (`StartsEnd`).

## 4. Proofs

All proofs are for arbitrary constants, under the assumption named in the module. Each component
has an inductive invariant (`IndInv` where nothing else is said) that TLC checked first. It is
a conjunction of named parts; one lemma per action shows that the action keeps them, and the
theorems `Invariance`, `TypeCorrect` and one per property follow.

`FixedSizedMapProofs`, from `ArrayAssumption` (keys are integers, and there is a slot), for
any capacity and any keys:

* `SearchSorted`: on a sorted array the binary search returns the slot of a key that is there and
  the place to insert one that is not.
* `SortedCorrect` (`SortedPrefix`): as long as the callers' closures leave the array in order, it
  stays sorted and dense under every call, the join with its loss of keys included.
* `MapRefinement` (`ImplementsBoundedMap`): as long as they do, every call but the join does to the
  map that the array stands for (`MapOf`, the refinement mapping) what `BoundedMap` says, and
  returns the same; afterwards `BoundedMap`, no longer `lawful`, allows anything.
* `JoinCorrect` (`JoinKeepsSmallest`): the join keeps only common keys, with their values, and always
  the smallest of them. That it keeps all of them is refuted (section 5).

These need induction over data. The prover cannot instantiate an induction theorem, but it can use
one about a set of numbers: `LeastNumber` (a set of naturals that is not empty has a least
element, from the library's well-founded order) gives `Ascend` (a set with 0 that has the
successors of its elements up to n has all of 0..n) and `Iterates` (a function that is defined
round by round exists and satisfies its equation), and each loop is followed by applying `Ascend`
to the set of rounds after which its invariant holds. That of the search is `Bracketed`: every
slot behind the window is greater than the key or empty, and the window begins at 0 or at one that
is neither.
Those of `move_within` say which slots have been rotated. That of the join is `Joining`: what was
taken so far is sorted and in both maps, and the array is untouched until something is taken, so
that the smallest common key is found; afterwards the search may meet a slot that was emptied, and
nothing is claimed of the other keys.

`KrsmProofs` on the runtime, from `RuntimeAssumption`:

* `TypeCorrect`, `PendingCorrect`, `AnsweredOnceCorrect`, `LostOnlyIfUnwantedCorrect`,
  `RefusedOnlyWhenFullCorrect`: the properties of the runtime in `krsm` for any set of reasons, any
  finite number of calls and any capacity.
* `TurnCorrect`: a future that waits for the response at hand has not been polled yet.
* `NeverTooManyCorrect`: with no more reasons than slots no call fails with `TooManyPending`.

Three invariants carry them, each on top of the type. `CountInv`: the counters are the
cardinalities of the sets of live guards (`PendingCountsGuards`) and the table is finite; each
action adds or removes one guard, so that the library's facts on cardinalities of sets with
one element more or less apply. `AnswerInv`: `AnsweredOnce` is not inductive, because the
response at hand could be one that was taken before; `ResponsesFresh` says it is not.
`WaitersHaveTheirTurn`: whoever waits for the response at hand is still to be polled in this
step, so that at the end of a step nobody is left who wants it; this holds because a new
future is polled as soon as it exists.

`KrsmProofs` on the task tracker, from `TrackerAssumption` (finitely many reasons, no more than
fit):

* `AnswersPendingCorrect` (`AnswersPending`, with the tracker's types): a future is answered only
  if it waits, and its task is gone.
* `BatchIsPendingCorrect` (`BatchIsPending`): the worker gets what the program waits for, and
  nothing that has a response.

The tracker calls an instance of the map. `SameMap` to `SameJoin` identify it with the instance that
`FixedSizedMapProofs` is about, by their definitions; from there each call is reasoned about through
`BoundedMap` alone (`Taken`, `Registered`, `Worked`, `Synced`), and nothing more is said of arrays.
`DriverInv` says who has the tracker at each place of the loop and that between the join and
the end of `register_if` only what is waited for is tracked. The keys that the join loses do no harm
to either: `register_if` starts from an empty tracker, and what was lost is registered again.

`SharedRegionsProofs`, from `RegionsAssumption` and `~PromptReuse` (a pid is not given out
before its last tracer has closed):

* `TypeCorrect`, `NoSharingCorrect`, `FreeIsZeroCorrect`, `NoneLostCorrect`: the properties of
  `shared_regions`, and types, for any number of threads, pids and regions.

`NoSharing` is not inductive: `close_tracee` gives back the region it finds under its pid, not
the one in its thread local. The invariant adds what a thread's place says of its thread
locals, and that the two are the same while a tracee is closed (`PlaceInv`); that no two
threads trace one pid (`PidInv`, where `~PromptReuse` is used); that the entry of a pid is its
thread's region until it is removed (`EntryInv`); and that the region about to be pushed is
zero (`ZeroInv`). The locks are not needed for it: each step of the two calls is safe by itself.

`SyscallTracerProofs`, from `KernelAssumption` (`Configs` is any set of `Machines`: any
version of Linux and any options; no filter of the sandbox bans what the tracer inserts):

* `NeverLosesCount` (`PhaseAgreement`) and `SigsysIsCaught` (`SigsysNeverKills`) for every
  kernel and command line, any number of signals and any depth of handlers.
* `NothingEscapes` (`NoEscape`) and `RunsTheRightOne` (`RunsWhatItAsked`) for every machine too,
  with their one exception, `Mistakable`.

None of these is inductive, because the coroutine and the kernel each know only half. `BaseInv`
holds on every machine: types, and `mode` is what the coroutine asked for. `FilterInv` follows
the filter from the plan of an initialisation to its use: once
`tracee_seccomp_init_complete` is set the filter is there, so that every traced number stops.
`PositionInv` says where the tracee can be at each await: for an entry stop, for a seccomp stop,
for an exit. `NumberInv` and `AskedInv` say whose number is in the register: during an insertion
`orig_syscall_num` is what the program asked for, and what is executed again is that, unless the
syscall is `mistaken`. That this can only be in a handler that started since is `NestInv`: from the
first insertion to the last, whatever such a handler returns to is issued under the saved number.
`LegacyInv` is the part of `PositionInv` that survives on kernels before 4.8 with seccomp: from a
seccomp stop through the extra round to the exit. It needs `is_legacy_seccomp`: 3.8 to 3.19 have
the old order of stops too, but the test misses them, and `PhaseAgreement` leaves them out.

`TraceeTransferProofs`, from `TransferAssumption` (there are threads and children): `TransferHidden`
(`ParentNeverSees`), `AlwaysTraced` (`NoUntracedRun`), `RequestsSucceed` (`FailsOnlyIfKilled`), for
any number of threads and children and any number of wait4 calls. `ThreadInv` and `ByInv` tie the
place of the two tracer threads to who traces the child; `RunInv` says that a stop lasts until
SIGCONT or its tracer ends it; `PendInv` and `TokenInv` follow the two SIGSTOPs of pocker: while the
guest has sent none, one stop at most is on its way to wait4, and `ignore` has it.

`MetadataFileProofs`, from `MetadataAssumption` (finitely many tracers, names and inodes, and an
inode to spare, so that one can always be allocated): `UpdatesStay` (`NoLostUpdate`),
`CounterIsExact` (`CountsNames`) and `ContentIsKept` (`ContentStays`). `TracerInv`: whoever is about to
write holds the lock, and has in `data` all that was saved in that inode. `InodeInv`: an inode that
nobody holds is a document with all that was saved, or new; one that is held is being written by its
holder. `LinkInv`: the counter is right in the file, or in the hands of the holder of the lock.
`NamesInv`: no name has two tracers that delete it, whoever has found its name still has it, and a
tracer that read 1 in the counter (`AtLast`) deletes the only name that is not being deleted by
another (`Last`); this is where the number of names in the counter becomes a statement about names.
All three of the last hold until a slip.

`ImageStoreProofs`, from `StoreAssumption` (a layer is none of the other contents of an index):
`IndexedTars` (`IndexedTarsExist`) and `SoundPull` (`PullCompletes`), for any number of processes,
manifests and layers. `TarsInv`: the index is written after all tar files have begun, and none is
ever removed. `SoundInv`: a process that is alone has what it has passed complete; what is half
done is what it works on, unless it downloads everything again. Manifests may list a layer twice.

`KrsmProofs` on the path augments, from `AugmentAssumption`: `KeepsOrder` (`PartsInOrder`),
`RunsAllParts` (`AllPartsRun`), `PanicIsEarlyFailure` (`PanicsOnlyIfFailedEarly`), for any number
of augments. The invariant says how far one poll of the zipped future is (`CursorInv`): the first
makes every augment begin, the second makes every augment end, and the result of the syscall,
which is stored between the two, tells them apart (`ResultInv`).

`MainThreadExecutorProofs`, from `ExecutorAssumption`: `ExactlyOnce` (`OwnResultOnce`) and
`CleanEnd` (`ServeEndsCleanly`), for any number of threads and requests. `RouteInv`: a request is
in the channel or with the main thread, never in both, while its client waits; `RanInv` and
`ResultInv` count runs by the number of a request; `StopInv` ties `should_serve` to the life of
the root tracer.

Only model-checked:

* everything with fairness (`EveryEntryIsClosed`, `EveryChildTraced`, `AugmentEnds`,
  `EveryRequestReturns`, `LaunchEnds`, `EveryTaskAnswered`): the provers have no rule for it here;
* `ChrootView`, `StatShowsMode`, `ExecRuns` and `OnlyOwnIds`, the properties of `GuestCalls`: links
  lead to links and scripts to scripts, so it has RECURSIVE operators, with which tlapm has no SMT
  backend. Nor would they hold for every constant: the observations of section 6 on paths, ids and
  exec are the worlds that `MCGuestCalls` leaves out.

## 5. Findings

`guest_calls_unlink`: `delete_metadata_for_file` (`sysaug/src/aug_common.rs:134`) removes what a
path canonicalizes to unless a counter says that other names remain. The comment above says
that this is the file behind a hard link, but a file without a counter takes the same branch.
So unlink of an ordinary file below the root fails with ENOENT, though the file is gone, and
unlink of a relative symbolic link removes the file that the link names.

`fixed_sized_map_join`: the comment of `inner_join_keys` (`krsm/src/common.rs:118`) promises the
intersection of the keys. The join empties slots of the array that it goes on searching, and an empty
slot compares Greater: {1,2,3} joined with a map of 2 and 3 keeps 2 alone. `JoinCorrect` says what is
left of the promise.

`guest_calls_ids`: `res_bits` is a mask because "One call can set multiple flags at once"
(`sysaug/src/common.rs:314`). The pass of `do_sysenter_perms` that stores the ids is guarded by
`retval > 0` (`aug_perms.rs:66`), and `retval` is 0 or -EINVAL: setreuid, setregid, setresuid and
setresgid return 0 and store nothing. Setting that test right alone would make things worse, which
is the mutant of `OnlyOwnIds`: the table marks ids of the user by bit 4 of the mask, `walk_res_bits`
looks for bit 2, and setresgid would write the user's ids.

## 6. Observations

Met while modelling. They are visible in the models or excluded by a named condition.

Runtime and tracer:

* The task tracker loses finished tasks in the join of section 5 and has them registered and worked
  on again. It recovers only when the program stops starting futures: one that restarts the reasons 1
  and 2 in every round starves reason 3 for ever, because the join never keeps it (`StartsEnd` is the
  premise of `EveryTaskAnswered`).
* The closures of `map_edit` and `map_edit_batches` get keys and slots to change
  (`krsm/src/common.rs:149`, `166`), and nothing sorts the array afterwards. The tracker's do not.
* An augment that fails before its syscall (`krsm/src/futures.rs:206`): its result is dropped,
  the syscall is resumed, and the next poll panics (`NeverPanics` of `PathAugments` is false;
  `PanicsOnlyIfFailedEarly` says that nothing else panics).
* On kernels before 4.8 (`sysaug/src/handler_async.rs:527`) the first syscall after the
  initialisation is handled at its entry stop, and the extra round takes the next syscall's
  entry for its exit (`PhaseAgreementBefore48` of `SyscallTracer` is false).
* The result of an inserted mmap is used as an address without a check (`handler_async.rs:657`).
* `rawret >> 8` makes the exit code of a tracee that a signal killed 0
  (`handler_async.rs:422`).
* The kernel test `major <= 4 && minor <= 7` misses 3.8 to 3.19 (`handler_sync.rs:221`). Such a
  kernel is only run without seccomp here, and `PhaseAgreement` leaves it out with seccomp.
* A signal handler that makes a syscall between two insertions has it executed under the
  number saved before (`handler_async.rs:582`), although the comment above
  `_insert_syscall_during_init` (l. 568-573) says that there is no race. With nested handlers, a
  second execve or a failed one it can also be a syscall with an augment that runs unhandled. This
  is `Mistakable`, the exception of `RunsWhatItAsked` and `NoEscape`; nothing else goes wrong.
* A region is leaked when `event_loop` leaves with `?` (`abandoned` in `SharedRegions`).
* `close_tracee` looks the region up by pid, after the tracee was detached (`handler_async.rs:132`).
  If the kernel gives that pid to a new tracee before (`PromptReuse`), the new tracee's entry is
  removed and its region freed while it writes there, though `ptrace/src/common.rs:36` says "Every
  alive tracee keeps their index once allocated". TLC shows it with `PromptReuse = TRUE`, where
  `NoSharing` fails; the run and the proofs assume `~PromptReuse`, since pids are handed out in turn.
* Whether a metadata file exists is asked before it is locked (`aug_common.rs:58`): of two
  tracers that create it at once, the second starts from the default document and may leave
  the end of the longer one (`raced`). Readers take no lock (l. 106).
* The link counter and the names of a hard link change at different times, and nothing keeps tracers
  apart in between. `Slips` in `MetadataFile` lists what comes of it: two unlinks of one name both
  decrement the counter (`twice`); the kernel refuses an unlink after the counter was decremented or
  the content removed (`refused`); a name that was made after its unlink looked for it is not counted
  down (`unseen`); a name is taken for the last one while a new link is not counted yet (`early`), or a
  link is made from it just then (`late`); a link cannot be counted because its content is gone or its
  metadata cannot be parsed (`uncounted`). After `twice`, `refused`, `early` and `late` the content can
  go while names remain.
* The marker of a running instance is looked for in `instances/` and created in the
  instance's own directory (`pocker.rs:155`, `165`): the same instance can run twice.
* A killed or overlapping pull leaves a partial layer directory, which later pulls take for
  complete; --redownload repairs it. The exit code of the unpacking child is not read.
* `augment_sys_paths` returns only errors of augments; that of the syscall future is dropped.

Child transfer (`TraceeTransfer`):

* A wait4 with a NULL status address makes the tracer fail (`aug_waitpid.rs:31`), which kills the
  parent. `FailsOnlyIfKilled` leaves it out.
* Only the thread that made the child hides the stop; another thread of the same process that
  calls wait4 sees it. `ParentNeverSees` is about the maker.
* A SIGCONT of the guest between detach and attach lets the child run untraced until the attach
  (`NoUntracedRun` leaves it out); a SIGSTOP of the guest is swallowed while the child is ignored.
* `is_still_alive` knows exits but not signals (`ptrace/src/lib.rs:50`). CLONE_UNTRACED is cleared
  for clone, not in the structure that clone3 takes.

Paths (`ChrootView` leaves these out by `Agrees`, `mixed` and its condition on relative paths):

* The tracer reads links relative to its own directory, not the guest's.
* An absolute link in the middle of a path, or behind a relative one, is left to the host's
  kernel, which follows it from the host's root. `..` is not treated at all.
* Rows that disagree with the kernel on the last link: stat (not followed), link, linkat, mkdir,
  mknod, rmdir and name_to_handle_at (followed); fchownat and faccessat2 have no flag; open and
  openat test the bit of AT_SYMLINK_NOFOLLOW instead of O_NOFOLLOW.
* A hidden path is passed to the host unchanged, though `config.rs:26` says the file is hidden.
* rename looks for the metadata of the old name after it is gone: the file loses its mode and
  stale metadata stays (`astray`). Renaming a file without metadata onto itself makes the tracer
  fail (`aug_paths_links.rs:219`).
* Every open with O_CREAT sets the mode that stat shows, also of a file that was there and when
  the open failed (`astray`). creat and mknod are rows of chown: the mode is not kept.
* unlink of a link to a directory removes the metadata of all that is in the directory.

Ids and exec:

* `ResfUgType` (`config.rs:145`) numbers the ids of the user first and the table those of the group
  (`common.rs:316`): configured ids of the user are shown as the group's. With all ids alike, as by
  default, nobody can tell. setuid sets the real id alone. A child starts from the
  configuration, not from its parent. A getter trapped by the host returns -ENOSYS in Passthrough.
* The ids of a set-id file are those of the untranslated path (`aug_exec.rs:78`), under --chroot of
  the host's file of that name, and set before the execve may fail.
* A cycle of scripts recurses without bound; a `#!` line of more than two words is refused; an
  empty argv panics. A relative path is made absolute by the tracer's directory.
* prctl(PR_SET_SECCOMP, SECCOMP_MODE_FILTER) passes, since 2 is compared with
  SECCOMP_SET_MODE_FILTER, which is 1.

## 7. Not modelled, and the order of the work

Not modelled: getdents, the struct codec and the slow memory helpers (byte layouts), procfs and
the command line of the runtime (I/O without state), the examples of krsm (but the driver loop
of one). Of the metadata: owners (chown), which are kept like modes, the conversion of a
plain file to a hard link (`aug_paths_links.rs:67-90`), and the rename of a hard link's own name,
which moves a symbolic link. Of clone: clone3 with CLONE_UNTRACED, which would need the
structure it points to. Of paths: `..`, and general patterns in rename rules. Other
architectures than x86_64 in the syscall table.

Done in this order: the krsm core, since all tracers rest on it; the tracer and its kernel;
what tracer threads share (regions, executor, metadata); path augments; the image store; the
transfer of children; paths, ids and exec as the guest sees them.

Proved in this order: the runtime and the regions; path augments and executor; the child
transfer; image store and metadata; the tracer; the map, and with it the task tracker. Every
safety invariant, action property and refinement that a run checks has its theorem, except those
of `GuestCalls`.
