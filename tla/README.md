# TLA+ specifications of PLFS with pattern-detecting indices

This directory specifies, model-checks and proves properties of the code in
`src/`: PLFS 2.0.1, the parallel log-structured file system, with its index
format replaced by one that detects access patterns (`src/README.md`; the new
code is in `src/src/Index.cpp`). Paths below are relative to the root of that
tree: `src/Index.cpp` is the file `src/src/Index.cpp` here.

A PLFS file is a directory on a backend, the *container*. Each writing process
appends its bytes to a *data dropping* of its own and each writing host appends
records to an *index dropping*; a record says which logical range of the file is
where in which data dropping. Readers gather all index droppings into one index
and look every read up in it.

Contents: [1 Inventory](#1-inventory) | [2 Plan](#2-plan) |
[3 What is modelled](#3-what-is-modelled) | [4 Runs](#4-runs) |
[5 Proofs](#5-proofs) | [6 Divergences found](#6-divergences-found) |
[7 What is not modelled](#7-what-is-not-modelled) | [8 How to run](#8-how-to-run)

## 1 Inventory

The components, with their state, operations, what is hard about them and what
makes them correct. `PROJECT.json` lists the same components with their status
and the hazards line by line.

| Component | State | Operations | Hard behaviour | Correct when |
|---|---|---|---|---|
| `WriteFile` (`src/WriteFile.cpp`, `Metadata.h`) | `fds` (pid to descriptor and number of writers), reference count, `last_offset`, `total_bytes`, `index_mux`, `data_mux` | `addWriter`, `removeWriter`, `write`, `sync`, `extend`, `truncate`, `restoreFds`, `closeIndex` | threads share it; data is appended outside the lock the index is updated under; partial writes; failing flushes; children writing through a parent's handle; truncates under open handles | records point at the bytes of their write, no acknowledged write is lost, synced data has its records on disk, calls return |
| `Index`, write side (`src/Index.cpp`) | `hostIndex`, `physical_offsets`, `write_count` | `addWrite`, `truncateHostIndex`, `flush` | merging of consecutive writes, off-by-ones of truncation, buffer lost when a flush fails | as above |
| Pattern encoder `PatternIndex` (`src/Index.cpp` 1422-2066) | pattern stack, demarcation point | `build_off_pat`, `build_unit`, `append_to_buf` | merges depend on the whole history of the stack | the encoding is lossless and strided access is compact |
| Pattern lookup (`PatternListDeSe`, `PatternUnit::look_up`, `globalLookup`) | `dese_map`: logical offset to unit | deserialise, look up, truncate | overlapping units, several flushes in one dropping, holes, empty map | a lookup finds the last write to the byte |
| Index aggregation (`Container.cpp` 363-622, `Index::merge`, `readIndex`) | task deque, shared index, chunk map | `populateIndex`, `indexer_thread`, `merge`, parallel index functions of `plfs.cpp` | threads merge in any order, one fails while others go on | result does not depend on the order; an error is reported |
| Read path (`plfs.cpp` 540-826) | task list, chunk descriptors stashed in the index | `find_read_tasks`, `perform_read_task`, `reader_thread` | reader threads race for tasks and descriptors | the bytes and the count returned are right, no descriptor leaks |
| Handles (`plfs_open`, `plfs_close`, `Plfs_fd`) | three reference counts: handle, `WriteFile`, `Index` | open, close, reference count | failed opens on shared handles, read-write handles counted twice | counts agree; nothing in use is deleted |
| Container creation (`Container.cpp` 1036-1358) | directories and droppings on the backend | `makeTopLevel`, `createHelper`, `create`, `makeHostDir` | creators on several nodes race by mkdir and rename, retries | one container results, every creator succeeds or reports why |
| Container metadata (`addMeta`, open records, `getattr`, `Truncate`) | meta droppings, open records, index droppings | the same | a node reads while others open, write and close | the size converges to the largest end written |
| unlink, rename, tree traversals | container tree | `plfs_unlink`, `plfs_rename`, `removeDirectoryTree`, chmod, chown, utime | concurrent creators and writers, partial failures | no half-removed container is taken for a file |
| FUSE daemon (`fuse/plfs_fuse.cpp`) | `open_files`, `createdContainers`, `known_modes` | open, release, rename, unlink, create, getattr | caches touched without their lock, prefix match in rename | a handle stays bound to its file |
| ADIO driver (`ad_plfs/`) | per-rank handles | collective open, close, read, write | barriers, one rank failing | all ranks agree on the outcome |
| Several backends (`plfs_unlink`, `plfs_rename`, `plfs_mkdir`, `plfs_rmdir`, `plfs_readdir`) | the directory and the name on every backend, shadow containers and the links to them | the same, and `addWriter`'s part | loops over backends without a lock, canonical container and shadows removed one after the other, listings that start over | a file has its own droppings and no others; a listing shows each file once |
| Legacy global index (`insertGlobal`, `handleOverlap`) | `global_index` | insert, split, look up | records that overlap in every way, inserted in any order; nothing calls it since the pattern rewrite | a lookup finds the last write to the byte |
| Configuration, path expansion | mount points, backends | `expandPath`, hashing of paths and nodes | which backend a path, or a node's shadow, is on | as above |
| `Util`, `LogMessage`, tools | - | - | plain I/O | - |
| `BING/`, `src/patternIndex.cpp`, `src/PatternDeSe.cpp`, `ad-patches/` | - | - | older stand-alone copies; patches for MPI libraries | - |

How they interact. `plfs_write` calls `WriteFile::write`, which appends to the
data dropping of the pid and calls `Index::addWrite`; every 102400 writes, at
`sync`, at `restoreFds` and at the last close `Index::flush` runs the pattern
encoder over the buffered records of each process and appends the result to the
index dropping. `plfs_open` for reading runs the aggregation, whose output
`globalLookup` serves to the read path. `plfs_trunc` goes both to the container
(`Container::Truncate`, `removeDirectoryTree`) and, through a handle, to
`WriteFile::truncate` and `restoreFds`. The FUSE daemon and the ADIO driver are
the two callers of the `plfs_*` functions.

## 2 Plan

In order; the most important behaviour, not losing or misplacing written data,
came first. All modules are written, model-checked and proved about.

1. `HostIndex`, `WriteFile` (composes `HostIndex`): the write path.
   `WriteFileProofs`.
2. `PatternDetect`: the encoder that `flush` runs. `WriteFileProofs`.
3. `OpenFiles`: the FUSE daemon's table of open files, `plfs_open`, `plfs_close`
   and their reference counts, with rename and release. `OpenFilesProofs`.
4. `PatternUnits` (uses `PatternDetect`'s operators) and `PatternLookup`
   (composes `HostIndex` and `PatternUnits`): from a write to the answer of a
   lookup, through one index dropping. `IndexProofs`.
5. `AtomicCreate`, an abstract specification, and `ContainerCreate`, which
   refines it. `ContainerCreateProofs`.
6. `IndexAggregate` and `ReadTasks` (extends it): a read, from the listing of the
   index droppings to the bytes in the buffer. `ReadTasksProofs`.
7. `MetaSize`: the size of a container over several hosts. `MetaSizeProofs`.
8. `ParallelOpen` and `CollectiveWrite`: the ADIO driver. `OpenFilesProofs` and
   `CollectiveWriteProofs`.
9. `GlobalIndex`: the legacy index of records. `WriteFileProofs`.
10. `Namespace`: unlink, rename and directories over several backends. It takes
    the creation of a container to be the one step of `AtomicCreate`.
    `NamespaceProofs`.

All of these are written, and every safety property that a run checks is proved. The
theorems of a component are in a module of their own (`XProofs` EXTENDS `X`;
`WriteFileProofs` also has those about the two algorithms on the records of writes
and EXTENDS `PatternDetect` and `GlobalIndex`; `IndexProofs` EXTENDS `PatternLookup`;
`OpenFilesProofs` has those about both ways to open a file and EXTENDS `OpenFiles` and
`ParallelOpen`); none of the modules they reach uses a
RECURSIVE operator.

## 3 What is modelled

### HostIndex and WriteFile

`HostIndex` has the operators that one call of `addWrite` or
`truncateHostIndex` computes. The vector `hostIndex` is a function from slots to
records, because truncation drops elements from its middle; `physical_offsets`
is the map of the code, an absent pid being 0, which is what `addWrite` inserts.

`WriteFile` is the object from its first open to its last close, shared by
threads. Correspondence:

| Code | Model |
|---|---|
| `fds[pid].writers` (no entry: 0) | `fds` |
| `Metadata::reference_count` | `reference_count` |
| `Index::hostIndex`, `physical_offsets` | `hostIndex` with `next_slot`, `physical_offsets` |
| contents of the data droppings, each byte named by the logical offset it was written for | `data` |
| records flushed to the index dropping | `dropping` |
| `index_mux` | `index_mux`: free, or leaked by an early return; a critical section is one action |
| a thread inside `write` or `plfs_trunc` | `pc`, `call` |

| Action | Code |
|---|---|
| `AddWriter`, `RemoveWriter`, `LastClose` | `addWriter(pid, false)`; `removeWriter`; the destructor: `Close`, `closeIndex` |
| `BeginWrite` | `write` up to the descriptor, `addWriter(pid, true)` for a child included |
| `AppendData`, `AppendFails` | `Util::Write`, which may be short or fail |
| `RecordWrite`, `RecordAndFlush` | the section under `index_mux`, without and with the periodic flush |
| `Sync` | `sync` |
| `TruncContainer`, `TruncHandle`, `RestoreFds`, `RestoreFdsFails` | the three steps of `plfs_trunc` through a handle |
| `TruncByPath` | `plfs_trunc` without a handle, from an open with O_TRUNC or another process |

Abstractions. Timestamps are dropped (the encoder does not write them).
`write_count` is not counted: any write may be the one that flushes. A failed
flush leaves nothing in the dropping. `total_bytes` is left to `MetaSize`,
`setPath` and renaming to `OpenFiles`. A `sync` of a pid with no descriptor and
an open whose dropping cannot be opened change nothing and are stuttering steps.
A data descriptor that `restoreFds` could not reopen shows as a failing append.
Two steps are taken as atomic although the code takes no lock: the lookup of the
pid in `fds`, and `truncateHostIndex`, which another thread's `addWrite` may
overlap; both are data races on a standard container, for which the model has
the outcomes of the accesses in either order.

The assumption `UniquePids` is what `plfs_open.3in` asks of the caller. It is a
hypothesis of the properties that need it, not of the model.

History variables (`acked`, `committed`, `merged`, `zeroed`, `flush_failed`)
record what callers were told; no guard reads them.

### PatternDetect

One call of `PatternIndex::build_off_pat` on a list of values, any list of
`Inputs`. `Scan` and `PushOne` are the two outcomes of a turn of the outer loop:
the inner loop over the window size is the choice of the widest window that
merges. `AssignInit` is a turn of `build_ps_init`. `starts` is a history
variable: how many differences precede each element of the stack.
`is_repeating` is left out; its first test returns 0 on every non-empty
sequence, and no sequence of the stack is empty (`DetectTypeOK`, proved).

### OpenFiles

The open files of one FUSE daemon. Its handlers run under `fd_mutex`, so each is
one action; libfuse does not run a rename beside another handler of the same
path, and renames a file that is open away before it lets another take its name
or unlinks it, so `Rename` and `Unlink` have the guard that the file they remove
is not open.

| Code | Model |
|---|---|
| `open_files`, keyed by path, uid and flags | `open_files`, keyed by path and flags |
| a `Plfs_fd` with its `WriteFile` and `Index` | a record of `fd`: the three reference counts, whether the `WriteFile` is still there, the path and whether it lies under the mount point |
| `struct OpenFile` | a record of `opens` |
| containers by name on the backend | `container` |
| `meta/open.<host>.<pid>`, other files in `meta/` | `records`, `metas` |

| Action | Code |
|---|---|
| `Create` | `f_mknod` of a new name |
| `OpenNew`, `OpenShared` | `f_open` with `plfs_open` |
| `OpenSharedLosesWriteFile`, `OpenSharedCountsWriter` | the same when `addWriter` or `populateIndex` fails on a shared handle |
| `Release` | `f_release` with `plfs_close`: metadata, open record, counts, table |
| `Rename`, `Unlink` | `f_rename` with `plfs_rename`; `f_unlink` |

A path is a sequence of letters because `findAllOpenFiles` compares prefixes. A
handle's number is not reused, so a dangling pointer can be seen. Where the code
would abort on its assertion or go on with a deleted object, the behaviour ends
(`Usable`); the properties say when that cannot happen. Abstractions: one user;
the update of the timestamp in `plfs_rename` succeeds; an open that fails before
its handle is in the table leaves at most unreachable objects; a read-write open
counts only its writer, since `plfs_open` drops its index again; what the
`WriteFile` does inside is module `WriteFile`'s. A rename that would move one
entry of the table onto another that is still to be moved is left out, as its
outcome depends on the order of the hash map.

### PatternUnits and PatternLookup

`PatternUnits` has operators only, one per function:

| Operator | Code |
|---|---|
| `build_off_pat`, with `Turn`, `MergedStack`, `PushedStack`, `Before` | the same, as one function of the list; the cases of the merge are `PatternDetect`'s |
| `build_unit`, `build_entry`, `pattern_by_pid`, `Encoded` | `PatternIndex`, `Index::flush`: which records go into which unit, what a flush appends |
| `get_ibuf_unit` with `Misread` and `Cut` | the units the decoder may make of what was written for one: if a byte of the physical pattern is taken for the mark of the lengths, the physical elements before it and any lengths |
| `Narrowed` | `PatternUnitDeSe::look_up`: a unit of three records whose first two are at one offset becomes its first |
| `AsInt` | an `off_t` or `size_t` stored in an `int`: the remainder, the quotient and the position that a lookup computes |
| `getValueByPos`, `Walk` with `Lefts`, `ValuesAlong` | the values of a pattern, and of a list of patterns |
| `look_up`, `UnitAnswer`, `AnswerInside` with `Position`, `AnswerAtEnd` | both `look_up` functions of a unit |
| `Pattern_DeSe` with `Inserted`, `dese_map_look_up`, `analyze_unit` | the reader's map, its lookup, and the listing of a unit's records |

`PatternLookup` is the life of one dropping: `Write` is `addWrite` (`HostIndex`),
`Flush` is `Index::flush`, `Read` is `readIndex`, and `globalLookup` is asked for
every byte. What a lookup answers is a set: of one, or of all that memory outside of
the map or the bytes of a misread unit may make it answer, an abort (`died`) included.
A misread unit keeps the physical elements in front of the mistaken mark. The rest is
read for lengths one byte off and past the end of the unit; the model has one length of
any value (`Garbled`) there, the same at every position, or none, or a death on the size of a
list. `analyze_unit` is for units that are read right; only `EncodingIsLossless`, which is
about what is written, uses it. An `int` has `2 * IntLimit` values. What the loops of the code compute
are recursive functions, and the lists it filters or sorts are `Picked`: what is at
some places, in order.

### IndexAggregate and ReadTasks

| Code | Model |
|---|---|
| the index droppings and what their decoding yields | `container`: a sequence of units of one record each |
| `dese_map`, `chunk_map` with stashed descriptors | the same |
| the deque of tasks, which is shuffled | `tasks`, a set |
| an indexer thread and its own `Index` | `thread` |
| a call of `plfs_read` and its reader threads | `call`, `reader` |
| open descriptors | `fds` |

| Action | Code |
|---|---|
| `List` | `collectIndices`; an `opendir` that fails is passed over |
| `ReadOneByOne`, `DoneOneByOne` | `indexTaskManager` without threads: `readIndex` into the one index |
| `StartPool`, `TakeTask`, `ReadSubindex`, `MergeSubindex`, `JoinPool` | `indexTaskManager` with threads and `indexer_thread`: `readIndex` into a subindex, `merge` under the lock |
| `Begin` | `find_read_tasks` under the index's lock, and the choice of a pool |
| `Take`, `GetChunkFd`, `OpenChunk`, `Stash`, `Pread` | `reader_thread`, `perform_read_task`: the lock is not held from the descriptor's lookup to its stash |
| `Return`, `DeleteIndex` | the end of `plfs_read_new`; the `Index` destructor closes descriptors |

The lookup inside `ReadTasks` is that of a unit of one record (what units of more
answer is `PatternLookup`'s subject), and each record is one byte or more, of
which every one is told apart. `find_read_tasks` is its loop, one `Turn` after the
other; `Place` is the number the loop of `readIndex` gives the chunk of a pid, which
it meets first at `FirstOf`; `NewFd` is what `open` returns, the least descriptor
that is free. Threads that do not start, and `populateIndex`
while others read, do not occur: an index is built before its handle is shared.

### AtomicCreate and ContainerCreate

`ContainerCreate` is one name on one backend at the granularity of system calls.

| Action | Code |
|---|---|
| `f_mknod`, `f_mknod_done` | the FUSE handler: look into `createdContainers`, call `create`, insert |
| `CheckContainer`, `MakeTmp`, `RenameTmp`, `UnlinkPlain`, `MakeMeta` | `createHelper` and `makeTopLevel`: temporary directory and access file, rename over the name, what to do on each `errno`, then `meta` and the version |
| `MakeHostDir`, `Retry` | the host's directory; the loop of `create` with its extra attempts |
| `UnlinkBegin`, `UnlinkRename`, `UnlinkOther`, `EraseCreated` | `f_unlink`: rename to a hidden name, removal, erase from the cache |
| `f_getattr` | its erase after ENOENT |
| `OpenBegin`, `AddWriter`, `MakeParent`, `MakeOwn` | `addWriter` and `createHelper` of an open without a create |
| `UserMkdir`, `UserRmdir`, `Crash` | a directory of the user's under the name; the death of a daemon |

The refinement mapping (`Promise`): `place` is `"container"` when an access file
is at the name, `"dir"` when another directory is; `hosts` are the host
directories in it; `status` is where the node's call is. Temporary directories,
hidden names, the cache and the steps of a call are mapped to stutters.

### MetaSize

`Open`, `Write`, `Close` and `Crash` are a host's writing handle; its close is two
steps, `AddMeta` and then `RemoveOpenrecord`. `BeginStat`, `ReadMetas` and the end
of the loop are `getattr`; `BeginTruncate`, `Smaller`, `AsBig`, `Bigger`,
`TruncateMeta`, `UnlinkMeta`, `EndLoop`, `TruncateHandle` are `plfs_trunc` with
`Truncate`, `extendFile`, `truncateMeta` and the traversal of a truncate to zero,
meta dropping by meta dropping, in an order that `readdir` chooses.
`Metadata::total_bytes` is a `size_t` and has `2^Width` values.

### ParallelOpen and CollectiveWrite

The ranks of an MPI job. MPI is not part of the repository and its calls are
marked external in the map: a rank entering a collective call puts a message into `sent`, and
goes on when those have entered that the call makes it wait for (the root for a
broadcast, all for a reduction, an allgather or a split).

`ParallelOpen`: `num_host_dirs` counts the hostdirs and broadcasts the bitmap;
`SplitHostdirs`/`SplitZeros` form the groups; `ListHostdir`, `ReadDroppings`,
`GatherParts`, `MergeHostdirs`, `ReceiveGlobal` are more ranks than hostdirs,
`ReadHostdirs` fewer, `MergeParts` is the exchange of the groups' streams; then
`OpenWithStream`, `OpenAlone`, `OpenFirst`, `ReceiveIndex`, `ReceiveResult` call
`plfs_open`. The arithmetic that shares out hostdirs and droppings is
`ranks_per_comm_calc`, `hostdir_per_rank`, `Tasks` and their neighbours; `Chosen` is the stride with which
a rank goes through the list, and also a list in which some tasks failed.

`CollectiveWrite`: `Split`, `Barrier` and `AddWriter` are the two rounds of an open
for writing, with `MakeHostDir` and `Symlink` in between (`addWriter`),
`AddOpenrecord` and the broadcast of rank 0's result; `Write`; `Resize`; `Close`
with the reduction of the ends to rank 0 (`ReduceMeta`) or with the hint
`plfs_flatten_close` the gathering of indexes (`GatherSizes`, `ReceiveStop`,
`GatherIndexes`); `PlfsClose`.

### GlobalIndex

A pure algorithm with one action, `InsertOne`, that takes the records in any
order: `insertGlobal`, `handleOverlap`, `findSplits`, `splitEntry` and
`orig_globalLookup` as operators. The code keeps it beside the pattern index, and
nothing reaches it any more; `global_from_stream` inserts records with
`insertGlobalEntry` alone. A record of length 0 would make `handleOverlap` walk an
empty range of the map backwards, undefined behaviour; it is excluded. The walk of
`handleOverlap` from the record inserted is `Overlapping`: the records for which
all between, and they themselves, overlap it.

### Namespace

One directory over several backends. `place` is what is at a name on a backend:
a container with an access file, a shadow container, or nothing; with the host
directories in it and the links to those in shadows.

| Action | Code |
|---|---|
| `Create`, `Open`, `TryOpen`, `MakeShadow`, `Link`, `Again` | `plfs_create`; `plfs_open` with `addWriter`: the attempt, the shadow container on the node's backend, the link |
| `Unlink`, `UnlinkCanonical`, `RemoveTree`, `RemoveCopies` | `plfs_unlink`: the canonical container is renamed away and removed, then the others |
| `Rename`, `RenameCanonical` | `plfs_rename`: unlink the target, rename the canonical container |
| `plfs_mkdir`, `plfs_rmdir` | one backend per step |
| `f_opendir`, `plfs_readdir`, `f_readdir`, `f_releasedir` | a listing: one backend per step of a bufferful |
| `Crash` | the node stops between two steps |

A listing is a set of entries in the order of their names, as the code's
`set<string>` is: `Rank` is the position of an entry in the order of all there can be,
and a bufferful are those with at least `offset` entries in front of them, as many as
fit. The files a listing owes are history: those there at `f_opendir`, less each that
is moved or has an entry in front of it come or go while the listing goes on.

## 4 Runs

| Run | Bounds | Distinct states | Expectation |
|---|---|---|---|
| `writefile` | two threads, a pid each; one open each at a time; two writes of two bytes at 0 or 2; one truncate to 0 or 3; data writes, flushes and reopens may fail | 435,930 | passes |
| `patterndetect` | every list of 1 to 8 differences from {1,2,3} and of 1 to 11 from {1,2}; one to three cycles of 1,2,3,4; window of 4 as in `Index.h` | 177,056 | passes |
| `openfiles` | names a, ab, c; two processes, two opens at a time, three handles, two files, two renames, all flags; `addWriter` and `populateIndex` may fail; handles, opens and processes symmetric | 474,950 | passes |
| `lookup` | every sequence of up to 3 writes of two processes at 0, 2, 3 or 6 and of 4 writes of one at 0, 2, 5 or 7, of 1 or 2 bytes; strided, segmented and backward accesses of up to 12, some with strides of 16 and 24, some whose first record is short or of two writes; two flushes; window of 4; bytes of 8 values, the mark is 3; `int` of -16 to 15; misread lengths 0, 1, 2 and 30 | 214,359 | passes |
| `readfile` | three index droppings of two pids, with ties, a hole and an overlap; pools of 1 and 2 threads; two calls; a missing and an unreadable data dropping; `readdir`, `mmap`, `close` may fail | 149,953 | passes |
| `container` | two nodes, of which one unlinks and crashes and one opens; the name absent, a file or a user's directory; 1 extra attempt (5 in the code); every call may fail | 379,801 | passes |
| `metasize` | two hosts, symmetric; one client that stats, one that truncates; ends up to 2; two opens; `size_t` of 2 bits; crashes | 823,788 | passes |
| `ms_reopen` | the same | - | violates `StatSeesReopened` |
| `adio_read` | 1 to 5 ranks, containers of 1 to 5 hostdirs, empty ones among them, the three hints, with and without threads; one failure | 24,165 | passes |
| `adio_write` | 2 or 3 ranks on 1 or 2 hostdirs, on this backend or another, with and without flattening or setting the size; one failure | 510,830 | passes |
| `globalindex` | every 3 records on 5 bytes with all ties of their timestamps, every 4 on 4 bytes, in every order | 245,070 | passes |
| `namespace` | two nodes, two names, two backends, two files, a listing with room for one entry; one failure or crash | 2,691,692 | passes |

Why the bounds are enough.

- `writefile`: two writes at 0 and 2 of size 2 give every relation of two writes
  the code tells apart (continues the last record, does not, same offset, short
  write that leaves a gap), in every interleaving of two threads; 0 and 3 are the
  two kinds of truncation, one of them beyond or inside the last record depending
  on the writes before it.
- `patterndetect`: 11 differences hold two full windows of 4 and the three cases
  of `pat_merge` in succession, `Doubled` after `SplitOff` after `OneMore`
  included. What the bounds leave open there is closed by the proofs.
- `openfiles`: two opens show sharing and its end, two files and two renames show
  a name used again, and ab is the name a rename of a drags along; a third handle
  is what an open gets when the table no longer finds the first two.
- `lookup`: three writes give units of one, two and three records, gaps,
  overlaps, equal offsets and every order; the longer scripts give cycles within
  cycles and units next to units. The byte of 8 values with the mark 3 makes a
  misread as likely as it can be: the short or merged first records lead to units that are misread
  and others like them that are not. Strides of 16 and 24 are within and beyond what the
  `int` of 16 holds, so that remainders and positions turn negative. The lengths
  of a misread unit are too short for any byte, of the size of a record, and longer than the file.
- `readfile`: two threads are enough for each race between two accesses of the
  shared index or the stash; three droppings make one thread take a second task.
- `container`: each of the races in the code's comments is between two parties. An
  attempt that fails and one that is not followed by another are both reached with
  one extra attempt; more only lengthen the count.
- `metasize`: one stat beside one truncate beside two handles, of which one may be
  reopened. Three ends tell less, equal and more apart; a width of 2 makes
  any subtraction below zero visible.
- `adio_read`, `adio_write`: fewer, as many and more ranks than hostdirs, with and
  without a remainder, for each of the functions that divide; a hostdir without a
  sibling, with one and with two.
- `globalindex`: three ranges show every relation of a record to two neighbours,
  and four a record across three.
- `namespace`: a shadow exists as soon as a node's backend is not the name's, and
  each of the two names is on another backend than the other. n1 opens, unlinks
  and lists, n2 renames, lists, makes and removes the directory.

What the properties say:

- `PlacedUnlessMerged`: every record, buffered or flushed, of a process none of
  whose writes was merged and whose dropping was not truncated under it, points
  at the bytes of its own write; the interleaving of appends and index
  insertions of other processes does not matter.
- `RecordsInsideDropping`: a record never reaches past the end of its dropping.
- `NoWriteForgotten`: an acknowledged write is covered by a record until a
  truncate removes it, as long as no flush has failed.
- `SyncedIsDurable`: after `sync`, the caller's writes are covered by records in
  the index dropping, as long as no flush has failed.
- `SizeCoversWrites`: `last_offset` is past every acknowledged byte, also when
  a truncate runs beside a write.
- `OpenersKeepTheirFd`: closes by others and children without a reference never
  take away the descriptor of a process with an open handle.
- `CallsReturn` (liveness): a write or truncate that has started returns, or
  `index_mux` was leaked.
- `StackEncodesPrefix`, `EveryElemHasItsInit`, `DecodesToInput`: the encoding is
  exact at every turn, and decoding it gives the values back. `Returns`
  (liveness): the scan ends.
- `HandleOutlivesItsOpens`: a handle's count is the number of opens that point to
  it, the three counts agree, and it lives exactly as long as one does, except
  handles on which an open failed half-way.
- `OpensShareUnlessDragged`, `TableIsCurrentUnlessDragged`: two opens of a file with
  the same flags share a handle, and the table lists every open handle under the
  name its file has now and no deleted one, until a rename has dragged along a file
  whose name only begins like the renamed one.
- `WritersAreRecordedUnlessDragged`: a file being written has an open record, unless
  one process opened it through two handles, or a rename dragged a file along: the
  handle then lost from the table keeps its old path, and its last close removes
  the open record of whatever file is there by then.
- `ClosedFilesAreFinal`: once nobody writes a file, a stat finds its metadata
  dropping and no open record, unless it was renamed, or matched by a rename, while
  it was open (`moved`).
- `EncodingIsLossless`: what a flush appends holds every record it clears, in the
  units and in the order that `analyze_unit` lists, and unit by unit the three
  patterns have the same number of values.
- `AnswersAreRecords`: a lookup never invents data. What it finds is at the logical
  offset of a flushed record of the process it names, whatever was misread or
  overflowed. If the unit was read right and an `int` holds the numbers of the lookup
  (`InRange`), it is such a record with its place in the data dropping, and one that
  holds the byte if the records of the process are of one length.
- `UndisturbedUnitsAnswer`: a unit of three or more records at ascending offsets
  and of one length, that is read right and into which no other unit starts, answers
  for every byte of its records that is in range. The conditions are what the lookup
  needs; section 6 says what happens without them.
- `UnitsLeadHome`: every unit of the index leads to the data dropping its record
  is in, in whatever order threads read and merge; without threads only if one
  dropping has units at all.
- `IndexIsComplete`: an index built without error has a unit wherever a dropping
  has one, except droppings whose directory or mapping failed, of which the code
  reports nothing.
- `DescriptorsAreKept`: when two threads open one chunk, one descriptor is stashed,
  the other closed after use, and none is used closed, on the wrong file, or left open.
- `ReadsAreExact`, `ReadsReturn` (liveness): a read without error has put every byte
  up to the first one the index does not know where it belongs, and counts them, if
  no records overlap (`Apart`; section 6 says why); calls and the aggregation return.
- `CreatesAtomically` (refinement of `AtomicCreate`): a container appears whole, by
  a creator, and 0 means that the host's directory has just been seen in place.
- `CacheIsTrueUnlessOvertaken`: at a name in `createdContainers` there is a directory,
  a container or one of the user's that `create` took for success, except
  between an unlink and its erase, when another client took it away, or
  when an unlink of this daemon ran during the f_mknod or failed half way.
- `GivesUpOnlyIfDisturbed`, `CreatesReturn` (liveness): an attempt fails only by a
  failure of another kind or if others took away what it found at the name, be they removers
  or creators that take a plain file out of the way; a call that
  gives up has made all its attempts or met such a failure, and every call returns.
- `StatSeesClosedWrites`: a stat shows at least what every host without an open
  record has written, whatever the others open, close and lose meanwhile, and
  never an end the file has not had.
- `SizeIsExactAtRest`: when everybody has closed, the droppings give the size of
  the file, unless a process died or a truncate met another truncate or a handle
  it does not know of.
- `BytesAreCounted`: `total_bytes` does not wrap around, unless the handle has left
  a hole.
- `EveryDroppingOnce`: however hostdirs and droppings are shared out, the index of
  every rank names the data dropping of each index dropping exactly once, those
  that somebody failed to read excepted, and all ranks have the same.
- `OpenReturns`, `CloseReturns` (liveness): no rank waits in a collective call that
  others do not make. A rank may die, and rank 0 may wait for ever (section 6),
  only after a failure.
- `NoSiblingBeatsUs`: no rank makes a hostdir or link under another that is about to,
  as long as nothing has failed in the job. (It takes a failure of the first rank of a
  hostdir; the property leaves out any.)
- `MetaCoversEveryRank`: the one meta dropping of a job that does not flatten has
  the end of every rank's writes.
- `LookupFindsTheLastWrite`: a lookup of any byte in the legacy index finds the last
  write to it, or the hole or end that is there.
- `FilesHaveTheirDroppings`: a file has the droppings of its own writers, all of them
  and no others, on whatever backend, however creators, writers, removers and
  renames interleave; not if it came to its name while an unlink of the name went
  on, or after one failed, a file had been renamed from it or an open had made a shadow
  container for a file already gone; nor if it was renamed away from its shadow containers and
  one of these happened at the old name, or another file came to it.
- `ListingsAreComplete`: a file that is there throughout a listing is listed once,
  unless an entry in front of it came or went, or a directory could not be read.

Fairness. `WriteFile`: weak fairness of the steps of a call in progress, for each
thread; such a step is the thread's own next statement, and a scheduler that does
not starve a runnable thread gives no more and no less. Nothing is assumed of
opens, closes, syncs or the start of calls. `PatternDetect`: weak fairness of the
only process there is. `ReadTasks`: the same for the aggregation, each reader
thread and the return of each call. `ContainerCreate`: for the steps of each
node's create, and not for anybody else's. `ParallelOpen`: of the job, as its
ranks are all there is; `CollectiveWrite`: of the ranks' steps except writes,
which a program may stop making. The others have no liveness property and state
no fairness.

Deadlock is checked in `container`, where somebody can always go on. In the others
it is off: the bounds on calls, writes and files run out, and the encoder, a job
and a lookup end.

Each property of a passing run has a mutant, an operator kept beside the
definition it would replace, that the property rejects. Type invariants are in no
run but `writefile`: they are proved.

## 5 Proofs

`tlapm` checks every proof from nothing. The theorems hold for all values of the
constants that satisfy the assumptions named in the modules, which say what the
constants are and that the sets a counter ranges over are finite: `PidOfAssumption`,
`RangeAssumption`, `BoundAssumption` (`WriteFile`); `InputsAssumption`,
`WindowAssumption` (`PatternDetect`); `FlagsAssumption`, `PathAssumption`,
`BoundAssumption` (`OpenFiles`); `NodesAssumption`, `AttemptsAssumption`,
`FaultsAssumption`, `TopsAssumption` (`ContainerCreate`); `BoundsAssumption`,
`NoHandleAssumption` (`MetaSize`); `JobsAssumption`, `BoundsAssumption`,
`FaultsAssumption` (`CollectiveWrite`); `JobsAssumption` (`ParallelOpen`: a container has
finitely many hostdirs and droppings, each dropping in a hostdir of it); `ContainersAssumption`, `FiniteAssumption`,
`PoolAssumption`, `FaultsAssumption`, `RequestsAssumption`, `LengthAssumption`,
`DisksAssumption` (`IndexAggregate`, `ReadTasks`); `PidsAssumption`, `ScriptsAssumption`
(writes of a byte or more, fewer than an `int` counts),
`FlushesAssumption`, `WindowSizeAssumption`, `IntLimitAssumption` (an `int` has some positive limit),
`GarbledAssumption` (misread lengths are integers) (`PatternLookup`); `NamesAssumption` (the names are a
sequence that is not empty), `HashAssumption`, `BufferAssumption`, `CallsAssumption`,
`FaultsAssumption` (`Namespace`). So the number of threads, ranks, hosts, handles,
droppings, backends, writes and renames is any, the bounds included.

In each module the theorems follow from an invariant of named conjuncts, called `Inv`
where it is one; TLC agrees with it on the instance of the module's run. What
the conjuncts are for:

`WriteFileProofs`, which begins with lemmas about the operators of `HostIndex`:

- `TypeCorrect`: `Spec => [](TypeOK /\ OpensCounted)`. `TypeOK` alone is not
  inductive: that a close does not take `fds` or the reference count below zero
  needs `OpensCounted`, which relates both to the set of opens.
- `PlacedCorrect`, from `PlacementInv`: besides the records already in the index,
  the bytes in flight of each thread lie at the end of its dropping where
  `physical_offsets` says (`InFlightPlaced`), and a process with no write in
  flight has `physical_offsets` equal to the length of its dropping
  (`SettledAtEnd`). The last two are what an index insertion needs of the append
  before it, and they need `UniquePids`.
- `InsideCorrect`, from `RoomInv`: for a process with merged writes, too,
  `physical_offsets` plus what is in flight is within the dropping.
- `NoneForgotten`, `SyncedCorrect`, `SizeCorrect`, from `HistoryInv`.
- `FdsKept`, from `WriterHasFd` and `OpensCounted`.

`WriteFileProofs`, about `PatternDetect`: `DetectTypeCorrect`, `NothingLost` (`StackEncodesPrefix`) and
`InitsCorrect` (`EveryElemHasItsInit`), from one inductive invariant `IInv`:
the type invariant, `StackEncodesPrefix`, that no element ends past the
demarcation point, and where the walk of `build_ps_init` stands. `DecodesBack`
(`DecodesToInput`) follows from it in the last state, one element at a time. The
values of an element are a recursive function on the positions in it
(`DecodedValues`); at the least position that does not hold the value of the input, which
would be the first one to go wrong (`LeastNatural`), the value before is right, `NextValue` adds
what the element repeats, and `StackEncodesPrefix` says that this is the delta of the input there.
Where an element starts, `EveryElemHasItsInit` says its init is right (`ElementDecodes`).

`WriteFileProofs`, about `GlobalIndex`: `GlobalIndexCorrect` and `LookupsFindTheLastWrite`.
The invariant `GlobalInv` has nothing of the lookup: no two records of the map have a
byte in common (`Disjoint`), they cover every byte of the records inserted
(`CoversAll`), and each is a piece of a record that none inserted is newer than on
its bytes (`Current`). An insertion keeps it by these steps:

- `WholeRange`: in a map without overlaps the records that overlap a given one are
  neighbours, so that the walk finds them all and looking at the next and the
  one before is enough to know there are none (`NotAtOdds`);
- `Pieces`: `splitEntry` makes a piece from every point in a record to the next. All
  records are cut at the same points, so two pieces that have a byte in common
  start and end alike, and keeping one for each start leaves no overlap;
- `NewestIsNewest`, `Resolves`: the piece kept is of a record no other involved is newer
  than there. That it is also newer than the records inserted long ago, which the
  map may no longer show, is `Current` of the piece that was there before
  (`ResolvedIsIndex`).

`LookupRight`: in such a map a byte is in one record or none, the one `lower_bound`
gives or the one before it, and a hole ends where the next record starts.

`IndexProofs`, about `PatternLookup`: `LookupTypeCorrect`, `AnswersHold`
(`AnswersAreRecords`), `UndisturbedHolds` (`UndisturbedUnitsAnswer`) and `NoRecordLost`
(`EncodingIsLossless`), for any window size, any size of a byte and of an `int`, and
fewer writes than an `int` counts. The invariant
`LookupInv` says that each list in the dropping encodes the records of one flush, that
the records of a process rise in the data dropping (`Rising`), that there are fewer of them than
`IntLimit`, and that an open reader
has the units of the only list. Everything else is about the operators:

- `Built`: `build_off_pat` returns elements that encode its list (`Encodes`): they stand one after
  another on the differences (`Stretch`), and each repeats them (`On`). Each turn keeps
  this (`TurnKept`), merged or pushed; that the loop reaches the end is shown by the least
  turn that does not (`TurnsEnd`).
- `WindowUnit`, `EntryIs`: `build_unit` gets the records its element spans, so that all three
  patterns of the unit encode the same records (`IsUnit`).
- `UnitFinds`: what `look_up` finds in a unit of records `w` is the place of one record and the
  length of one (`Finds`). `Position` finds a record that starts at or before the offset
  while the next starts behind it (`RowAndColumn`), but `Walk` may look for the length of
  another, because what it has left of the position is what the physical elements
  left: hence the conditions on the lengths. That nothing of this overflows for an
  offset in range is `AsIntSmall` and `InsidePlace`.
- `AnyAnswer`, `LookUpLog`: a lookup of a misread unit or with overflown positions still
  takes the logical offset from the logical pattern, in which any position is cut down
  to one that is there (`AnyPosition`): the offset it gives is that of a record.
- `MapIs`: every unit of `dese_map` is one of the list, at the offset it starts at, which
  with `Finds` gives `AnswersHold`. For `UndisturbedHolds`, `UpwardFinds` says there is just one
  record at an offset within a unit whose records ascend, and no other unit is asked.
- `WindowsJoined`: the windows of the units overlap in one record, so that all of the first and
  all but the first record of each other are the list; nothing is dropped by
  `arrange_queryList` because the places in the data dropping rise (`NothingRepeated`).

`OpenFilesProofs`, about `OpenFiles`: all six properties of the table.

- `OutlivesItsOpens`. A handle's counts change by one where an open comes or goes, so
  the invariant counts the opens that point to a handle, writers and readers
  apart (`CountsOK`). That an open, which adds to the counts of its kind, finds a
  handle whose opens are all of that kind is `FlagsOK`.
- `OpensShare`, `TableIsCurrent` need that a file has one name (`FilesOK`) and that, until
  something is dragged, the table has every open under the name of its file and
  nothing else (`TableOK`).
- `WritersRecorded`, `ClosedAreFinal`: the path in a handle is that of its file or one
  under the mount point, two handles of one process that write a file are known
  (`RecordsOK`), and an open record left is somebody's (`MetasOK`).

The proof found two statements the run cannot refute with its three handles and two
files to be false: `WritersAreRecorded` without its exception for dragged files,
and `ClosedFilesAreFinal` for a file that a rename matched without being the one
renamed. TLC shows both with a file and a path more. They now say when they hold.

`OpenFilesProofs`, about `ParallelOpen`: `OpensServeEveryDropping` (`EveryDroppingOnce`). Ranks come to the
collective calls in any order and a call joins what several of them have made, so
the invariant `ParInv` says what each message is, and for how long:

- `EnteredOnce`: a rank enters each call at most once, and only from a certain place
  in its program on (`Stage`, `Leaving`). A message therefore stays what it is, and
  the stream made of those of a communicator is the same whenever it is made (`StreamsKept`).
- `Said`: the message of a rank in the gather of its group serves what it was to
  read, less what is lost (`Serves`: one chunk for each dropping and no more); that of a
  leader is the group's messages made one (`Gathered`), and what is broadcast is made
  of all of them (`Whole`). `Served` says that who opens has a `Whole`; by
  `WholeIsOne` there is only one, so that all ranks have the same.
- `LostInAPart`: a dropping is lost only in the share of a rank that has read. While a
  rank reads, nothing of its own share is lost yet, and what others lose is not
  in it (`StillSaid`).
- `Shares`: the shares of the ranks are disjoint and together all droppings. With more
  ranks than hostdirs (`NarrowShares`) this is that `rank_to_group_index` gives
  every hostdir a group that is not empty (`Groups`) and that the members of a group
  number themselves without gaps; with fewer (`WideDirs`), that the hostdirs `r + 1 + i * np` of
  all ranks are all numbers up to that of the hostdirs, once each. `MergeServes` then joins
  disjoint shares. What a fold over a list of lists makes is described by the
  list of its intermediate results (`Joined`), which is proved to exist by the least number without one.
- `Placed`: who leads, and that a rank at a call of a group has seen everybody's
  color.

`ContainerCreateProofs`: `CacheIsTrue`, `FailsOnlyIfDisturbed` and the refinement.

- `CallOK` says how far a call has come and what it may then rely on at the name,
  such as that a second rename meets no plain file and that `meta` is made in a
  directory or in one that somebody took away. It gives `GivesUpOnlyIfDisturbed`.
- `CacheOK`: the name enters the cache a step after the host's directory was made.
- `Creation` (`Spec => CreatesAtomically`): initial states map to initial states
  and each action, under the invariant, to a step of `AtomicCreate` or a stutter, one
  lemma per action.

`MetaSizeProofs`: `Counted`, `StatSees`, `ExactAtRest`.

- `BytesAreCounted` is preserved as it stands, beside the types.
- `StatSeesClosedWrites` needs where a stat is (`ClientsOK`), that no end is one the
  file has not had (`HighestOK`), and that what a host has written is in its
  handle or in a meta dropping, and below the offset of a truncate that runs
  (`WrittenOK`).
- `SizeIsExactAtRest` is about a state at rest, but the invariant must describe the one
  truncate under way: which droppings it has left, and which handle is open beside it
  (`TruncateOK` in `ExactOK`).

`CollectiveWriteProofs`: `NoSiblingBeats` from `HostdirsOK`, in which the ranks behind the
barrier are held up until the first of the hostdir has made it; `MetaCovers` from
`MetasOK`, in which the ends in the messages of the reduction are those of their ranks,
who write no more.

`ReadTasksProofs`: all four safety properties of a read, for any number of droppings,
indexer threads, calls and reader threads.

- `UnitsHome`: besides the shared index, each thread's own leads home (`ThreadOK`), and
  `Merged` shifts chunk numbers by as many chunks as are in front. The lemmas about
  `Place` show that `readIndex` numbers the pids of a dropping without a gap.
- `IndexComplete`: a dropping is still a task, in the hands of a thread, in the index, noted
  as missed, or an error is going to be reported (`Held`), at every moment.
- `DescriptorsKept`: an open descriptor is stashed in exactly one chunk or held by
  exactly one reader (`FdsOK`), since a loser of the race closes its own.
- `ReadsExact`: each byte of the request is in at most one task that is still to be
  done (`SpansOK`), which would read what the index says of it, or is settled (`BytesOK`).
  That the tasks of `find_read_tasks` cover the bytes up to the first unknown one once
  each is `TasksFound`: the turns of its loop form a recursive function, and the claim
  of its n-th turn is proved by taking the least n at which it fails.

`NamespaceProofs`: both properties of a directory, from `IInv`, which is `Inv` and
`ListOK`.

- `FilesKeepTheirDroppings`. What a file is told it has is in the host directories its
  links lead to (`DropsOK`), which is kept only if no step of another call touches one
  of them. `ShadowsOK` says that no unlink is removing the shadow containers of a file
  that came to a clean name, and that what is in them was written through its own
  links; `EmptyOK` that a name without a file has left only what some unlink still
  reaches, so that a file can only come to a name when it is clean or is counted as
  spoiled; `LinksOK` and `RenamedOK` that the shadows a renamed file took along stay
  its own: nothing is, or is removed, at the old name, and no other file links there.
  `IdsOK` and `PlacesOK` say that a file is at one name and what is not there is empty.
  One lemma `Files...` for each way a place can change carries these over, and one
  `...Step` for each action maps it to such a change.
- `ListingsComplete`. Of a file that is owed, the entries read so far that are in front of it
  are those in front of it on the backends read (`Listed`), and it has been shown just
  when fewer entries are in front of it than the offset. `Positions` and `Bufferfuls` prove that
  the entries of a finite set are numbered without gaps, so that an empty bufferful
  means all positions are below the offset and no entry is shown twice. `Heeded(S)`
  is what each step of another call tells a listing: the entries that come or go
  are in S, and a file behind one of them is not owed any more.

That is how these modules do induction throughout: from `MinOfNats`, that a set of
natural numbers has a least one.

Only model-checked:

- liveness (`CallsReturn`, `Returns`, `ReadsReturn`, `CreatesReturn`, `OpenReturns`,
  `CloseReturns`), which TLAPS cannot prove under fairness;
- the violation.

## 6 Divergences found

By a run: `getattr` skips the meta droppings of a host with an open record and
takes the size from its index droppings instead, as its comment says it must; but
an `Index` of patterns has a `lastOffset` of 0, because only `insertGlobal` raises
it. A file that was written and closed is of size 0 for everybody else as soon as
its host opens it for writing again (`Container.cpp` 944 and 1008, run `ms_reopen`).

The following were met while modelling. The models have them as they are, unless section 7
says otherwise, and the properties exclude them by name; no run is about them.

Write side.

- `addWrite` does not advance `physical_offsets` when it merges a write into the
  previous record, while its comment says the offset is tracked. A later record of
  the process that is not merged points at earlier bytes (`Index.cpp` 1235;
  `PlacedUnlessMerged`).
- `truncateHostIndex` keeps one byte too many of a buffered record that straddles
  the new end (`Index.cpp` 1345).
- `WriteFile::sync` ignores the result of the flush and returns 0 (`WriteFile.cpp` 57).
- Ends and bytes: `truncate` subtracts a hole from `total_bytes`, which wraps
  around (`Metadata.h` 35). `plfs_trunc` through a handle compares with the end of
  that handle's writes and not of the file's, and so may extend where it should
  cut; without a handle extending always fails with ENOENT, for want of a descriptor.
  `truncateMeta`'s result is overwritten by that of `closedir`. As `lastOffset` is 0,
  `Container::Truncate` finds no index to cut, so `PatternListDeSe::truncate` and
  `rewriteIndex` are never reached.

Lookup and read.

- A unit of two records answers for the first alone (`Index.cpp` 2336), and
  a lookup asks the one unit with the last start before the byte, so that later or
  overlapping units hide others: `UndisturbedUnitsAnswer` names these. That
  overlapping writes through different opens are undefined is said in `README.POSIX`.
- Elements of a physical pattern have no mark of their own, and the decoder takes a
  byte behind one of them that equals `L` for the mark of the lengths, also when it is the
  low byte of the next element's first value (2246). It need not notice: where the
  size of a list then reads as 0 it goes on, one byte off, and a lookup gives the right
  logical offset with a wrong place in the data dropping. Writes of 76 bytes at 0 and of
  4096 at 8192, 16384 and 24576 do it: the bytes of the third are read at
  the physical offset 0. If the size reads as something else the reader may die. The run `lookup`
  has such writes, and without `~Misread` both its properties of answers fail on them.
- `look_up` stores in an `int` the quotient and the remainder of an offset by the sum of a logical
  pattern and the position it makes of them (2361, 2362, 2397). With records at 0, 3, 4, 7 and 8 GiB the
  pattern is 3 GiB and 1 GiB, the remainder at 3 GiB is negative as an `int`, and
  the lookup ends at the last record: both properties are about offsets in range only.
- A dropping that was flushed twice holds two lists, the decoder expects one
  (2768). A lookup in an index without units reads behind the end of a map (2585).
- Without threads `readIndex` points units of droppings read earlier at the one it
  reads now (447). A directory or mapping that fails during aggregation
  is passed over without an error. A hole ends a read, as it is reported with
  length 0 like the end of the file (1005); the branch for holes is dead.
- `find_read_tasks` gives every task the logical offset the call began at, so that
  consecutive pieces are never merged. A task goes to the end of the record it found, also
  over a later record that begins inside it, while a call that begins at the later
  record reads that: two reads of a byte may differ (`plfs.cpp` 562; `Apart`). `plfs_read_old` is not reached, and
  `populateIndex` sets `use_global` to 0 whatever it is told (`Container.cpp` 428).

Handles and the FUSE daemon.

- A read-write `plfs_open` of a shared handle that fails in `populateIndex` leaves
  the writer it counted (`plfs.cpp` 1292).
- `f_rename` rebinds every open file whose name begins like the renamed one
  (`plfs_fuse.cpp` 1235), and gives handles a path under the mount point, so that the
  last close neither drops metadata nor removes the open record (1176).
- `f_unlink` erases from `createdContainers` without the lock of the cache. `f_readdir`
  reads all backends again for each bufferful; the set `f_opendir` allocates is not used.

Containers and backends.

- `makeTopLevel` says it must be "absolutely sure a container is really a container
  and not just a directory" (`Container.cpp` 1030), and `create` returns 0 on a user's
  directory of the name; `AtomicCreate` promises what the code does. An
  opener that makes a missing parent directory makes a directory that is no
  container. A crashed creator's temporary directory stays.
- `plfs_unlink` removes the canonical container before the shadows of it, so that a
  file created meanwhile, or after an unlink that failed, loses or inherits
  droppings. `plfs_rename` moves only the canonical container, whose links still
  lead to the shadows under the old name. An open that races an unlink or a rename
  may succeed on a shadow whose file is gone.
- `plfs_mkdir`, `plfs_rmdir` and `plfs_readdir` return the result of the last backend;
  `plfs_rmdir` removes a directory on those backends where it is empty before it
  fails on the one where it is not, and compares its result with ENOENT of the
  wrong sign. The path `hostdir_full` never equals the other, for a double slash,
  so a link to itself can be made. `f_chown` and `cleanupChmod` have slips of the
  same kind (an unexpanded path, an overwritten result).

ADIO driver.

- Every rank takes rank 0's result for its own: a rank whose open failed is told of
  success, has no handle, and is missing from the collective calls of the close,
  where rank 0 waits for it (`ad_plfs_open.c` 224; `HiddenFailure`). The result
  is uninitialised if the first of the rank list is not 0.
- The streams that ranks exchange have chunks and no units, the index having been
  replaced under them (`ad_plfs_open.c` 322, `Index.cpp` 591): such a rank's index
  looks nothing up. `EveryDroppingOnce` is therefore about chunks.
- No hostdirs are divided by; a hostdir that cannot be opened yields the first entry of an
  empty vector. The bitmap has bits 0 to 1023 and hostdirs numbers 1 to 1024.
  `parAggregateIndices` ignores the result of `indexTaskManager`.
- `plfs_flatten_close`: buffering is switched off, so the flattened index is never
  found too big, the size reported is 0, and the root's index is deleted
  with its `WriteFile` before it is used. Setting the size tells the handle of the
  rank that truncates and no other.

## 7 What is not modelled

- The traversals of chmod, chown and utime, the daemon's `known_modes` and the update
  of its two caches in `f_rename`, credentials and the group cache, extended
  attributes and `statfs`: they change no state that a property here is about.
- Callers of the library that mix flags on one `Plfs_fd`. The FUSE daemon keys its
  table by flags and never does.
- `flattenIndex`'s file operations and the global dropping, which `populateIndex` does
  not read; `get_ibuf_info`, which prints.
- The parsing of `plfsrc`; expanded paths are constants of `Namespace`.
- `Util`, `LogMessage`, the tools: wrappers, logging and command lines without state.
- `BING/`, `src/patternIndex.cpp`, `src/PatternDeSe.cpp`, `ad-patches/`: not built.
- Steps that the models take at once or leave out, where no property tells the difference:
  an index dropping that cannot be opened crashes the reader in
  `readIndex` (`Index.cpp` 464: no mapping, and a length of -1 that is compared as unsigned), where
  `Readings` only has those that decode and those on which `mmap` or `close` fails; the root of a
  flattening close uses an index that is deleted, or gets no memory (`plfs.cpp` 1927, 1940,
  1957), where `PlfsClose` goes on;
  `makeHostDir` of a shadow is two mkdirs (`Container.cpp` 1195) and one step `MakeShadow`; the rename of
  a shadow container to a hidden name and its removal are one step of `RemoveCopies`
  (`plfs.cpp` 1803), and a temporary directory of `makeTopLevel` (`Container.cpp` 1057) is no entry
  of `Namespace`: entries like these that come and go in front of a file are what
  `ListingsAreComplete` excepts. `TryOpen` may make a third attempt where
  `addWriter` (`plfs.cpp` 321) makes two: more behaviours than the code's.
- What a list of misread lengths looks like inside: it is one length at every position.
- MPI, libfuse and the backend file system are modelled by what the code
  sees of them: collective calls wait for their members; libfuse does not run a
  rename beside another handler of the path; an append is atomic, a write may be
  short or fail, a truncate in place empties a dropping, a rename replaces.

Most of the code that the map leaves out is these, along with constructors,
printing, option handling and error reports.

## 8 How to run

    tlc -config MCWriteFile.cfg MCWriteFile
    tlc -config MCPatternDetect.cfg MCPatternDetect
    tlc -config MCOpenFiles.cfg MCOpenFiles
    tlc -config MCPatternLookup.cfg MCPatternLookup
    tlc -config MCReadTasks.cfg MCReadTasks
    tlc -config MCContainerCreate.cfg MCContainerCreate
    tlc -config MCMetaSize.cfg MCMetaSize
    tlc -config MSReopen.cfg MCMetaSize        (a violation)
    tlc -config MCParallelOpen.cfg MCParallelOpen
    tlc -config MCCollectiveWrite.cfg MCCollectiveWrite
    tlc -config MCGlobalIndex.cfg MCGlobalIndex
    tlc -config MCNamespace.cfg MCNamespace
    for m in WriteFile Index OpenFiles ContainerCreate MetaSize \
             CollectiveWrite ReadTasks Namespace; do tlapm ${m}Proofs.tla; done
