--------------------------- MODULE IndexAggregate ---------------------------
(***************************************************************************)
(* Container::populateIndex (src/Container.cpp): the index droppings of a  *)
(* container are listed, read, by threads if there are several, and merged *)
(* into one Index, from which ReadTasks serves reads.                      *)
(*                                                                         *)
(* A dropping is the sequence of units its decoding yields (PatternUnits), *)
(* each about one record here: [id, log, phy, len, chunk, from], of which  *)
(* from, the dropping it came from, is history.  A chunk is a data         *)
(* dropping, named by the index dropping beside it and a pid.              *)
(***************************************************************************)
EXTENDS Integers, Sequences, FiniteSets, SequencesExt

CONSTANTS
  Droppings,     \* the index droppings
  Pids,
  Containers,    \* what the droppings may hold: [Droppings -> Seq of units]
  PoolSizes,     \* the values of threadpool_size in plfsrc
  Workers,       \* the threads of the pool, numbers from 1
  Faults         \* what may go wrong: "readdir", "mmap", "close"

Unit == [id : Pids, log : Nat, phy : Nat, len : Nat \ {0}, chunk : Nat, from : Droppings \cup {"none"}]

ASSUME ContainersAssumption == \A c \in Containers : c \in [Droppings -> Seq(Unit)]
ASSUME FiniteAssumption == IsFiniteSet(Droppings) /\ IsFiniteSet(Pids) /\ IsFiniteSet(Workers)
ASSUME PoolAssumption == PoolSizes \subseteq Workers /\ Workers = 1..Cardinality(Workers)
ASSUME FaultsAssumption == Faults \subseteq {"readdir", "mmap", "close"}

VARIABLES
  container,        \* the index droppings on disk
  threadpool_size,
  tasks,            \* the deque of droppings: it is shuffled, so a set
  dese_map,         \* units by logical offset, as in PatternUnits, with chunk
  chunk_map,        \* the chunks of the Index: a sequence of [path, fd]
  phase,            \* "list", "run", "pool", "done", and "closed" in ReadTasks
  ret,              \* what populateIndex returns: 0 or -1
  thread,           \* per worker: [at, dropping, map, chunks, ret]
  missed            \* history: droppings whose loss no error reported

aggVars == <<container, threadpool_size, tasks, dese_map, chunk_map, phase, ret, thread, missed>>

Paths == Droppings \X Pids
NoUnits == [o \in {} |-> 0]
Min2(a, b) == IF a < b THEN a ELSE b

Idle == [at |-> "idle", dropping |-> "none", map |-> NoUnits, chunks |-> << >>, ret |-> 0]

Init ==
  /\ container \in Containers
  /\ threadpool_size \in PoolSizes
  /\ tasks = {}
  /\ dese_map = NoUnits /\ chunk_map = << >>
  /\ phase = "list" /\ ret = 0
  /\ thread = [w \in Workers |-> Idle]
  /\ missed = {}

-----------------------------------------------------------------------------
(* Index::readIndex of dropping d into an index with units map and chunks: *)
(* Pattern_DeSe inserts the units, then the loop over the whole of         *)
(* dese_map names a chunk of d for every pid in it and points every unit   *)
(* of the pid there.                                                       *)
First(d, o) == Min({i \in DOMAIN container[d] : container[d][i].log = o})

Decoded(map, d) ==
  [o \in DOMAIN map \cup {container[d][i].log : i \in DOMAIN container[d]} |->
     IF o \in DOMAIN map THEN map[o] ELSE [container[d][First(d, o)] EXCEPT !.from = d]]

(* The loop meets the units in the order of their offsets and gives each   *)
(* pid the next number when it meets it first.                             *)
Known(map) == {map[o].id : o \in DOMAIN map}
FirstOf(map, p) == Min({o \in DOMAIN map : map[o].id = p})
Place(map, p) == Cardinality({q \in Known(map) : FirstOf(map, q) <= FirstOf(map, p)})

Repointed(map, chunks) ==
  [o \in DOMAIN map |-> [map[o] EXCEPT !.chunk = Len(chunks) + Place(map, map[o].id)]]

Chunks(map, chunks, d) ==
  chunks \o [i \in 1..Cardinality(Known(map)) |->
    [path |-> <<d, CHOOSE p \in Known(map) : Place(map, p) = i>>, fd |-> -1]]

(* What readIndex can make of the index: it has all of d, or nothing if    *)
(* the file is empty or its mmap fails, for which 0 is returned as well,   *)
(* or all of d and an error from closing the file.                         *)
Readings(map, chunks, d) ==
  LET whole == Decoded(map, d)
      nothing == [map |-> map, chunks |-> chunks, ret |-> 0, lost |-> TRUE]
      good == [map |-> Repointed(whole, chunks), chunks |-> Chunks(whole, chunks, d), ret |-> 0, lost |-> FALSE]
  IN  IF container[d] = << >> THEN {[nothing EXCEPT !.lost = FALSE]}
      ELSE {good} \cup (IF "mmap" \in Faults THEN {nothing} ELSE {})
                  \cup (IF "close" \in Faults THEN {[good EXCEPT !.ret = -1]} ELSE {})

\* Mutant: the units keep the chunk numbers of the other index.
Merged_Unshifted(map, chunks, other) ==
  [o \in DOMAIN map \cup DOMAIN other |-> IF o \in DOMAIN map THEN map[o] ELSE other[o]]

(* Index::merge: the other's chunks go to the end and its units move up by *)
(* as many; an offset that has a unit keeps it.                            *)
Merged(map, chunks, other) ==
  [o \in DOMAIN map \cup DOMAIN other |->
     IF o \in DOMAIN map THEN map[o]
     ELSE [other[o] EXCEPT !.chunk = @ + Len(chunks)]]

-----------------------------------------------------------------------------
(* aggregateIndices: nextdropping yields the droppings one by one.  When   *)
(* it cannot open a directory the loop ends early, and its error is        *)
(* replaced by what indexTaskManager returns.                              *)
List ==
  /\ phase = "list"
  /\ \E listed \in IF "readdir" \in Faults THEN SUBSET Droppings ELSE {Droppings} :
       /\ tasks' = listed
       /\ missed' = Droppings \ listed
  /\ phase' = "run"
  /\ UNCHANGED <<container, threadpool_size, dese_map, chunk_map, ret, thread>>

(* indexTaskManager: without threads if there is one task at most, or one  *)
(* thread.                                                                 *)
OneByOne == threadpool_size = 1 \/ Cardinality(tasks) <= 1

ReadOneByOne ==
  /\ phase = "run" /\ OneByOne /\ \A w \in Workers : thread[w].at = "idle"
  /\ \E d \in tasks : \E r \in Readings(dese_map, chunk_map, d) :
       /\ tasks' = tasks \ {d}
       /\ dese_map' = r.map /\ chunk_map' = r.chunks /\ ret' = r.ret
       /\ missed' = IF r.lost THEN missed \cup {d} ELSE missed
       /\ phase' = IF r.ret # 0 THEN "done" ELSE phase
  /\ UNCHANGED <<container, threadpool_size, thread>>

DoneOneByOne ==
  /\ phase = "run" /\ tasks = {} /\ \A w \in Workers : thread[w].at = "idle"
  /\ phase' = "done"
  /\ UNCHANGED <<container, threadpool_size, tasks, dese_map, chunk_map, ret, thread, missed>>

(* The pool: as many threads as there are tasks, threadpool_size at most.  *)
StartPool ==
  /\ phase = "run" /\ ~OneByOne /\ \A w \in Workers : thread[w].at = "idle"
  /\ thread' = [w \in Workers |->
       IF w <= Min2(threadpool_size, Cardinality(tasks)) THEN [Idle EXCEPT !.at = "take"] ELSE Idle]
  /\ phase' = "pool"
  /\ UNCHANGED <<container, threadpool_size, tasks, dese_map, chunk_map, ret, missed>>

(* indexer_thread.                                                         *)
TakeTask(w) ==
  /\ thread[w].at = "take"
  /\ \/ /\ tasks = {}
        /\ thread' = [thread EXCEPT ![w].at = "exit"]
        /\ UNCHANGED tasks
     \/ \E d \in tasks :
          /\ tasks' = tasks \ {d}
          /\ thread' = [thread EXCEPT ![w].at = "read", ![w].dropping = d]
  /\ UNCHANGED <<container, threadpool_size, dese_map, chunk_map, phase, ret, missed>>

ReadSubindex(w) ==
  /\ thread[w].at = "read"
  /\ \E r \in Readings(NoUnits, << >>, thread[w].dropping) :
       /\ thread' = [thread EXCEPT ![w] =
            [at |-> IF r.ret # 0 THEN "exit" ELSE "merge",
             dropping |-> @.dropping, map |-> r.map, chunks |-> r.chunks, ret |-> r.ret]]
       /\ missed' = IF r.lost THEN missed \cup {thread[w].dropping} ELSE missed
  /\ UNCHANGED <<container, threadpool_size, tasks, dese_map, chunk_map, phase, ret>>

(* The merge is under the lock of the index.                               *)
MergeSubindex(w) ==
  /\ thread[w].at = "merge"
  /\ dese_map' = Merged(dese_map, chunk_map, thread[w].map)
  /\ chunk_map' = chunk_map \o thread[w].chunks
  /\ thread' = [thread EXCEPT ![w] = [Idle EXCEPT !.at = "take"]]
  /\ UNCHANGED <<container, threadpool_size, tasks, phase, ret, missed>>

\* Mutant: only the first thread's status is looked at.
PoolStatus_First == thread[1].ret

(* The pool has joined its threads: the first status that is not 0.        *)
PoolStatus == IF \E w \in Workers : thread[w].ret # 0 THEN -1 ELSE 0

JoinPool ==
  /\ phase = "pool" /\ \A w \in Workers : thread[w].at \in {"idle", "exit"}
  /\ ret' = PoolStatus
  /\ phase' = "done"
  /\ thread' = [w \in Workers |-> Idle]
  /\ UNCHANGED <<container, threadpool_size, tasks, dese_map, chunk_map, missed>>

AggStep(w) == TakeTask(w) \/ ReadSubindex(w) \/ MergeSubindex(w)

Aggregate ==
  \/ List \/ ReadOneByOne \/ DoneOneByOne \/ StartPool \/ JoinPool
  \/ \E w \in Workers : AggStep(w)

-----------------------------------------------------------------------------
(* The types of the state.                                                 *)
Fd == Nat \cup {-1}
Chunk == [path : Paths, fd : Fd]

UnitsTyped(map) ==
  /\ map = [o \in DOMAIN map |-> map[o]]
  /\ DOMAIN map \subseteq Nat /\ \A o \in DOMAIN map : map[o] \in Unit

ThreadTyped(t) ==
  /\ t = [at |-> t.at, dropping |-> t.dropping, map |-> t.map, chunks |-> t.chunks, ret |-> t.ret]
  /\ t.at \in {"idle", "take", "read", "merge", "exit"} /\ t.dropping \in Droppings \cup {"none"}
  /\ UnitsTyped(t.map) /\ t.chunks \in Seq(Chunk) /\ t.ret \in {0, -1}

AggTypeOK ==
  /\ container \in Containers /\ threadpool_size \in PoolSizes
  /\ tasks \subseteq Droppings /\ missed \subseteq Droppings
  /\ phase \in {"list", "run", "pool", "done", "closed"} /\ ret \in {0, -1}
  /\ UnitsTyped(dese_map) /\ chunk_map \in Seq(Chunk)
  /\ thread = [w \in Workers |-> thread[w]] /\ \A w \in Workers : ThreadTyped(thread[w])

Built == phase = "done" /\ ret = 0

(* How often readIndex ran on the shared index: more than once only        *)
(* without threads.                                                        *)
Repointing == threadpool_size = 1 /\ Cardinality(Droppings \ {d \in Droppings : container[d] = << >>}) > 1

(* Every unit of the index leads to the data dropping its record was       *)
(* written to, also when the droppings of several hosts and of the same    *)
(* pid are merged in any order by threads; without threads, if only one    *)
(* dropping has units.                                                     *)
UnitsLeadHome ==
  ~Repointing =>
    \A o \in DOMAIN dese_map :
      /\ dese_map[o].chunk \in DOMAIN chunk_map
      /\ chunk_map[dese_map[o].chunk].path = <<dese_map[o].from, dese_map[o].id>>

(* An index without error has a unit wherever a dropping has one, the      *)
(* first of that dropping or of another, unless a dropping was passed over *)
(* because its directory or its mapping failed.                            *)
IndexIsComplete ==
  Built => \A d \in Droppings \ missed : \A i \in DOMAIN container[d] :
    LET o == container[d][i].log IN
    /\ o \in DOMAIN dese_map
    /\ \E e \in Droppings : \E j \in DOMAIN container[e] :
         /\ dese_map[o].from = e /\ dese_map[o].id = container[e][j].id /\ dese_map[o].phy = container[e][j].phy
         /\ container[e][j].log = o
         /\ \A k \in 1..(j - 1) : container[e][k].log # o
=============================================================================
