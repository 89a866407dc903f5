--------------------------- MODULE ReadTasksProofs --------------------------
(***************************************************************************)
(* What IndexAggregate and ReadTasks guarantee for all droppings and what  *)
(* they hold, all pools of threads, and all calls and requests: the index  *)
(* is complete and its units lead to their bytes, descriptors are shared   *)
(* and closed, and a read of records that do not overlap is exact.         *)
(***************************************************************************)
EXTENDS ReadTasks, FiniteSetTheorems, SequenceTheorems, WellFoundedInduction, TLAPS

-----------------------------------------------------------------------------
(* Of an Index, shared or a thread's own: its units are filed under their  *)
(* offsets, and have chunks.                                               *)
Filed(map, chunks) ==
  \A o \in DOMAIN map : map[o].log = o /\ map[o].chunk \in DOMAIN chunks

Home(map, chunks) ==
  \A o \in DOMAIN map : chunks[map[o].chunk].path = <<map[o].from, map[o].id>>

(* Unit u is the first one at offset o of the dropping it came from.       *)
FirstAt(o, u) ==
  \E e \in Droppings : \E j \in DOMAIN container[e] :
    /\ u.from = e /\ u.id = container[e][j].id /\ u.phy = container[e][j].phy
    /\ container[e][j].log = o
    /\ \A k \in 1..(j - 1) : container[e][k].log # o

AllFirst(map) == \A o \in DOMAIN map : FirstAt(o, map[o])

Covers(map, d) == \A i \in DOMAIN container[d] : container[d][i].log \in DOMAIN map

Unopened(chunks) == \A i \in DOMAIN chunks : chunks[i].fd = -1

(* Where the aggregation is.  readIndex runs on the shared index again     *)
(* only without threads.                                                   *)
PhasesOK ==
  /\ phase # "pool" => \A w \in Workers : thread[w] = Idle
  /\ phase = "pool" => thread[1].at # "idle"
  /\ phase \in {"list", "run", "pool"} => ret = 0
  /\ phase = "run" => \A o \in DOMAIN dese_map : dese_map[o].from \notin tasks
  /\ phase = "list" \/ (phase = "run" /\ tasks # {} /\ threadpool_size # 1) => DOMAIN dese_map = {}

ThreadOK(w) ==
  LET t == thread[w] IN
  /\ t.at \in {"read", "merge"} => t.dropping \in Droppings
  /\ t.at = "merge" => /\ Filed(t.map, t.chunks) /\ Home(t.map, t.chunks) /\ AllFirst(t.map)
                       /\ Unopened(t.chunks)
                       /\ t.dropping \in missed \/ Covers(t.map, t.dropping)
  /\ t.ret # 0 => t.at = "exit"
  /\ t.at = "exit" => t.ret # 0 \/ tasks = {}

ThreadsOK == \A w \in Workers : ThreadOK(w)

UnitsOK ==
  /\ Filed(dese_map, chunk_map) /\ AllFirst(dese_map)
  /\ ~Repointing => Home(dese_map, chunk_map)

(* No dropping is forgotten: it is in the index, or some thread has it, or *)
(* an error is going to be reported.                                       *)
Held(d) ==
  \/ d \in tasks \/ d \in missed \/ Covers(dese_map, d)
  \/ \E w \in Workers : thread[w].ret # 0 \/ (thread[w].at \in {"read", "merge"} /\ thread[w].dropping = d)

DroppingsOK ==
  /\ phase \in {"run", "pool"} => \A d \in Droppings : Held(d)
  /\ Built => \A d \in Droppings \ missed : Covers(dese_map, d)

-----------------------------------------------------------------------------
Working(c, w) == reader[c][w].at \in {"fd", "open", "stash", "pread"}

(* Calls are made of an index that is built, and it is there until they    *)
(* have returned.                                                          *)
CallOK(c) ==
  /\ call[c].at = "idle" => call[c] = NoCall
  /\ call[c].at = "reading" => Built /\ reader[c][1].at # "off"
  /\ call[c].at # "reading" => \A w \in Workers : reader[c][w] = NoReader
  /\ call[c].at = "returned" /\ ~call[c].error => call[c].tasks = << >>
  /\ call[c].at = "reading" /\ ~call[c].error =>
       \A w \in Workers : reader[c][w].at = "exit" => call[c].tasks = << >>
  /\ phase \in {"list", "run", "pool"} => call[c].at = "idle"

CallsOK == \A c \in Calls : CallOK(c)

(* A task is about a chunk of the index, of which it may know a descriptor *)
(* already.                                                                *)
OfChunk(t) ==
  /\ t.chunk \in DOMAIN chunk_map
  /\ t.path = chunk_map[t.chunk].path
  /\ t.fd = -1 \/ t.fd = chunk_map[t.chunk].fd

TaskOK(c) == call[c].at = "reading" =>
  /\ \A i \in DOMAIN call[c].tasks : OfChunk(call[c].tasks[i])
  /\ \A w \in Workers : Working(c, w) => OfChunk(reader[c][w].task)

TasksOK == \A c \in Calls : TaskOK(c)

Holds(c, w, f) == reader[c][w].at = "stash" /\ reader[c][w].fd = f

(* An open descriptor is stashed in one chunk or held by one reader, and   *)
(* what a reader reads from is stashed.                                    *)
ChunkFdsOK ==
  /\ \A i \in DOMAIN chunk_map : LET f == chunk_map[i].fd IN
       f # -1 => f \in DOMAIN fds /\ fds[f] = chunk_map[i].path
  /\ \A i, j \in DOMAIN chunk_map : chunk_map[i].fd = chunk_map[j].fd /\ i # j => chunk_map[i].fd = -1
  /\ phase \in {"list", "run", "pool"} => Unopened(chunk_map)

ReaderFdOK(c, w) ==
  LET r == reader[c][w] IN
  /\ r.at = "stash" => /\ r.fd \in DOMAIN fds /\ fds[r.fd] = r.task.path
                       /\ \A i \in DOMAIN chunk_map : chunk_map[i].fd # r.fd
                       /\ \A d \in Calls, v \in Workers : Holds(d, v, r.fd) => d = c /\ v = w
  /\ r.at = "pread" => r.fd # -1 /\ r.fd = chunk_map[r.task.chunk].fd

FdsOK ==
  /\ ChunkFdsOK /\ \A c \in Calls, w \in Workers : ReaderFdOK(c, w)
  /\ \A f \in DOMAIN fds :
       \/ \E i \in DOMAIN chunk_map : chunk_map[i].fd = f
       \/ \E c \in Calls, w \in Workers : Holds(c, w, f)

-----------------------------------------------------------------------------
(* The bytes of the buffer that task t is to fill.                         *)
Span(t) == t.buf..(t.buf + t.len - 1)

(* The bytes of a call that are still to be read are in one task each, and *)
(* unset; the others are counted.                                          *)
Put(c) == {i \in DOMAIN call[c].buf : call[c].buf[i] # Unset}

Free(c, t) == Span(t) \subseteq DOMAIN call[c].buf /\ Span(t) \cap Put(c) = {}

SpanOK(c) ==
  /\ call[c].total = Cardinality(Put(c))
  /\ call[c].at = "reading" =>
       /\ \A i \in DOMAIN call[c].tasks : LET t == call[c].tasks[i] IN
            /\ Free(c, t)
            /\ \A j \in DOMAIN call[c].tasks : i # j => Span(t) \cap Span(call[c].tasks[j]) = {}
       /\ \A w \in Workers : Working(c, w) => LET t == reader[c][w].task IN
            /\ Free(c, t)
            /\ \A j \in DOMAIN call[c].tasks : Span(t) \cap Span(call[c].tasks[j]) = {}
            /\ \A v \in Workers : Working(c, v) /\ v # w => Span(t) \cap Span(reader[c][v].task) = {}

SpansOK == \A c \in Calls : SpanOK(c)

(* What the index says of byte x of the file.                              *)
Has(x) == Found(x).len > 0
Data(x) == <<Found(x).path, Found(x).off>>
Reached(c, i) == \A j \in 0..i : Has(call[c].offset + j)

(* A task reads what the index says of its bytes, if no records overlap.   *)
Right(c, t) ==
  \A b \in Span(t) : Reached(c, b) /\ Data(call[c].offset + b) = <<t.path, t.off + (b - t.buf)>>

Owed(c, b) ==
  \/ \E i \in DOMAIN call[c].tasks : b \in Span(call[c].tasks[i])
  \/ \E w \in Workers : Working(c, w) /\ b \in Span(reader[c][w].task)

(* Byte b of the buffer is as it is to be.                                 *)
Settled(c, b) ==
  LET x == Data(call[c].offset + b) IN
  /\ Reached(c, b) => x[1] \in disk.present \ disk.bad
  /\ call[c].buf[b] = IF Reached(c, b) /\ x[2] < Length THEN x ELSE Unset

ByteOK(c) ==
  /\ call[c].at = "reading" =>
       /\ \A i \in DOMAIN call[c].tasks : Right(c, call[c].tasks[i])
       /\ \A w \in Workers : Working(c, w) => Right(c, reader[c][w].task)
  /\ Built /\ call[c].at # "idle" /\ ~call[c].error =>
       \A b \in DOMAIN call[c].buf : Owed(c, b) \/ Settled(c, b)

BytesOK == Apart => \A c \in Calls : ByteOK(c)

Aggregated == PhasesOK /\ ThreadsOK /\ UnitsOK /\ DroppingsOK
Read == CallsOK /\ TasksOK /\ FdsOK /\ SpansOK /\ BytesOK
Inv == TypeOK /\ Aggregated /\ Read

-----------------------------------------------------------------------------
(* Numbers: the least and the greatest of a set, and a free descriptor.    *)

LEMMA MinOfNats ==
  ASSUME NEW S \in SUBSET Nat, S # {}
  PROVE  Min(S) \in S /\ \A x \in S : Min(S) <= x
<1>1. PICK x \in S : \A y \in S : ~(<<y, x>> \in OpToRel(<, Nat))
  BY WFMin, NatLessThanWellFounded
<1>2. \A y \in S : x <= y
  <2> SUFFICES ASSUME NEW y \in S, ~(x <= y) PROVE FALSE
    OBVIOUS
  <2>1. x \in Nat /\ y \in Nat /\ y < x
    OBVIOUS
  <2>2. <<y, x>> \in OpToRel(<, Nat)
    BY <2>1 DEF OpToRel
  <2> QED BY <1>1, <2>2
<1> QED BY <1>2 DEF Min

LEMMA MaxOfNats ==
  ASSUME NEW N \in Nat, NEW S \in SUBSET (0..N), S # {}
  PROVE  Max(S) \in S /\ \A x \in S : x <= Max(S)
<1> DEFINE T == {N - x : x \in S}
<1>1. T \in SUBSET Nat /\ T # {}
  <2>1. \A x \in S : x \in Nat /\ x <= N
    OBVIOUS
  <2>2. \A x \in S : N - x \in Nat
    BY <2>1
  <2> QED BY <2>2
<1>2. PICK m \in T : \A y \in T : m <= y
  BY <1>1, MinOfNats
<1>3. PICK z \in S : m = N - z
  OBVIOUS
<1>4. \A x \in S : x <= z
  <2> TAKE x \in S
  <2>1. N - x \in T
    OBVIOUS
  <2>2. N - z <= N - x
    BY <1>2, <1>3, <2>1
  <2> QED BY <2>2
<1> HIDE DEF T
<1>5. \A x \in S : z >= x
  BY <1>4
<1>6. \A x \in S : Max(S) >= x
  BY <1>5 DEF Max
<1>7. Max(S) \in S
  BY <1>5 DEF Max
<1> QED BY <1>6, <1>7

LEMMA NewFdIsNew ==
  ASSUME IsFiniteSet(DOMAIN fds)
  PROVE  NewFd \in Nat \ {0} /\ NewFd \notin DOMAIN fds
<1> DEFINE n == Cardinality(DOMAIN fds)
           S == 1..(n + 1) \ DOMAIN fds
<1>1. n \in Nat
  BY FS_CardinalityType
<1>2. S # {}
  <2> SUFFICES ASSUME 1..(n + 1) \subseteq DOMAIN fds PROVE FALSE
    OBVIOUS
  <2>1. Cardinality(1..(n + 1)) = n + 1
    BY <1>1, FS_Interval
  <2>2. Cardinality(1..(n + 1)) <= n
    BY FS_Subset
  <2> QED BY <1>1, <2>1, <2>2
<1>3. S \in SUBSET Nat
  BY <1>1
<1>4. NewFd \in S
  BY <1>2, <1>3, MinOfNats DEF NewFd
<1> QED BY <1>1, <1>4

-----------------------------------------------------------------------------
(* readIndex: the chunks a pid gets.                                       *)

LEMMA FirstOfPid ==
  ASSUME NEW map, UnitsTyped(map), NEW p \in Known(map)
  PROVE  FirstOf(map, p) \in DOMAIN map /\ FirstOf(map, p) \in Nat /\ map[FirstOf(map, p)].id = p
<1> DEFINE S == {o \in DOMAIN map : map[o].id = p}
<1>1. S \in SUBSET Nat /\ S # {}
  BY DEF UnitsTyped, Known
<1>2. FirstOf(map, p) \in S
  BY <1>1, MinOfNats DEF FirstOf
<1> QED BY <1>1, <1>2

LEMMA PidsKnown ==
  ASSUME NEW map, UnitsTyped(map)
  PROVE  Known(map) \subseteq Pids /\ IsFiniteSet(Known(map)) /\ Cardinality(Known(map)) \in Nat
<1>1. Known(map) \subseteq Pids
  BY DEF Known, UnitsTyped, Unit
<1> QED BY <1>1, FiniteAssumption, FS_Subset, FS_CardinalityType

LEMMA PlaceOfPid ==
  ASSUME NEW map, UnitsTyped(map)
  PROVE  /\ \A p \in Known(map) : Place(map, p) \in 1..Cardinality(Known(map))
         /\ \A p, q \in Known(map) : Place(map, p) = Place(map, q) => p = q
<1> DEFINE Upto(p) == {q \in Known(map) : FirstOf(map, q) <= FirstOf(map, p)}
<1>1. ASSUME NEW p \in Known(map)
      PROVE  IsFiniteSet(Upto(p)) /\ Place(map, p) = Cardinality(Upto(p)) /\ p \in Upto(p)
                                  /\ Place(map, p) \in Nat /\ Place(map, p) <= Cardinality(Known(map))
  <2>1. Upto(p) \in SUBSET Known(map) /\ IsFiniteSet(Known(map))
    BY PidsKnown
  <2>2. IsFiniteSet(Upto(p)) /\ Cardinality(Upto(p)) <= Cardinality(Known(map))
    BY <2>1, FS_Subset
  <2>3. p \in Upto(p)
    BY FirstOfPid
  <2> QED BY <2>2, <2>3, FS_CardinalityType DEF Place
<1>2. ASSUME NEW p \in Known(map)
      PROVE  Place(map, p) # 0
  <2>1. Cardinality(Upto(p)) # 0
    <3> HIDE DEF Upto
    <3> QED BY <1>1, FS_EmptySet
  <2> QED BY <1>1, <2>1
<1>3. ASSUME NEW p \in Known(map), NEW q \in Known(map), FirstOf(map, p) < FirstOf(map, q)
      PROVE  Place(map, p) # Place(map, q)
  <2>1. Upto(p) \subseteq Upto(q) /\ q \notin Upto(p)
    BY <1>3, FirstOfPid
  <2>2. q \in Upto(q) /\ IsFiniteSet(Upto(q)) /\ Place(map, q) = Cardinality(Upto(q)) /\ Place(map, p) = Cardinality(Upto(p))
    BY <1>1
  <2> HIDE DEF Upto
  <2> QED BY <2>1, <2>2, FS_Subset
<1>4. ASSUME NEW p \in Known(map), NEW q \in Known(map), Place(map, p) = Place(map, q)
      PROVE  p = q
  <2>1. FirstOf(map, p) = FirstOf(map, q)
    BY <1>3, <1>4, FirstOfPid
  <2> QED BY <2>1, FirstOfPid
<1> HIDE DEF Upto
<1>5. \A p \in Known(map) : Place(map, p) \in 1..Cardinality(Known(map))
  <2> TAKE p \in Known(map)
  <2>1. Place(map, p) \in Nat /\ Place(map, p) <= Cardinality(Known(map)) /\ Place(map, p) # 0
    BY <1>1, <1>2
  <2> QED BY <2>1, PidsKnown
<1> QED BY <1>4, <1>5

LEMMA PidOfPlace ==
  ASSUME NEW map, UnitsTyped(map), NEW i \in 1..Cardinality(Known(map))
  PROVE  \E p \in Known(map) : Place(map, p) = i
<1> DEFINE n == Cardinality(Known(map))
           f == [p \in Known(map) |-> Place(map, p)]
<1>1. n \in Nat
  BY PidsKnown
<1>2. f \in Injection(Known(map), 1..n)
  BY PlaceOfPid DEF Injection, IsInjective
<1>3. IsFiniteSet(1..n) /\ Cardinality(1..n) = n
  BY <1>1, FS_Interval
<1>4. f \in Surjection(Known(map), 1..n)
  BY <1>2, <1>3, FS_Injection
<1> QED BY <1>4 DEF Surjection

(* The new chunks are those of the pids, in the places their units get.    *)
Extended(map, chunks, d, new) ==
  /\ new \in Seq(Chunk) /\ Len(new) = Len(chunks) + Cardinality(Known(map))
  /\ \A i \in 1..Len(chunks) : new[i] = chunks[i]
  /\ \A i \in Len(chunks) + 1..Len(new) : new[i].fd = -1
  /\ \A p \in Known(map) :
       /\ Len(chunks) + Place(map, p) \in DOMAIN new
       /\ new[Len(chunks) + Place(map, p)].path = <<d, p>>

LEMMA ChunksOfPids ==
  ASSUME NEW map, UnitsTyped(map), NEW chunks \in Seq(Chunk), NEW d \in Droppings
  PROVE  Extended(map, chunks, d, Chunks(map, chunks, d))
<1> DEFINE n == Cardinality(Known(map))
           c(i) == [path |-> <<d, CHOOSE p \in Known(map) : Place(map, p) = i>>, fd |-> -1]
           more == [i \in 1..n |-> c(i)]
<1>1. n \in Nat /\ Known(map) \subseteq Pids
  BY PidsKnown
<1>2. \A i \in 1..n : c(i) \in Chunk
  BY <1>1, PidOfPlace DEF Chunk, Paths, Fd
<1>3. more \in Seq(Chunk) /\ Len(more) = n
  BY <1>1, <1>2
<1>4. \A p \in Known(map) : c(Place(map, p)).path = <<d, p>>
  BY PlaceOfPid
<1>5. Chunks(map, chunks, d) = chunks \o more
  BY DEF Chunks
<1>6. \A i \in 1..n : c(i).fd = -1
  OBVIOUS
<1> HIDE DEF c
<1>7. \A i \in 1..n : (chunks \o more)[Len(chunks) + i] = c(i)
  BY <1>1, <1>3
<1>8. (chunks \o more) \in Seq(Chunk) /\ Len(chunks \o more) = Len(chunks) + n
  BY <1>1, <1>3
<1>9. \A i \in 1..Len(chunks) : (chunks \o more)[i] = chunks[i]
  BY <1>1, <1>3
<1>10. \A i \in Len(chunks) + 1..Len(chunks) + n : (chunks \o more)[i].fd = -1
  <2> TAKE i \in Len(chunks) + 1..Len(chunks) + n
  <2>1. i - Len(chunks) \in 1..n /\ Len(chunks) + (i - Len(chunks)) = i
    BY <1>1
  <2> QED BY <1>6, <1>7, <2>1
<1>11. \A p \in Known(map) : /\ Len(chunks) + Place(map, p) \in 1..Len(chunks) + n
                             /\ (chunks \o more)[Len(chunks) + Place(map, p)].path = <<d, p>>
  BY <1>1, <1>4, <1>7, PlaceOfPid
<1> HIDE DEF more, n
<1> QED BY <1>5, <1>8, <1>9, <1>10, <1>11 DEF n, Extended

-----------------------------------------------------------------------------
(* readIndex and merge: the units.                                         *)

LEMMA UnitMaps ==
  ASSUME NEW S \in SUBSET Nat, NEW f, f = [o \in S |-> f[o]], \A o \in S : f[o] \in Unit
  PROVE  UnitsTyped(f) /\ DOMAIN f = S
<1>1. DOMAIN f = S
  OBVIOUS
<1> QED BY <1>1 DEF UnitsTyped

LEMMA DroppingOnDisk ==
  ASSUME container \in Containers, NEW d \in Droppings
  PROVE  container[d] \in Seq(Unit)
BY ContainersAssumption

(* The first unit at an offset.                                            *)
LEMMA FirstInDropping ==
  ASSUME container \in Containers, NEW d \in Droppings,
         NEW o, NEW i \in DOMAIN container[d], container[d][i].log = o
  PROVE  /\ First(d, o) \in DOMAIN container[d] /\ container[d][First(d, o)].log = o
         /\ \A k \in 1..(First(d, o) - 1) : container[d][k].log # o
<1> DEFINE S == {k \in DOMAIN container[d] : container[d][k].log = o}
           j == Min(S)
<1>1. container[d] \in Seq(Unit)
  BY DroppingOnDisk
<1>2. S \in SUBSET Nat /\ S # {}
  BY <1>1
<1>3. j \in S /\ \A x \in S : j <= x
  BY <1>2, MinOfNats
<1>4. DOMAIN container[d] = 1..Len(container[d]) /\ Len(container[d]) \in Nat
  BY <1>1
<1>5. ASSUME NEW k \in 1..(j - 1)
      PROVE  container[d][k].log # o
  <2>1. k \in DOMAIN container[d] /\ k < j
    BY <1>3, <1>4
  <2>2. ~(j <= k)
    BY <1>3, <1>4, <2>1
  <2> HIDE DEF j
  <2> QED BY <1>3, <2>1, <2>2
<1>6. First(d, o) = j
  BY DEF First
<1> HIDE DEF j
<1> QED BY <1>3, <1>5, <1>6

LEMMA DecodedUnits ==
  ASSUME container \in Containers, NEW d \in Droppings, NEW map, UnitsTyped(map),
         \A o \in DOMAIN map : map[o].log = o, AllFirst(map)
  PROVE  LET new == Decoded(map, d) IN
         /\ UnitsTyped(new) /\ AllFirst(new) /\ Covers(new, d) /\ DOMAIN map \subseteq DOMAIN new
         /\ \A o \in DOMAIN new : /\ new[o].log = o
                                  /\ new[o].from = d \/ (o \in DOMAIN map /\ new[o] = map[o])
<1> DEFINE S == DOMAIN map \cup {container[d][i].log : i \in DOMAIN container[d]}
           fresh(o) == [container[d][First(d, o)] EXCEPT !.from = d]
           new == [o \in S |-> IF o \in DOMAIN map THEN map[o] ELSE fresh(o)]
<1>1. Decoded(map, d) = new
  BY DEF Decoded
<1>2. container[d] \in Seq(Unit) /\ \A i \in DOMAIN container[d] : container[d][i] \in Unit
  BY DroppingOnDisk
<1>3. S \in SUBSET Nat
  BY <1>2 DEF UnitsTyped, Unit
<1>4. ASSUME NEW o \in S, o \notin DOMAIN map
      PROVE  fresh(o) \in Unit /\ fresh(o).log = o /\ fresh(o).from = d /\ FirstAt(o, fresh(o))
  <2>1. PICK i \in DOMAIN container[d] : container[d][i].log = o
    BY <1>4
  <2>2. /\ First(d, o) \in DOMAIN container[d] /\ container[d][First(d, o)].log = o
        /\ \A k \in 1..(First(d, o) - 1) : container[d][k].log # o
    BY <2>1, FirstInDropping
  <2>3. container[d][First(d, o)] \in Unit
    BY <1>2, <2>2
  <2>4. /\ fresh(o) \in Unit /\ fresh(o).log = o /\ fresh(o).from = d
        /\ fresh(o).id = container[d][First(d, o)].id /\ fresh(o).phy = container[d][First(d, o)].phy
    BY <2>2, <2>3 DEF Unit
  <2>5. FirstAt(o, fresh(o))
    <3> HIDE DEF fresh
    <3> QED BY <2>2, <2>4 DEF FirstAt
  <2> QED BY <2>4, <2>5
<1> HIDE DEF fresh
<1>5. \A o \in S : new[o] \in Unit
  BY <1>4 DEF UnitsTyped
<1>6. UnitsTyped(new) /\ DOMAIN new = S
  <2> HIDE DEF S
  <2> QED BY <1>3, <1>5, UnitMaps
<1>7. AllFirst(new)
  BY <1>4, <1>6 DEF AllFirst
<1>8. Covers(new, d)
  BY <1>6 DEF Covers
<1>9. \A o \in DOMAIN new : new[o].log = o /\ (new[o].from = d \/ (o \in DOMAIN map /\ new[o] = map[o]))
  BY <1>4, <1>6
<1> HIDE DEF new
<1>10. DOMAIN map \subseteq DOMAIN new
  BY <1>6
<1> QED BY <1>1, <1>6, <1>7, <1>8, <1>9, <1>10

(* The loop of readIndex changes the chunks of the units and nothing else. *)
LEMMA RepointedUnits ==
  ASSUME NEW map, UnitsTyped(map), NEW chunks \in Seq(Chunk), NEW d \in Droppings,
         \A o \in DOMAIN map : map[o].log = o, AllFirst(map)
  PROVE  LET new == Repointed(map, chunks)
             more == Chunks(map, chunks, d)
         IN  /\ UnitsTyped(new) /\ DOMAIN new = DOMAIN map /\ Filed(new, more) /\ AllFirst(new)
             /\ \A o \in DOMAIN map : new[o].from = map[o].from
             /\ (\A o \in DOMAIN map : map[o].from = d) => Home(new, more)
<1> DEFINE at(o) == Len(chunks) + Place(map, map[o].id)
           u(o) == [map[o] EXCEPT !.chunk = at(o)]
           new == [o \in DOMAIN map |-> u(o)]
           more == Chunks(map, chunks, d)
<1>1. Repointed(map, chunks) = new
  BY DEF Repointed
<1>2. ASSUME NEW o \in DOMAIN map
      PROVE  at(o) \in DOMAIN more /\ at(o) \in Nat /\ more[at(o)].path = <<d, map[o].id>>
  <2>1. map[o].id \in Known(map)
    BY DEF Known
  <2>2. Place(map, map[o].id) \in Nat /\ Len(chunks) \in Nat
    BY <2>1, PlaceOfPid, PidsKnown
  <2>3. at(o) \in Nat
    BY <2>2
  <2>4. Len(chunks) + Place(map, map[o].id) \in DOMAIN more
        /\ more[Len(chunks) + Place(map, map[o].id)].path = <<d, map[o].id>>
    <3> HIDE DEF at
    <3>1. Extended(map, chunks, d, more)
      BY ChunksOfPids
    <3> QED BY <2>1, <3>1 DEF Extended
  <2> QED BY <2>3, <2>4
<1> HIDE DEF at, more
<1>3. ASSUME NEW o \in DOMAIN map
      PROVE  /\ u(o) \in Unit /\ u(o).chunk = at(o) /\ u(o).log = map[o].log /\ u(o).from = map[o].from
             /\ u(o).id = map[o].id /\ u(o).phy = map[o].phy
  BY <1>2 DEF UnitsTyped, Unit
<1> HIDE DEF u
<1>4. UnitsTyped(new) /\ DOMAIN new = DOMAIN map
  BY <1>3, UnitMaps DEF UnitsTyped
<1>5. Filed(new, more)
  BY <1>2, <1>3, <1>4 DEF Filed
<1>6. AllFirst(new)
  BY <1>3, <1>4 DEF AllFirst, FirstAt
<1>7. ASSUME \A o \in DOMAIN map : map[o].from = d
      PROVE  Home(new, more)
  BY <1>2, <1>3, <1>4, <1>7 DEF Home
<1>8. \A o \in DOMAIN map : new[o].from = map[o].from
  BY <1>3
<1> HIDE DEF new
<1> QED BY <1>1, <1>4, <1>5, <1>6, <1>7, <1>8 DEF more

(* What readIndex of dropping d leaves of an index.                        *)
ReadFrom(map, chunks, d, r) ==
  /\ UnitsTyped(r.map) /\ r.chunks \in Seq(Chunk) /\ r.ret \in {0, -1}
  /\ Filed(r.map, r.chunks) /\ AllFirst(r.map)
  /\ Unopened(chunks) => Unopened(r.chunks)
  /\ r.lost \/ Covers(r.map, d)
  /\ DOMAIN map \subseteq DOMAIN r.map
  /\ \A o \in DOMAIN r.map : r.map[o].from = d \/ (o \in DOMAIN map /\ r.map[o].from = map[o].from)
  /\ Home(map, chunks) /\ (DOMAIN map = {} \/ container[d] = << >>) => Home(r.map, r.chunks)

LEMMA WholeRead ==
  ASSUME container \in Containers, NEW d \in Droppings, NEW map, UnitsTyped(map),
         NEW chunks \in Seq(Chunk), Filed(map, chunks), AllFirst(map)
  PROVE  LET new == Repointed(Decoded(map, d), chunks)
             more == Chunks(Decoded(map, d), chunks, d)
         IN  /\ UnitsTyped(new) /\ more \in Seq(Chunk) /\ Filed(new, more) /\ AllFirst(new)
             /\ Unopened(chunks) => Unopened(more)
             /\ Covers(new, d) /\ DOMAIN map \subseteq DOMAIN new
             /\ \A o \in DOMAIN new : new[o].from = d \/ (o \in DOMAIN map /\ new[o].from = map[o].from)
             /\ DOMAIN map = {} => Home(new, more)
<1> DEFINE dec == Decoded(map, d)
           new == Repointed(dec, chunks)
           more == Chunks(dec, chunks, d)
<1>1. /\ UnitsTyped(dec) /\ AllFirst(dec) /\ Covers(dec, d) /\ DOMAIN map \subseteq DOMAIN dec
      /\ \A o \in DOMAIN dec : /\ dec[o].log = o
                               /\ dec[o].from = d \/ (o \in DOMAIN map /\ dec[o] = map[o])
  BY DecodedUnits DEF Filed
<1> HIDE DEF dec
<1>2. /\ UnitsTyped(new) /\ DOMAIN new = DOMAIN dec /\ Filed(new, more) /\ AllFirst(new)
      /\ \A o \in DOMAIN dec : new[o].from = dec[o].from
      /\ (\A o \in DOMAIN dec : dec[o].from = d) => Home(new, more)
  BY <1>1, RepointedUnits
<1>3. /\ more \in Seq(Chunk)
      /\ \A i \in 1..Len(chunks) : more[i] = chunks[i]
      /\ \A i \in Len(chunks) + 1..Len(more) : more[i].fd = -1
  <2>1. Extended(dec, chunks, d, more)
    BY <1>1, ChunksOfPids
  <2> HIDE DEF more
  <2> QED BY <2>1 DEF Extended
<1> HIDE DEF new, more
<1>4. Unopened(chunks) => Unopened(more)
  BY <1>3 DEF Unopened
<1>5. Covers(new, d)
  BY <1>1, <1>2 DEF Covers
<1>6. \A o \in DOMAIN new : new[o].from = d \/ (o \in DOMAIN map /\ new[o].from = map[o].from)
  BY <1>1, <1>2
<1>7. DOMAIN map = {} => Home(new, more)
  BY <1>1, <1>2
<1> QED BY <1>1, <1>2, <1>3, <1>4, <1>5, <1>6, <1>7 DEF new, more, dec

LEMMA ReadingsRead ==
  ASSUME container \in Containers, NEW d \in Droppings, NEW map, UnitsTyped(map),
         NEW chunks \in Seq(Chunk), Filed(map, chunks), AllFirst(map),
         NEW r \in Readings(map, chunks, d)
  PROVE  ReadFrom(map, chunks, d, r)
<1> DEFINE new == Repointed(Decoded(map, d), chunks)
           more == Chunks(Decoded(map, d), chunks, d)
<1>1. \/ r.map = map /\ r.chunks = chunks /\ r.ret = 0 /\ (r.lost \/ container[d] = << >>)
      \/ r.map = new /\ r.chunks = more /\ r.ret \in {0, -1} /\ container[d] # << >>
  BY DEF Readings
<1>2. CASE r.map = map /\ r.chunks = chunks /\ r.ret = 0 /\ (r.lost \/ container[d] = << >>)
  <2>1. r.lost \/ Covers(map, d)
    BY <1>2 DEF Covers
  <2>2. \A o \in DOMAIN r.map : o \in DOMAIN map /\ r.map[o].from = map[o].from
    BY <1>2
  <2> QED BY <1>2, <2>1, <2>2 DEF ReadFrom
<1>3. CASE r.map = new /\ r.chunks = more /\ r.ret \in {0, -1} /\ container[d] # << >>
  BY <1>3, WholeRead DEF ReadFrom
<1> QED BY <1>1, <1>2, <1>3

(* merge: the units of both, each with its own chunk.                      *)
LEMMA MergedUnits ==
  ASSUME NEW map, UnitsTyped(map), NEW chunks \in Seq(Chunk), Filed(map, chunks), AllFirst(map),
         NEW other, UnitsTyped(other), NEW more \in Seq(Chunk), Filed(other, more), AllFirst(other)
  PROVE  LET new == Merged(map, chunks, other)
             both == chunks \o more
         IN  /\ UnitsTyped(new) /\ DOMAIN new = DOMAIN map \cup DOMAIN other
             /\ both \in Seq(Chunk) /\ Filed(new, both) /\ AllFirst(new)
             /\ Home(map, chunks) /\ Home(other, more) => Home(new, both)
             /\ Unopened(chunks) /\ Unopened(more) => Unopened(both)
<1> DEFINE u(o) == [other[o] EXCEPT !.chunk = @ + Len(chunks)]
           both == chunks \o more
           S == DOMAIN map \cup DOMAIN other
           new == [o \in S |-> IF o \in DOMAIN map THEN map[o] ELSE u(o)]
<1>1. Merged(map, chunks, other) = new
  BY DEF Merged
<1>2. ASSUME NEW o \in DOMAIN other
      PROVE  /\ u(o) \in Unit /\ u(o).log = other[o].log /\ u(o).from = other[o].from
             /\ u(o).id = other[o].id /\ u(o).phy = other[o].phy
             /\ u(o).chunk = other[o].chunk + Len(chunks)
  <2>1. other[o] \in Unit /\ Len(chunks) \in Nat
    BY DEF UnitsTyped
  <2>2. other[o].chunk + Len(chunks) \in Nat
    BY <2>1 DEF Unit
  <2> QED BY <2>1, <2>2 DEF Unit
<1>3. /\ both \in Seq(Chunk) /\ Len(both) = Len(chunks) + Len(more)
      /\ \A i \in 1..Len(chunks) : both[i] = chunks[i]
      /\ \A i \in 1..Len(more) : i + Len(chunks) \in DOMAIN both /\ both[i + Len(chunks)] = more[i]
  OBVIOUS
<1> HIDE DEF both
<1>4. ASSUME NEW o \in DOMAIN other
      PROVE  /\ u(o).chunk \in DOMAIN both /\ both[u(o).chunk] = more[other[o].chunk]
  <2>1. other[o].chunk \in 1..Len(more)
    BY DEF Filed
  <2> QED BY <1>2, <1>3, <2>1
<1> HIDE DEF u
<1>5. \A o \in S : new[o] \in Unit
  BY <1>2 DEF UnitsTyped
<1>6. S \in SUBSET Nat
  BY DEF UnitsTyped
<1>7. UnitsTyped(new) /\ DOMAIN new = S
  <2> HIDE DEF S
  <2> QED BY <1>5, <1>6, UnitMaps, SMTT(30)
<1>8. \A o \in DOMAIN map : map[o].chunk \in DOMAIN both /\ both[map[o].chunk] = chunks[map[o].chunk]
  BY <1>3 DEF Filed
<1>9. Filed(new, both)
  BY <1>2, <1>4, <1>7, <1>8 DEF Filed
<1>10. AllFirst(new)
  BY <1>2, <1>7 DEF AllFirst, FirstAt
<1>11. Home(map, chunks) /\ Home(other, more) => Home(new, both)
  BY <1>2, <1>4, <1>7, <1>8 DEF Home
<1>12. ASSUME Unopened(chunks), Unopened(more)
       PROVE  Unopened(both)
  <2> SUFFICES ASSUME NEW i \in DOMAIN both PROVE both[i].fd = -1
    BY DEF Unopened
  <2>1. CASE i \in 1..Len(chunks)
    BY <1>3, <1>12, <2>1 DEF Unopened
  <2>2. CASE i \notin 1..Len(chunks)
    <3>1. i - Len(chunks) \in 1..Len(more) /\ i = (i - Len(chunks)) + Len(chunks)
      BY <1>3, <2>2
    <3>2. both[i] = more[i - Len(chunks)]
      BY <1>3, <3>1
    <3>3. more[i - Len(chunks)].fd = -1
      BY <1>12, <3>1 DEF Unopened
    <3> QED BY <3>2, <3>3
  <2> QED BY <2>1, <2>2
<1> HIDE DEF new
<1> QED BY <1>1, <1>3, <1>7, <1>9, <1>10, <1>11, <1>12 DEF both

-----------------------------------------------------------------------------
(* The steps of the aggregation.                                           *)

LEMMA WorkerOne == 1 \in Workers \/ PoolSizes = {}
BY PoolAssumption, FiniteAssumption, FS_CardinalityType

LEMMA IdleTyped == ThreadTyped(Idle) /\ ThreadTyped([Idle EXCEPT !.at = "take"])
<1>1. UnitsTyped(NoUnits)
  BY DEF UnitsTyped, NoUnits
<1> QED BY <1>1 DEF ThreadTyped, Idle

(* A thread that a step is not a step of.                                  *)
LEMMA OtherThread ==
  ASSUME NEW w \in Workers, ThreadOK(w), thread'[w] = thread[w], container' = container,
         missed \subseteq missed', tasks' \subseteq tasks
  PROVE  ThreadOK(w)'
<1>1. PICK t : t = thread[w] /\ t = thread'[w]
  OBVIOUS
<1>2. Home(t.map, t.chunks)' = Home(t.map, t.chunks) /\ AllFirst(t.map)' = AllFirst(t.map)
  BY DEF Home, AllFirst, FirstAt
<1>3. Filed(t.map, t.chunks)' = Filed(t.map, t.chunks) /\ Unopened(t.chunks)' = Unopened(t.chunks)
  BY DEF Filed, Unopened
<1>4. Covers(t.map, t.dropping)' = Covers(t.map, t.dropping)
  BY DEF Covers
<1>5. tasks = {} => tasks' = {}
  OBVIOUS
<1> QED BY <1>1, <1>2, <1>3, <1>4, <1>5 DEF ThreadOK

LEMMA IdleThread ==
  ASSUME NEW w \in Workers, thread'[w] \in {Idle, [Idle EXCEPT !.at = "take"]}
  PROVE  ThreadOK(w)'
BY DEF ThreadOK, Idle

LEMMA SameUnits ==
  ASSUME UnitsOK, container' = container, threadpool_size' = threadpool_size,
         dese_map' = dese_map, chunk_map' = chunk_map
  PROVE  UnitsOK'
BY DEF UnitsOK, Filed, Home, AllFirst, FirstAt, Repointing

(* All of the aggregation.                                                 *)
Agg == AggTypeOK /\ Aggregated

LEMMA AggList ==
  ASSUME Agg, List
  PROVE  Agg'
<1>1. /\ phase = "list" /\ phase' = "run" /\ tasks' \subseteq Droppings /\ missed' = Droppings \ tasks'
      /\ container' = container /\ threadpool_size' = threadpool_size /\ dese_map' = dese_map
      /\ chunk_map' = chunk_map /\ ret' = ret /\ thread' = thread
  BY DEF List
<1>2. DOMAIN dese_map = {} /\ ret = 0 /\ \A w \in Workers : thread[w] = Idle
  BY <1>1 DEF Agg, Aggregated, PhasesOK
<1>3. AggTypeOK'
  BY <1>1 DEF Agg, AggTypeOK, UnitsTyped, ThreadTyped
<1>4. PhasesOK'
  BY <1>1, <1>2 DEF PhasesOK
<1>5. ThreadsOK'
  BY <1>1, <1>2, IdleThread DEF ThreadsOK
<1>6. UnitsOK'
  BY <1>1, SameUnits DEF Agg, Aggregated
<1>7. DroppingsOK'
  BY <1>1 DEF DroppingsOK, Held, Built
<1> QED BY <1>3, <1>4, <1>5, <1>6, <1>7 DEF Agg, Aggregated

(* Two droppings with units make readIndex run twice on the shared index.  *)
LEMMA TwoDroppings ==
  ASSUME NEW d \in Droppings, NEW e \in Droppings, d # e,
         container[d] # << >>, container[e] # << >>, threadpool_size = 1
  PROVE  Repointing
<1> DEFINE S == Droppings \ {x \in Droppings : container[x] = << >>}
<1>1. {d, e} \in SUBSET S /\ IsFiniteSet(S)
  BY FiniteAssumption, FS_Subset
<1>2. Cardinality({d, e}) = 2
  <2>1. IsFiniteSet({d}) /\ Cardinality({d}) = 1
    BY FS_Singleton
  <2>2. {d} \cup {e} = {d, e} /\ e \notin {d}
    OBVIOUS
  <2> QED BY <2>1, <2>2, FS_AddElement
<1>3. Cardinality({d, e}) <= Cardinality(S) /\ Cardinality(S) \in Nat
  <2> HIDE DEF S
  <2> QED BY <1>1, FS_Subset, FS_CardinalityType
<1> QED BY <1>2, <1>3 DEF Repointing

LEMMA LastTask ==
  ASSUME tasks \subseteq Droppings, NEW d \in tasks, Cardinality(tasks) <= 1
  PROVE  tasks \ {d} = {}
<1>1. IsFiniteSet(tasks) /\ Cardinality(tasks) \in Nat
  BY FiniteAssumption, FS_Subset, FS_CardinalityType
<1>2. Cardinality(tasks) # 0
  BY <1>1, FS_EmptySet
<1>3. Cardinality(tasks) = 1
  BY <1>1, <1>2
<1>4. \E x : tasks = {x}
  BY <1>1, <1>3, FS_Singleton
<1> QED BY <1>4

(* The index was empty, unless the only dropping with units is read.       *)
LEMMA FirstReading ==
  ASSUME Agg, phase = "run", OneByOne, NEW d \in tasks, ~Repointing
  PROVE  DOMAIN dese_map = {} \/ container[d] = << >>
<1>1. CASE threadpool_size # 1
  BY <1>1 DEF Agg, Aggregated, PhasesOK
<1>2. CASE threadpool_size = 1
  <2> SUFFICES ASSUME NEW o \in DOMAIN dese_map, container[d] # << >> PROVE FALSE
    OBVIOUS
  <2>1. PICK e \in Droppings : dese_map[o].from = e /\ \E j \in DOMAIN container[e] : TRUE
    BY DEF Agg, Aggregated, UnitsOK, AllFirst, FirstAt
  <2>2. container[e] # << >>
    BY <2>1
  <2>3. e \notin tasks /\ d \in Droppings
    BY <2>1 DEF Agg, Aggregated, PhasesOK, AggTypeOK
  <2> QED BY <1>2, <2>2, <2>3, TwoDroppings
<1> QED BY <1>1, <1>2

LEMMA AggReadOneByOne ==
  ASSUME Agg, ReadOneByOne
  PROVE  Agg' /\ (Unopened(chunk_map) => Unopened(chunk_map)')
<1>1. phase = "run" /\ OneByOne /\ container' = container /\ threadpool_size' = threadpool_size /\ thread' = thread
  BY DEF ReadOneByOne
<1> DEFINE Reads(d, r) ==
             /\ tasks' = tasks \ {d}
             /\ dese_map' = r.map /\ chunk_map' = r.chunks /\ ret' = r.ret
             /\ missed' = (IF r.lost THEN missed \cup {d} ELSE missed)
             /\ phase' = (IF r.ret # 0 THEN "done" ELSE phase)
<1>2. PICK d \in tasks : \E r \in Readings(dese_map, chunk_map, d) : Reads(d, r)
  BY DEF ReadOneByOne
<1>3. PICK r \in Readings(dese_map, chunk_map, d) : Reads(d, r)
  BY <1>2
<1>4. ReadFrom(dese_map, chunk_map, d, r) /\ d \in Droppings
  <2>1. /\ container \in Containers /\ d \in Droppings /\ UnitsTyped(dese_map) /\ chunk_map \in Seq(Chunk)
        /\ Filed(dese_map, chunk_map) /\ AllFirst(dese_map)
    BY DEF Agg, Aggregated, AggTypeOK, UnitsOK
  <2> QED BY <2>1, ReadingsRead
<1>5. ret = 0 /\ \A w \in Workers : thread[w] = Idle
  BY <1>1 DEF Agg, Aggregated, PhasesOK
<1>6. AggTypeOK'
  <2>1. UnitsTyped(r.map) /\ r.chunks \in Seq(Chunk) /\ r.ret \in {0, -1}
    BY <1>4 DEF ReadFrom
  <2>2. UnitsTyped(dese_map)'
    BY <1>3, <2>1 DEF UnitsTyped
  <2> QED BY <1>1, <1>3, <1>4, <2>1, <2>2 DEF Agg, AggTypeOK, ThreadTyped, UnitsTyped
<1>7. PhasesOK'
  <2>1. phase' \in {"run", "done"} /\ (phase' = "run" => ret' = 0)
    BY <1>1, <1>3
  <2>2. \A o \in DOMAIN r.map : r.map[o].from \notin tasks \ {d}
    BY <1>1, <1>4 DEF ReadFrom, Agg, Aggregated, PhasesOK
  <2>3. threadpool_size # 1 => tasks \ {d} = {}
    BY <1>1, LastTask DEF OneByOne, Agg, AggTypeOK
  <2> QED BY <1>1, <1>3, <1>5, <2>1, <2>2, <2>3 DEF PhasesOK
<1>8. ThreadsOK'
  BY <1>1, <1>5, IdleThread DEF ThreadsOK
<1>9. UnitsOK'
  <2>1. Filed(r.map, r.chunks) /\ AllFirst(r.map)
    BY <1>4 DEF ReadFrom
  <2>2. ~Repointing => Home(r.map, r.chunks)
    BY <1>1, <1>4, FirstReading DEF ReadFrom, Agg, Aggregated, UnitsOK
  <2>3. Repointing' = Repointing
    BY <1>1 DEF Repointing
  <2>4. AllFirst(dese_map)'
    BY <1>1, <1>3, <2>1 DEF AllFirst, FirstAt
  <2> QED BY <1>3, <2>1, <2>2, <2>3, <2>4 DEF UnitsOK, Filed, Home
<1>10. DroppingsOK'
  <2>1. ~Built'
    BY <1>1, <1>3 DEF Built
  <2>2. ASSUME NEW x \in Droppings
        PROVE  x \in tasks \ {d} \/ x \in missed' \/ Covers(r.map, x)
    <3>1. r.lost \/ Covers(r.map, d)
      BY <1>4 DEF ReadFrom
    <3>2. x \in tasks \/ x \in missed \/ Covers(dese_map, x)
      BY <1>1, <1>5 DEF Agg, Aggregated, DroppingsOK, Held, Idle
    <3>3. Covers(dese_map, x) => Covers(r.map, x)
      BY <1>4 DEF ReadFrom, Covers
    <3> QED BY <1>3, <3>1, <3>2, <3>3
  <2>3. \A x \in Droppings : x \in tasks' \/ x \in missed' \/ Covers(dese_map, x)'
    BY <1>1, <1>3, <2>2 DEF Covers
  <2> QED BY <2>1, <2>3 DEF DroppingsOK, Held
<1>11. Unopened(chunk_map) => Unopened(chunk_map)'
  BY <1>3, <1>4 DEF ReadFrom, Unopened
<1> QED BY <1>6, <1>7, <1>8, <1>9, <1>10, <1>11 DEF Agg, Aggregated

LEMMA AggDoneOneByOne ==
  ASSUME Agg, DoneOneByOne
  PROVE  Agg'
<1>1. /\ phase = "run" /\ tasks = {} /\ phase' = "done"
      /\ container' = container /\ threadpool_size' = threadpool_size /\ dese_map' = dese_map
      /\ chunk_map' = chunk_map /\ ret' = ret /\ thread' = thread /\ tasks' = tasks /\ missed' = missed
  BY DEF DoneOneByOne
<1>2. \A w \in Workers : thread[w] = Idle
  BY <1>1 DEF Agg, Aggregated, PhasesOK
<1>3. AggTypeOK'
  BY <1>1 DEF Agg, AggTypeOK, UnitsTyped, ThreadTyped
<1>4. PhasesOK'
  BY <1>1, <1>2 DEF PhasesOK
<1>5. ThreadsOK'
  BY <1>1, <1>2, IdleThread DEF ThreadsOK
<1>6. UnitsOK'
  BY <1>1, SameUnits DEF Agg, Aggregated
<1>7. DroppingsOK'
  <2>1. \A d \in Droppings \ missed : Covers(dese_map, d)
    BY <1>1, <1>2 DEF Agg, Aggregated, DroppingsOK, Held, Idle
  <2> QED BY <1>1, <2>1 DEF DroppingsOK, Covers
<1> QED BY <1>3, <1>4, <1>5, <1>6, <1>7 DEF Agg, Aggregated

LEMMA AggStartPool ==
  ASSUME Agg, StartPool
  PROVE  Agg'
<1> DEFINE n == Min2(threadpool_size, Cardinality(tasks))
<1>1. /\ phase = "run" /\ ~OneByOne /\ phase' = "pool"
      /\ container' = container /\ threadpool_size' = threadpool_size /\ dese_map' = dese_map
      /\ chunk_map' = chunk_map /\ ret' = ret /\ tasks' = tasks /\ missed' = missed
      /\ thread' = [w \in Workers |-> IF w <= n THEN [Idle EXCEPT !.at = "take"] ELSE Idle]
  BY DEF StartPool
<1>2. ret = 0 /\ \A w \in Workers : thread[w] = Idle
  BY <1>1 DEF Agg, Aggregated, PhasesOK
<1>3. 1 \in Workers /\ 1 <= n
  <2>1. threadpool_size \in Workers /\ Workers = 1..Cardinality(Workers) /\ Cardinality(Workers) \in Nat
    BY PoolAssumption, FiniteAssumption, FS_CardinalityType DEF Agg, AggTypeOK
  <2>2. Cardinality(tasks) \in Nat /\ ~(Cardinality(tasks) <= 1)
    BY <1>1, FiniteAssumption, FS_Subset, FS_CardinalityType DEF OneByOne, Agg, AggTypeOK
  <2> QED BY <2>1, <2>2 DEF Min2
<1>4. \A w \in Workers : thread'[w] \in {Idle, [Idle EXCEPT !.at = "take"]}
  BY <1>1
<1>5. thread'[1].at = "take"
  BY <1>1, <1>3 DEF Idle
<1> HIDE DEF n
<1>6. AggTypeOK'
  <2>1. \A w \in Workers : ThreadTyped(thread'[w])
    BY <1>4, IdleTyped
  <2>2. \A w \in Workers : ThreadTyped(thread[w])'
    BY <2>1 DEF ThreadTyped, UnitsTyped
  <2>3. thread' = [w \in Workers |-> thread'[w]]
    BY <1>1
  <2> QED BY <1>1, <2>2, <2>3 DEF Agg, AggTypeOK, UnitsTyped
<1>7. PhasesOK'
  BY <1>1, <1>2, <1>5 DEF PhasesOK
<1>8. ThreadsOK'
  BY <1>4, IdleThread DEF ThreadsOK
<1>9. UnitsOK'
  BY <1>1, SameUnits DEF Agg, Aggregated
<1>10. DroppingsOK'
  <2>1. \A d \in Droppings : d \in tasks \/ d \in missed \/ Covers(dese_map, d)
    BY <1>1, <1>2 DEF Agg, Aggregated, DroppingsOK, Held, Idle
  <2> QED BY <1>1, <2>1 DEF DroppingsOK, Covers, Held, Built
<1> QED BY <1>6, <1>7, <1>8, <1>9, <1>10 DEF Agg, Aggregated

(* A thread is at work only in a pool.                                     *)
LEMMA InPool ==
  ASSUME Agg, NEW w \in Workers, thread[w].at # "idle"
  PROVE  phase = "pool" /\ ret = 0 /\ DOMAIN thread = Workers /\ ThreadTyped(thread[w])
BY DEF Agg, AggTypeOK, Aggregated, PhasesOK, Idle

(* A step of thread w, which stays at work, in a pool.                     *)
LEMMA OneThread ==
  ASSUME Agg, NEW w \in Workers, thread[w].at # "idle", NEW t, thread' = [thread EXCEPT ![w] = t],
         ThreadTyped(t), t.at # "idle", ThreadOK(w)',
         container' = container, threadpool_size' = threadpool_size, phase' = phase, ret' = ret,
         missed \subseteq missed', missed' \subseteq Droppings, tasks' \subseteq tasks
  PROVE  /\ thread'[w] = t /\ \A v \in Workers \ {w} : thread'[v] = thread[v]
         /\ thread' = [v \in Workers |-> thread'[v]] /\ \A v \in Workers : ThreadTyped(thread'[v])
         /\ PhasesOK' /\ ThreadsOK'
<1>1. phase = "pool" /\ ret = 0 /\ DOMAIN thread = Workers
  BY InPool
<1>2. /\ thread'[w] = t /\ \A v \in Workers \ {w} : thread'[v] = thread[v]
      /\ thread' = [v \in Workers |-> thread'[v]]
  BY <1>1
<1>3. \A v \in Workers : ThreadTyped(thread'[v])
  BY <1>2 DEF Agg, AggTypeOK
<1>4. thread'[1].at # "idle"
  <2>1. 1 \in Workers
    BY WorkerOne DEF Agg, AggTypeOK
  <2>2. thread[1].at # "idle"
    BY <1>1 DEF Agg, Aggregated, PhasesOK
  <2> QED BY <1>2, <2>1, <2>2
<1>5. PhasesOK'
  BY <1>1, <1>4 DEF PhasesOK
<1>6. \A v \in Workers : ThreadOK(v)'
  <2> TAKE v \in Workers
  <2>1. CASE v = w
    BY <2>1
  <2>2. CASE v # w
    <3>1. ThreadOK(v) /\ thread'[v] = thread[v]
      BY <1>2, <2>2 DEF Agg, Aggregated, ThreadsOK
    <3> QED BY <3>1, OtherThread
  <2> QED BY <2>1, <2>2
<1>7. ThreadsOK'
  BY <1>6 DEF ThreadsOK
<1> QED BY <1>2, <1>3, <1>5, <1>7

LEMMA TypedKept ==
  ASSUME Agg, \A v \in Workers : ThreadTyped(thread'[v]), thread' = [v \in Workers |-> thread'[v]],
         container' = container, threadpool_size' = threadpool_size, phase' = phase, ret' = ret,
         missed' \subseteq Droppings, tasks' \subseteq tasks,
         UnitsTyped(dese_map)', chunk_map' \in Seq(Chunk)
  PROVE  AggTypeOK'
<1>1. \A v \in Workers : ThreadTyped(thread[v])'
  BY DEF ThreadTyped, UnitsTyped
<1> QED BY <1>1 DEF Agg, AggTypeOK

LEMMA AggTakeTask ==
  ASSUME Agg, NEW w \in Workers, TakeTask(w)
  PROVE  Agg'
<1>1. /\ thread[w].at = "take"
      /\ container' = container /\ threadpool_size' = threadpool_size /\ dese_map' = dese_map
      /\ chunk_map' = chunk_map /\ phase' = phase /\ ret' = ret /\ missed' = missed
  BY DEF TakeTask
<1>2. PICK t : /\ thread' = [thread EXCEPT ![w] = t] /\ ThreadTyped(t) /\ t.ret = 0
               /\ \/ t.at = "exit" /\ tasks = {} /\ tasks' = {}
                  \/ t.at = "read" /\ t.dropping \in tasks /\ tasks' = tasks \ {t.dropping}
  <2>1. ThreadTyped(thread[w]) /\ thread[w].ret = 0
    BY <1>1, InPool DEF Agg, Aggregated, ThreadsOK, ThreadOK
  <2>2. CASE tasks = {} /\ thread' = [thread EXCEPT ![w].at = "exit"] /\ UNCHANGED tasks
    <3> DEFINE t == [thread[w] EXCEPT !.at = "exit"]
    <3>1. ThreadTyped(t) /\ t.ret = 0 /\ t.at = "exit"
      BY <2>1 DEF ThreadTyped
    <3>2. thread' = [thread EXCEPT ![w] = t]
      BY <2>2
    <3> HIDE DEF t
    <3> QED BY <2>2, <3>1, <3>2
  <2>3. ASSUME NEW d \in tasks, tasks' = tasks \ {d},
               thread' = [thread EXCEPT ![w].at = "read", ![w].dropping = d]
        PROVE  \E t : /\ thread' = [thread EXCEPT ![w] = t] /\ ThreadTyped(t) /\ t.ret = 0
                      /\ t.at = "read" /\ t.dropping \in tasks /\ tasks' = tasks \ {t.dropping}
    <3> DEFINE u == [thread[w] EXCEPT !.at = "read"]
               t == [u EXCEPT !.dropping = d]
    <3>1. ThreadTyped(t) /\ t.ret = 0 /\ t.at = "read" /\ t.dropping = d
      <4>1. d \in Droppings
        BY DEF Agg, AggTypeOK
      <4>2. ThreadTyped(u) /\ u.ret = 0 /\ u.at = "read"
        BY <2>1 DEF ThreadTyped
      <4> HIDE DEF u
      <4> QED BY <4>1, <4>2 DEF ThreadTyped
    <3>2. thread' = [thread EXCEPT ![w] = t]
      <4>1. w \in DOMAIN thread
        BY <1>1, InPool
      <4> QED BY <2>3, <4>1
    <3> HIDE DEF t
    <3> QED BY <2>3, <3>1, <3>2
  <2> QED BY <2>2, <2>3 DEF TakeTask
<1>3. w \in DOMAIN thread /\ phase = "pool"
  BY <1>1, InPool
<1>4. thread'[w] = t /\ tasks' \subseteq tasks
  BY <1>2, <1>3
<1>5. ThreadOK(w)'
  BY <1>2, <1>4 DEF ThreadOK, Agg, AggTypeOK
<1>6. /\ \A v \in Workers \ {w} : thread'[v] = thread[v]
      /\ thread' = [v \in Workers |-> thread'[v]] /\ \A v \in Workers : ThreadTyped(thread'[v])
      /\ PhasesOK' /\ ThreadsOK'
  <2>1. missed' \subseteq Droppings /\ thread[w].at # "idle" /\ t.at # "idle"
    BY <1>1, <1>2 DEF Agg, AggTypeOK
  <2> QED BY <1>1, <1>2, <1>4, <1>5, <2>1, OneThread
<1>7. AggTypeOK'
  <2>1. UnitsTyped(dese_map)' /\ chunk_map' \in Seq(Chunk) /\ missed' \subseteq Droppings
    BY <1>1 DEF Agg, AggTypeOK, UnitsTyped
  <2> QED BY <1>1, <1>4, <1>6, <2>1, TypedKept
<1>8. UnitsOK'
  BY <1>1, SameUnits DEF Agg, Aggregated
<1>9. DroppingsOK'
  <2>1. \A d \in Droppings : Held(d)
    BY <1>3 DEF Agg, Aggregated, DroppingsOK
  <2>2. \A d \in Droppings : Held(d)'
    <3> TAKE d \in Droppings
    <3>1. CASE d \in tasks
      BY <1>2, <1>4, <3>1 DEF Held
    <3>2. CASE d \in missed \/ Covers(dese_map, d)
      BY <1>1, <3>2 DEF Held, Covers
    <3>3. ASSUME NEW v \in Workers, thread[v].ret # 0 \/ (thread[v].at \in {"read", "merge"} /\ thread[v].dropping = d)
          PROVE  Held(d)'
      <4>1. v # w
        BY <1>1, <3>3 DEF Agg, Aggregated, ThreadsOK, ThreadOK
      <4> QED BY <1>6, <3>3, <4>1 DEF Held
    <3> QED BY <2>1, <3>1, <3>2, <3>3 DEF Held
  <2> QED BY <1>1, <1>3, <2>2 DEF DroppingsOK, Built
<1> QED BY <1>6, <1>7, <1>8, <1>9 DEF Agg, Aggregated

LEMMA AggReadSubindex ==
  ASSUME Agg, NEW w \in Workers, ReadSubindex(w)
  PROVE  Agg'
<1> DEFINE d == thread[w].dropping
<1>1. /\ thread[w].at = "read"
      /\ container' = container /\ threadpool_size' = threadpool_size /\ dese_map' = dese_map
      /\ chunk_map' = chunk_map /\ phase' = phase /\ ret' = ret /\ tasks' = tasks
  BY DEF ReadSubindex
<1>2. w \in DOMAIN thread /\ phase = "pool" /\ d \in Droppings /\ thread[w].ret = 0
  BY <1>1, InPool DEF Agg, Aggregated, ThreadsOK, ThreadOK
<1> HIDE DEF d
<1>3. PICK r \in Readings(NoUnits, << >>, d) :
        /\ thread' = [thread EXCEPT ![w] =
             [at |-> IF r.ret # 0 THEN "exit" ELSE "merge",
              dropping |-> d, map |-> r.map, chunks |-> r.chunks, ret |-> r.ret]]
        /\ missed' = IF r.lost THEN missed \cup {d} ELSE missed
  BY <1>2 DEF ReadSubindex, d
<1> DEFINE t == [at |-> IF r.ret # 0 THEN "exit" ELSE "merge",
                 dropping |-> d, map |-> r.map, chunks |-> r.chunks, ret |-> r.ret]
<1>4. thread' = [thread EXCEPT ![w] = t]
  BY <1>3
<1>5. ReadFrom(NoUnits, << >>, d, r)
  <2>1. UnitsTyped(NoUnits) /\ << >> \in Seq(Chunk) /\ container \in Containers
    BY DEF UnitsTyped, NoUnits, Agg, AggTypeOK
  <2>2. Filed(NoUnits, << >>) /\ AllFirst(NoUnits)
    BY DEF Filed, AllFirst, NoUnits
  <2> QED BY <1>2, <2>1, <2>2, ReadingsRead
<1>6. Home(r.map, r.chunks) /\ Unopened(r.chunks)
  <2>1. Home(NoUnits, << >>) /\ DOMAIN NoUnits = {} /\ Unopened(<< >>)
    BY DEF Home, NoUnits, Unopened
  <2> QED BY <1>5, <2>1 DEF ReadFrom
<1>7. ThreadTyped(t) /\ t.at # "idle" /\ t.dropping = d
  BY <1>2, <1>5 DEF ThreadTyped, ReadFrom
<1>8. ThreadOK(w)'
  <2>1. thread'[w] = t
    BY <1>2, <1>4
  <2>2. t.ret # 0 <=> t.at = "exit"
    OBVIOUS
  <2>3. t.at # "read" /\ t.map = r.map /\ t.chunks = r.chunks
    OBVIOUS
  <2>4. d \in missed' \/ Covers(r.map, d)
    BY <1>3, <1>5 DEF ReadFrom
  <2>5. Filed(r.map, r.chunks) /\ AllFirst(r.map)
    BY <1>5 DEF ReadFrom
  <2> HIDE DEF t
  <2> QED BY <1>1, <1>2, <1>6, <1>7, <2>1, <2>2, <2>3, <2>4, <2>5
         DEF ThreadOK, Filed, Home, AllFirst, FirstAt, Unopened, Covers
<1>9. missed \subseteq missed' /\ missed' \subseteq Droppings
  BY <1>2, <1>3 DEF Agg, AggTypeOK
<1> HIDE DEF t
<1>10. /\ thread'[w] = t /\ \A v \in Workers \ {w} : thread'[v] = thread[v]
       /\ thread' = [v \in Workers |-> thread'[v]] /\ \A v \in Workers : ThreadTyped(thread'[v])
       /\ PhasesOK' /\ ThreadsOK'
  <2>1. thread[w].at # "idle"
    BY <1>1
  <2> QED BY <1>1, <1>4, <1>7, <1>8, <1>9, <2>1, OneThread
<1>11. AggTypeOK'
  <2>1. UnitsTyped(dese_map)' /\ chunk_map' \in Seq(Chunk)
    BY <1>1 DEF Agg, AggTypeOK, UnitsTyped
  <2> QED BY <1>1, <1>9, <1>10, <2>1, TypedKept
<1>12. UnitsOK'
  BY <1>1, SameUnits DEF Agg, Aggregated
<1>13. DroppingsOK'
  <2>1. \A x \in Droppings : Held(x)
    BY <1>2 DEF Agg, Aggregated, DroppingsOK
  <2>2. \A x \in Droppings : Held(x)'
    <3> TAKE x \in Droppings
    <3>1. CASE x \in tasks \/ x \in missed \/ Covers(dese_map, x)
      BY <1>1, <1>9, <3>1 DEF Held, Covers
    <3>2. ASSUME NEW v \in Workers, thread[v].ret # 0 \/ (thread[v].at \in {"read", "merge"} /\ thread[v].dropping = x)
          PROVE  Held(x)'
      <4>1. CASE v # w
        BY <1>10, <3>2, <4>1 DEF Held
      <4>2. CASE v = w
        <5>1. t.dropping = x /\ (t.at = "merge" \/ t.ret # 0)
          BY <1>2, <1>7, <3>2, <4>2 DEF d, t
        <5> QED BY <1>10, <5>1 DEF Held
      <4> QED BY <4>1, <4>2
    <3> QED BY <2>1, <3>1, <3>2 DEF Held
  <2> QED BY <1>1, <1>2, <2>2 DEF DroppingsOK, Built
<1> QED BY <1>10, <1>11, <1>12, <1>13 DEF Agg, Aggregated

LEMMA AggMergeSubindex ==
  ASSUME Agg, NEW w \in Workers, MergeSubindex(w)
  PROVE  Agg' /\ (Unopened(chunk_map) => Unopened(chunk_map)')
<1> DEFINE t == thread[w]
           new == Merged(dese_map, chunk_map, t.map)
           both == chunk_map \o t.chunks
           next == [Idle EXCEPT !.at = "take"]
<1>1. /\ t.at = "merge" /\ dese_map' = new /\ chunk_map' = both /\ thread' = [thread EXCEPT ![w] = next]
      /\ container' = container /\ threadpool_size' = threadpool_size
      /\ phase' = phase /\ ret' = ret /\ tasks' = tasks /\ missed' = missed
  BY DEF MergeSubindex
<1>2. w \in DOMAIN thread /\ phase = "pool" /\ t.dropping \in Droppings /\ t.ret = 0
  BY <1>1, InPool DEF Agg, Aggregated, ThreadsOK, ThreadOK
<1>3. /\ UnitsTyped(t.map) /\ t.chunks \in Seq(Chunk)
      /\ Filed(t.map, t.chunks) /\ Home(t.map, t.chunks) /\ AllFirst(t.map) /\ Unopened(t.chunks)
      /\ t.dropping \in missed \/ Covers(t.map, t.dropping)
  BY <1>1, InPool DEF Agg, Aggregated, ThreadsOK, ThreadOK, ThreadTyped
<1> HIDE DEF t
<1>4. /\ UnitsTyped(new) /\ DOMAIN new = DOMAIN dese_map \cup DOMAIN t.map
      /\ both \in Seq(Chunk) /\ Filed(new, both) /\ AllFirst(new)
      /\ Home(dese_map, chunk_map) => Home(new, both)
      /\ Unopened(chunk_map) => Unopened(both)
  <2>1. UnitsTyped(dese_map) /\ chunk_map \in Seq(Chunk) /\ Filed(dese_map, chunk_map) /\ AllFirst(dese_map)
    BY DEF Agg, AggTypeOK, Aggregated, UnitsOK
  <2> QED BY <1>3, <2>1, MergedUnits
<1> HIDE DEF new, both
<1>5. ThreadTyped(next) /\ next.at = "take" /\ next \in {Idle, [Idle EXCEPT !.at = "take"]}
  BY IdleTyped DEF Idle
<1> HIDE DEF next
<1>6. ThreadOK(w)'
  <2>1. thread'[w] = next
    BY <1>1, <1>2
  <2> QED BY <1>5, <2>1, IdleThread
<1>7. /\ thread'[w] = next /\ \A v \in Workers \ {w} : thread'[v] = thread[v]
      /\ thread' = [v \in Workers |-> thread'[v]] /\ \A v \in Workers : ThreadTyped(thread'[v])
      /\ PhasesOK' /\ ThreadsOK'
  <2>1. thread[w].at # "idle" /\ next.at # "idle" /\ missed \subseteq missed' /\ missed' \subseteq Droppings
        /\ tasks' \subseteq tasks
    BY <1>1, <1>5 DEF t, Agg, AggTypeOK
  <2> QED BY <1>1, <1>5, <1>6, <2>1, OneThread
<1>8. AggTypeOK'
  <2>1. UnitsTyped(dese_map)' /\ chunk_map' \in Seq(Chunk) /\ missed' \subseteq Droppings /\ tasks' \subseteq tasks
    BY <1>1, <1>4 DEF Agg, AggTypeOK, UnitsTyped
  <2> QED BY <1>1, <1>7, <2>1, TypedKept
<1>9. UnitsOK'
  <2>1. ~Repointing => Home(new, both)
    BY <1>4 DEF Agg, Aggregated, UnitsOK
  <2>2. Repointing' = Repointing
    BY <1>1 DEF Repointing
  <2>3. AllFirst(dese_map)'
    BY <1>1, <1>4 DEF AllFirst, FirstAt
  <2> QED BY <1>1, <1>4, <2>1, <2>2, <2>3 DEF UnitsOK, Filed, Home
<1>10. DroppingsOK'
  <2>1. \A x \in Droppings : Held(x)
    BY <1>2 DEF Agg, Aggregated, DroppingsOK
  <2>2. \A x \in Droppings : Held(x)'
    <3> TAKE x \in Droppings
    <3>1. CASE x \in tasks \/ x \in missed \/ Covers(dese_map, x)
      BY <1>1, <1>4, <3>1 DEF Held, Covers
    <3>2. ASSUME NEW v \in Workers, thread[v].ret # 0 \/ (thread[v].at \in {"read", "merge"} /\ thread[v].dropping = x)
          PROVE  Held(x)'
      <4>1. CASE v # w
        BY <1>7, <3>2, <4>1 DEF Held
      <4>2. CASE v = w
        <5>1. t.dropping = x
          BY <1>2, <3>2, <4>2 DEF t
        <5> QED BY <1>1, <1>3, <1>4, <5>1 DEF Held, Covers
      <4> QED BY <4>1, <4>2
    <3> QED BY <2>1, <3>1, <3>2 DEF Held
  <2> QED BY <1>1, <1>2, <2>2 DEF DroppingsOK, Built
<1>11. Unopened(chunk_map) => Unopened(chunk_map)'
  BY <1>1, <1>4 DEF Unopened
<1> QED BY <1>7, <1>8, <1>9, <1>10, <1>11 DEF Agg, Aggregated

LEMMA AggJoinPool ==
  ASSUME Agg, JoinPool
  PROVE  Agg'
<1>1. /\ phase = "pool" /\ (\A w \in Workers : thread[w].at \in {"idle", "exit"})
      /\ ret' = PoolStatus /\ phase' = "done" /\ thread' = [w \in Workers |-> Idle]
      /\ container' = container /\ threadpool_size' = threadpool_size /\ dese_map' = dese_map
      /\ chunk_map' = chunk_map /\ tasks' = tasks /\ missed' = missed
  BY DEF JoinPool
<1>2. \A w \in Workers : thread'[w] = Idle /\ ThreadTyped(thread'[w])
  BY <1>1, IdleTyped
<1>3. AggTypeOK'
  <2>1. \A w \in Workers : ThreadTyped(thread[w])'
    BY <1>2 DEF ThreadTyped, UnitsTyped
  <2>2. thread' = [w \in Workers |-> thread'[w]]
    BY <1>1
  <2>3. ret' \in {0, -1}
    BY <1>1 DEF PoolStatus
  <2> QED BY <1>1, <2>1, <2>2, <2>3 DEF Agg, AggTypeOK, UnitsTyped
<1>4. PhasesOK'
  BY <1>1, <1>2 DEF PhasesOK
<1>5. ThreadsOK'
  BY <1>2, IdleThread DEF ThreadsOK
<1>6. UnitsOK'
  BY <1>1, SameUnits DEF Agg, Aggregated
<1>7. DroppingsOK'
  <2>1. ASSUME ret' = 0, NEW d \in Droppings, d \notin missed
        PROVE  Covers(dese_map, d)
    <3>1. \A w \in Workers : thread[w].ret = 0
      BY <1>1, <2>1 DEF PoolStatus
    <3>2. 1 \in Workers /\ thread[1].at # "idle"
      BY <1>1, WorkerOne DEF Agg, AggTypeOK, Aggregated, PhasesOK
    <3>3. ThreadOK(1) /\ thread[1].at = "exit"
      BY <1>1, <3>2 DEF Agg, Aggregated, ThreadsOK
    <3>4. tasks = {}
      BY <3>1, <3>2, <3>3 DEF ThreadOK
    <3>5. Held(d)
      BY <1>1 DEF Agg, Aggregated, DroppingsOK
    <3> QED BY <1>1, <2>1, <3>1, <3>4, <3>5 DEF Held
  <2> QED BY <1>1, <2>1 DEF DroppingsOK, Built, Covers
<1> QED BY <1>3, <1>4, <1>5, <1>6, <1>7 DEF Agg, Aggregated

(* Every step of the aggregation, which has begun no call and opened no    *)
(* chunk.                                                                  *)
LEMMA AggStepKeeps ==
  ASSUME Agg, Aggregate
  PROVE  /\ Agg' /\ phase \in {"list", "run", "pool"}
         /\ Unopened(chunk_map) => Unopened(chunk_map)'
<1>1. CASE List
  BY <1>1, AggList DEF List, Unopened
<1>2. CASE ReadOneByOne
  BY <1>2, AggReadOneByOne DEF ReadOneByOne
<1>3. CASE DoneOneByOne
  BY <1>3, AggDoneOneByOne DEF DoneOneByOne, Unopened
<1>4. CASE StartPool
  BY <1>4, AggStartPool DEF StartPool, Unopened
<1>5. CASE JoinPool
  BY <1>5, AggJoinPool DEF JoinPool, Unopened
<1>6. ASSUME NEW w \in Workers, TakeTask(w)
      PROVE  Agg' /\ phase = "pool" /\ (Unopened(chunk_map) => Unopened(chunk_map)')
  <2>1. thread[w].at # "idle" /\ chunk_map' = chunk_map
    BY <1>6 DEF TakeTask
  <2> QED BY <1>6, <2>1, AggTakeTask, InPool DEF Unopened
<1>7. ASSUME NEW w \in Workers, ReadSubindex(w)
      PROVE  Agg' /\ phase = "pool" /\ (Unopened(chunk_map) => Unopened(chunk_map)')
  <2>1. thread[w].at # "idle" /\ chunk_map' = chunk_map
    BY <1>7 DEF ReadSubindex
  <2> QED BY <1>7, <2>1, AggReadSubindex, InPool DEF Unopened
<1>8. ASSUME NEW w \in Workers, MergeSubindex(w)
      PROVE  Agg' /\ phase = "pool" /\ (Unopened(chunk_map) => Unopened(chunk_map)')
  <2>1. thread[w].at # "idle"
    BY <1>8 DEF MergeSubindex
  <2> QED BY <1>8, <2>1, AggMergeSubindex, InPool
<1> QED BY <1>1, <1>2, <1>3, <1>4, <1>5, <1>6, <1>7, <1>8 DEF Aggregate, AggStep

LEMMA SamePut ==
  ASSUME NEW c \in Calls, call'[c].buf = call[c].buf
  PROVE  Put(c)' = Put(c)
BY DEF Put

LEMMA ReadKeptByAgg ==
  ASSUME TypeOK, Agg, Read, Aggregate, UNCHANGED readVars
  PROVE  TypeOK' /\ Agg' /\ Read'
<1>1. /\ Agg' /\ phase \in {"list", "run", "pool"}
      /\ Unopened(chunk_map) => Unopened(chunk_map)'
  BY AggStepKeeps
<1>2. disk' = disk /\ fds' = fds /\ call' = call /\ reader' = reader
  BY DEF readVars
<1>3. \A c \in Calls : call[c] = NoCall /\ call[c].at = "idle" /\ \A w \in Workers : reader[c][w] = NoReader
  BY <1>1 DEF Read, CallsOK, CallOK
<1>4. \A c \in Calls, w \in Workers : reader[c][w].at = "off"
  BY <1>3 DEF NoReader
<1>5. Unopened(chunk_map) /\ Unopened(chunk_map)'
  BY <1>1 DEF Read, FdsOK, ChunkFdsOK
<1>6. DOMAIN fds = {}
  <2> SUFFICES ASSUME NEW f \in DOMAIN fds PROVE FALSE
    OBVIOUS
  <2>1. f # -1
    BY DEF TypeOK
  <2>2. \E i \in DOMAIN chunk_map : chunk_map[i].fd = f
    BY <1>4 DEF Read, FdsOK, Holds
  <2> QED BY <1>5, <2>1, <2>2 DEF Unopened
<1>7. TypeOK'
  BY <1>1, <1>2 DEF TypeOK, Agg, CallTyped
<1>8. CallsOK'
  BY <1>2, <1>3 DEF CallsOK, CallOK, NoCall
<1>9. TasksOK'
  BY <1>2, <1>3 DEF TasksOK, TaskOK
<1>10. FdsOK'
  BY <1>2, <1>4, <1>5, <1>6 DEF FdsOK, ChunkFdsOK, ReaderFdOK, Holds, Unopened
<1>11. SpansOK'
  BY <1>2, <1>3, SamePut DEF Read, SpansOK, SpanOK
<1>12. BytesOK'
  BY <1>2, <1>3 DEF BytesOK, ByteOK
<1> QED BY <1>1, <1>7, <1>8, <1>9, <1>10, <1>11, <1>12 DEF Read

-----------------------------------------------------------------------------
(* globalLookup.                                                           *)

LEMMA NoTaskTyped == NoTask \in Task /\ NoTask.len = 0 /\ NoTask.fd = -1
BY DEF Task, NoTask, Fd

LEMMA Nearest ==
  ASSUME UnitsTyped(dese_map), NEW q \in Nat, Starts(q) # {}
  PROVE  /\ Max(Starts(q)) \in DOMAIN dese_map /\ Max(Starts(q)) \in Nat /\ Max(Starts(q)) <= q
         /\ \A o \in DOMAIN dese_map : o <= q => o <= Max(Starts(q))
<1>1. Starts(q) \in SUBSET (0..q)
  BY DEF Starts, UnitsTyped
<1>2. Max(Starts(q)) \in Starts(q) /\ \A x \in Starts(q) : x <= Max(Starts(q))
  BY <1>1, MaxOfNats
<1> QED BY <1>1, <1>2 DEF Starts

(* What is found is a piece of the unit in front of it.                    *)
LEMMA FoundIn ==
  ASSUME Agg, NEW q \in Nat
  PROVE  \/ Found(q) = NoTask /\ (Starts(q) = {} \/ q - dese_map[Max(Starts(q))].log >= dese_map[Max(Starts(q))].len)
         \/ LET u == dese_map[Max(Starts(q))]
                f == Found(q)
            IN  /\ Starts(q) # {} /\ u \in Unit /\ u.log = Max(Starts(q)) /\ u.log <= q /\ q - u.log < u.len
                /\ u.chunk \in DOMAIN chunk_map
                /\ f \in Task /\ f.fd = chunk_map[u.chunk].fd /\ f.chunk = u.chunk
                /\ f.path = chunk_map[u.chunk].path
                /\ f.off = u.phy + (q - u.log) /\ f.len = u.len - (q - u.log)
<1> DEFINE u == dese_map[Max(Starts(q))]
           f == [NoTask EXCEPT !.fd = chunk_map[u.chunk].fd, !.chunk = u.chunk,
                               !.path = chunk_map[u.chunk].path,
                               !.off = u.phy + (q - u.log), !.len = u.len - (q - u.log)]
<1>1. Found(q) = IF Starts(q) = {} \/ q - u.log >= u.len THEN NoTask ELSE f
  BY DEF Found
<1>2. CASE Starts(q) = {} \/ q - u.log >= u.len
  BY <1>1, <1>2
<1>3. CASE Starts(q) # {} /\ ~(q - u.log >= u.len)
  <2>1. UnitsTyped(dese_map) /\ Filed(dese_map, chunk_map) /\ chunk_map \in Seq(Chunk)
    BY DEF Agg, AggTypeOK, Aggregated, UnitsOK
  <2>2. Max(Starts(q)) \in DOMAIN dese_map /\ Max(Starts(q)) \in Nat /\ Max(Starts(q)) <= q
    BY <1>3, <2>1, Nearest
  <2>3. u \in Unit /\ u.log = Max(Starts(q)) /\ u.chunk \in DOMAIN chunk_map
    BY <2>1, <2>2 DEF UnitsTyped, Filed
  <2>4. u.log <= q /\ q - u.log < u.len /\ u.phy + (q - u.log) \in Nat /\ u.len - (q - u.log) \in Nat /\ u.chunk \in Nat
    BY <1>3, <2>2, <2>3 DEF Unit
  <2>5. chunk_map[u.chunk].fd \in Fd /\ chunk_map[u.chunk].path \in Paths
    <3>1. chunk_map[u.chunk] \in Chunk
      BY <2>1, <2>3
    <3> QED BY <3>1 DEF Chunk
  <2> HIDE DEF u
  <2>6. /\ f \in Task /\ f.fd = chunk_map[u.chunk].fd /\ f.chunk = u.chunk
        /\ f.path = chunk_map[u.chunk].path
        /\ f.off = u.phy + (q - u.log) /\ f.len = u.len - (q - u.log)
    BY <2>4, <2>5 DEF Task, NoTask
  <2> HIDE DEF f
  <2> QED BY <1>1, <1>3, <2>3, <2>4, <2>6 DEF u
<1> QED BY <1>2, <1>3

LEMMA FoundTask ==
  ASSUME Agg, NEW q \in Nat
  PROVE  Found(q) \in Task /\ (Has(q) => OfChunk(Found(q))) /\ (~Has(q) => Found(q).len = 0)
<1>1. Found(q) \in Task
  BY FoundIn, NoTaskTyped
<1>2. Found(q).len \in Nat
  BY <1>1 DEF Task
<1>3. Has(q) => OfChunk(Found(q))
  BY FoundIn, NoTaskTyped DEF Has, OfChunk
<1> QED BY <1>1, <1>2, <1>3 DEF Has

(* The rest of what is found, if no records overlap.                       *)
LEMMA FoundOn ==
  ASSUME Agg, Apart, NEW q \in Nat, NEW j \in Nat, j < Found(q).len
  PROVE  /\ Found(q + j).len = Found(q).len - j /\ Found(q + j).path = Found(q).path
         /\ Found(q + j).off = Found(q).off + j
<1> DEFINE o == Max(Starts(q))
           u == dese_map[o]
<1>1. Found(q) # NoTask
  BY NoTaskTyped
<1>2. /\ Starts(q) # {} /\ u \in Unit /\ u.log = o /\ o <= q /\ q - o < u.len
      /\ Found(q).path = chunk_map[u.chunk].path
      /\ Found(q).off = u.phy + (q - o) /\ Found(q).len = u.len - (q - o)
  BY <1>1, FoundIn
<1>3. UnitsTyped(dese_map)
  BY DEF Agg, AggTypeOK
<1>4. o \in DOMAIN dese_map /\ o \in Nat
  BY <1>2, <1>3, Nearest
<1>5. u.len \in Nat /\ u.phy \in Nat
  BY <1>2 DEF Unit
<1>6. Max(Starts(q + j)) = o
  <2>1. o \in Starts(q + j)
    BY <1>2, <1>4 DEF Starts
  <2>2. /\ Max(Starts(q + j)) \in DOMAIN dese_map /\ Max(Starts(q + j)) \in Nat
        /\ Max(Starts(q + j)) <= q + j /\ o <= Max(Starts(q + j))
    BY <1>2, <1>3, <1>4, <2>1, Nearest
  <2> DEFINE p == Max(Starts(q + j))
  <2>3. ~(o < p)
    <3>1. o < p => o + u.len <= p
      BY <1>4, <2>2 DEF Apart
    <3> HIDE DEF o, u, p
    <3>2. q + j < o + u.len
      BY <1>2, <1>4, <1>5
    <3> QED BY <1>4, <1>5, <2>2, <3>1, <3>2 DEF p
  <2> HIDE DEF o, p
  <2> QED BY <1>4, <2>2, <2>3 DEF p
<1>7. o \in Starts(q + j)
  BY <1>2, <1>4 DEF Starts
<1>8. ~((q + j) - u.log >= u.len)
  <2> HIDE DEF o, u
  <2> QED BY <1>2, <1>4, <1>5
<1>9. /\ Found(q + j).len = u.len - ((q + j) - o)
      /\ Found(q + j).path = chunk_map[u.chunk].path /\ Found(q + j).off = u.phy + ((q + j) - o)
  <2>1. Starts(q + j) # {} /\ dese_map[Max(Starts(q + j))] = u
    BY <1>6, <1>7
  <2>2. /\ Found(q + j).path = chunk_map[u.chunk].path
        /\ Found(q + j).off = u.phy + ((q + j) - u.log) /\ Found(q + j).len = u.len - ((q + j) - u.log)
    <3> DEFINE x == q + j
    <3>1. x \in Nat
      OBVIOUS
    <3>2. Starts(x) # {} /\ dese_map[Max(Starts(x))] = u /\ ~(x - u.log >= u.len)
      BY <1>8, <2>1
    <3> HIDE DEF o, u, x
    <3>3. /\ Found(x).path = chunk_map[u.chunk].path
          /\ Found(x).off = u.phy + (x - u.log) /\ Found(x).len = u.len - (x - u.log)
      BY <3>1, <3>2, FoundIn
    <3> QED BY <3>3 DEF x
  <2> QED BY <1>2, <2>2
<1> HIDE DEF o, u
<1> QED BY <1>2, <1>4, <1>5, <1>9

(* The index is the same, but that chunks may have got a descriptor.       *)
SameIndex ==
  /\ dese_map' = dese_map /\ DOMAIN chunk_map' = DOMAIN chunk_map
  /\ \A i \in DOMAIN chunk_map :
       /\ chunk_map'[i].path = chunk_map[i].path
       /\ chunk_map[i].fd = -1 \/ chunk_map'[i].fd = chunk_map[i].fd

LEMMA FoundKept ==
  ASSUME Agg, SameIndex, NEW x \in Nat
  PROVE  Has(x)' = Has(x) /\ Data(x)' = Data(x)
<1> DEFINE u == dese_map[Max(Starts(x))]
<1>1. Starts(x)' = Starts(x)
  BY DEF Starts, SameIndex
<1>2. CASE Starts(x) = {} \/ x - u.log >= u.len
  BY <1>1, <1>2 DEF Has, Data, Found, SameIndex
<1>3. CASE ~(Starts(x) = {} \/ x - u.log >= u.len)
  <2>1. u.chunk \in DOMAIN chunk_map
    BY <1>3, FoundIn
  <2>2. chunk_map'[u.chunk].path = chunk_map[u.chunk].path
    BY <2>1 DEF SameIndex
  <2> QED BY <1>1, <1>3, <2>2 DEF Has, Data, Found, SameIndex, NoTask
<1> QED BY <1>2, <1>3

LEMMA ReachedKept ==
  ASSUME Agg, SameIndex, NEW c \in Calls, call[c].offset \in Nat, call'[c].offset = call[c].offset, NEW b \in Nat
  PROVE  /\ Reached(c, b)' = Reached(c, b)
         /\ Data(call[c].offset + b)' = Data(call[c].offset + b)
<1> DEFINE q == call[c].offset
<1>1. \A j \in 0..b : q + j \in Nat
  OBVIOUS
<1>2. PICK p \in Nat : p = q
  OBVIOUS
<1>3. \A j \in 0..b : Has(p + j)' = Has(p + j)
  BY <1>1, <1>2, FoundKept
<1>4. p + b \in Nat
  OBVIOUS
<1>5. Data(p + b)' = Data(p + b)
  BY <1>4, FoundKept
<1>6. q' = p
  BY <1>2
<1> QED BY <1>2, <1>3, <1>5, <1>6 DEF Reached

LEMMA RightKept ==
  ASSUME Agg, SameIndex, NEW c \in Calls, CallTyped(call[c]), call'[c].offset = call[c].offset,
         NEW t, Right(c, t), Span(t) \subseteq DOMAIN call[c].buf
  PROVE  Right(c, t)'
<1>1. call[c].offset \in Nat /\ DOMAIN call[c].buf \subseteq Nat
  BY DEF CallTyped
<1>2. \A b \in Nat : Reached(c, b)' = Reached(c, b) /\ Data(call[c].offset + b)' = Data(call[c].offset + b)
  BY <1>1, ReachedKept
<1> QED BY <1>1, <1>2 DEF Right, Span

LEMMA SettledKept ==
  ASSUME Agg, SameIndex, NEW c \in Calls, CallTyped(call[c]), call'[c].offset = call[c].offset, disk' = disk,
         NEW b \in DOMAIN call[c].buf, Settled(c, b), call'[c].buf[b] = call[c].buf[b]
  PROVE  Settled(c, b)'
<1>1. call[c].offset \in Nat /\ b \in Nat
  BY DEF CallTyped
<1>2. Reached(c, b)' = Reached(c, b) /\ Data(call[c].offset + b)' = Data(call[c].offset + b)
  BY <1>1, ReachedKept
<1> QED BY <1>1, <1>2 DEF Settled

-----------------------------------------------------------------------------
(* What a step of one reader leaves alone.                                 *)

(* Call c has the tasks and the bytes it had; a reader that fails leaves   *)
(* its task behind.                                                        *)
Quiet(c) ==
  /\ call'[c].at = call[c].at /\ call'[c].offset = call[c].offset /\ call'[c].tasks = call[c].tasks
  /\ call'[c].buf = call[c].buf /\ call'[c].total = call[c].total
  /\ \A w \in Workers : Working(c, w)' => Working(c, w) /\ reader'[c][w].task = reader[c][w].task
  /\ \/ call'[c].error
     \/ call'[c].error = call[c].error /\ \A w \in Workers : Working(c, w) => Working(c, w)'

LEMMA CallKept ==
  ASSUME Agg, SameIndex, NEW c \in Calls, CallTyped(call[c]), Quiet(c), disk' = disk, Built' => Built,
         TaskOK(c), SpanOK(c)
  PROVE  TaskOK(c)' /\ SpanOK(c)' /\ (ByteOK(c) => ByteOK(c)')
<1> USE DEF Quiet
<1>1. \A t : OfChunk(t) => (t.chunk \in DOMAIN chunk_map' /\ t.path = chunk_map'[t.chunk].path
                            /\ (t.fd = -1 \/ t.fd = chunk_map'[t.chunk].fd))
  BY DEF OfChunk, SameIndex
<1>2. TaskOK(c)'
  <2>1. ASSUME call[c].at = "reading", NEW i \in DOMAIN call[c].tasks
        PROVE  OfChunk(call[c].tasks[i])'
    BY <1>1, <2>1 DEF TaskOK, OfChunk
  <2>2. ASSUME call[c].at = "reading", NEW w \in Workers, Working(c, w)'
        PROVE  OfChunk(reader[c][w].task)'
    BY <1>1, <2>2 DEF TaskOK, OfChunk
  <2> QED BY <2>1, <2>2 DEF TaskOK
<1>3. Put(c)' = Put(c)
  BY DEF Put
<1>4. SpanOK(c)'
  BY <1>3 DEF SpanOK, Free, Span
<1>5. ASSUME ByteOK(c) PROVE ByteOK(c)'
  <2>1. ASSUME NEW t, Right(c, t), Span(t) \subseteq DOMAIN call[c].buf
        PROVE  Right(c, t)'
    BY <2>1, RightKept
  <2>2. ASSUME call[c].at = "reading", NEW i \in DOMAIN call[c].tasks
        PROVE  Right(c, call[c].tasks[i])'
    <3>1. PICK t : t = call[c].tasks[i]
      OBVIOUS
    <3>2. Right(c, t) /\ Span(t) \subseteq DOMAIN call[c].buf
      BY <1>5, <2>2, <3>1 DEF ByteOK, SpanOK, Free
    <3>3. call'[c].tasks[i] = t
      BY <3>1
    <3> QED BY <2>1, <3>2, <3>3
  <2>3. ASSUME call[c].at = "reading", NEW w \in Workers, Working(c, w)'
        PROVE  Right(c, reader[c][w].task)'
    <3>1. PICK t : t = reader[c][w].task
      OBVIOUS
    <3>2. Right(c, t) /\ Span(t) \subseteq DOMAIN call[c].buf
      BY <1>5, <2>3, <3>1 DEF ByteOK, SpanOK, Free
    <3>3. reader'[c][w].task = t
      BY <2>3, <3>1
    <3> QED BY <2>1, <3>2, <3>3
  <2>4. ASSUME Built', call[c].at # "idle", ~call'[c].error, NEW b \in DOMAIN call[c].buf
        PROVE  Owed(c, b)' \/ Settled(c, b)'
    <3>1. Owed(c, b) \/ Settled(c, b)
      BY <1>5, <2>4 DEF ByteOK
    <3>2. Owed(c, b) => Owed(c, b)'
      BY <2>4 DEF Owed, Span
    <3>3. Settled(c, b) => Settled(c, b)'
      BY SettledKept
    <3> QED BY <3>1, <3>2, <3>3
  <2> QED BY <2>2, <2>3, <2>4 DEF ByteOK
<1> QED BY <1>2, <1>4, <1>5

Unaggregated ==
  UNCHANGED <<container, threadpool_size, tasks, phase, ret, thread, missed>>

LEMMA AggKept ==
  ASSUME Agg, SameIndex, Unaggregated, chunk_map' \in Seq(Chunk)
  PROVE  Agg'
<1>1. /\ container' = container /\ threadpool_size' = threadpool_size /\ tasks' = tasks /\ phase' = phase
      /\ ret' = ret /\ thread' = thread /\ missed' = missed /\ dese_map' = dese_map
  BY DEF Unaggregated, SameIndex
<1>2. AggTypeOK'
  BY <1>1 DEF Agg, AggTypeOK, UnitsTyped, ThreadTyped
<1>3. PhasesOK'
  BY <1>1 DEF Agg, Aggregated, PhasesOK
<1>4. ThreadsOK'
  <2> SUFFICES ASSUME NEW w \in Workers PROVE ThreadOK(w)'
    BY DEF ThreadsOK
  <2>1. ThreadOK(w)
    BY DEF Agg, Aggregated, ThreadsOK
  <2> QED BY <1>1, <2>1, OtherThread
<1>5. UnitsOK'
  <2>1. Filed(dese_map, chunk_map)'
    BY <1>1 DEF SameIndex, Agg, Aggregated, UnitsOK, Filed
  <2>2. Home(dese_map, chunk_map) => Home(dese_map, chunk_map)'
    BY <1>1 DEF SameIndex, Agg, Aggregated, UnitsOK, Filed, Home
  <2>3. Repointing' = Repointing
    BY <1>1 DEF Repointing
  <2>4. AllFirst(dese_map)'
    BY <1>1 DEF Agg, Aggregated, UnitsOK, AllFirst, FirstAt
  <2> QED BY <2>1, <2>2, <2>3, <2>4 DEF Agg, Aggregated, UnitsOK
<1>6. DroppingsOK'
  BY <1>1 DEF Agg, Aggregated, DroppingsOK, Held, Covers, Built
<1> QED BY <1>2, <1>3, <1>4, <1>5, <1>6 DEF Agg, Aggregated

(* A step of one call leaves the others alone.                             *)
Alone(c) ==
  /\ call' = [d \in Calls |-> call'[d]] /\ reader' \in [Calls -> [Workers -> Reader]]
  /\ \A d \in Calls : d # c => call'[d] = call[d] /\ reader'[d] = reader[d]

LEMMA OthersKept ==
  ASSUME TypeOK, Agg, Read, SameIndex, Unaggregated, chunk_map' \in Seq(Chunk), disk' = disk,
         NEW c \in Calls, Alone(c), CallTyped(call[c])', CallOK(c)', TaskOK(c)', SpanOK(c)',
         Apart => ByteOK(c)',
         fds' \in [DOMAIN fds' -> disk.present] /\ DOMAIN fds' \subseteq Nat \ {0} /\ IsFiniteSet(DOMAIN fds'),
         FdsOK'
  PROVE  TypeOK' /\ Agg' /\ Read'
<1>1. Agg'
  BY AggKept
<1>2. phase' = phase /\ ret' = ret /\ (Built' <=> Built) /\ (Apart' <=> Apart)
  BY DEF Unaggregated, Built, Apart, SameIndex
<1>3. ASSUME NEW d \in Calls, d # c
      PROVE  /\ CallTyped(call[d])' /\ CallOK(d)' /\ TaskOK(d)' /\ SpanOK(d)'
             /\ Apart => ByteOK(d)'
  <2>1. call'[d] = call[d] /\ reader'[d] = reader[d]
    BY <1>3 DEF Alone
  <2>2. CallTyped(call[d]) /\ CallOK(d) /\ TaskOK(d) /\ SpanOK(d) /\ (Apart => ByteOK(d))
    BY DEF TypeOK, Read, CallsOK, TasksOK, SpansOK, BytesOK
  <2>3. CallTyped(call[d])'
    BY <2>1, <2>2 DEF CallTyped
  <2>4. CallOK(d)'
    BY <1>2, <2>1, <2>2 DEF CallOK, Built
  <2>5. Quiet(d)
    BY <2>1 DEF Quiet, Working
  <2> QED BY <1>2, <2>2, <2>3, <2>4, <2>5, CallKept
<1>4. TypeOK'
  BY <1>1, <1>3 DEF TypeOK, Agg, Alone
<1>5. CallsOK' /\ TasksOK' /\ SpansOK' /\ BytesOK'
  BY <1>2, <1>3 DEF CallsOK, TasksOK, SpansOK, BytesOK
<1> QED BY <1>1, <1>4, <1>5 DEF Read

Set(c, w, r) == reader' = [reader EXCEPT ![c][w] = r]

LEMMA ReaderSet ==
  ASSUME reader \in [Calls -> [Workers -> Reader]],
         NEW c \in Calls, NEW w \in Workers, NEW r \in Reader, Set(c, w, r)
  PROVE  /\ reader' \in [Calls -> [Workers -> Reader]] /\ reader'[c][w] = r
         /\ \A v \in Workers : v # w => reader'[c][v] = reader[c][v]
         /\ \A d \in Calls : d # c => reader'[d] = reader[d]
BY DEF Set

LEMMA FdsSame ==
  ASSUME FdsOK, fds' = fds, chunk_map' = chunk_map, phase' = phase, NEW c \in Calls,
         \A d \in Calls : d # c => reader'[d] = reader[d],
         \A w \in Workers :
           \/ reader'[c][w] = reader[c][w]
           \/ /\ reader[c][w].at # "stash" /\ reader'[c][w].at # "stash"
              /\ reader'[c][w].at = "pread" =>
                   reader'[c][w].fd # -1 /\ reader'[c][w].fd = chunk_map[reader'[c][w].task.chunk].fd
  PROVE  FdsOK'
<1>1. ASSUME NEW d \in Calls, NEW w \in Workers
      PROVE  /\ \/ reader'[d][w] = reader[d][w]
                \/ /\ reader[d][w].at # "stash" /\ reader'[d][w].at # "stash"
                   /\ reader'[d][w].at = "pread" =>
                        reader'[d][w].fd # -1 /\ reader'[d][w].fd = chunk_map[reader'[d][w].task.chunk].fd
             /\ \A f : Holds(d, w, f)' <=> Holds(d, w, f)
  BY DEF Holds
<1>2. ASSUME NEW d \in Calls, NEW w \in Workers
      PROVE  ReaderFdOK(d, w)'
  <2>1. CASE reader'[d][w] = reader[d][w]
    BY <1>1, <2>1 DEF FdsOK, ReaderFdOK, Holds
  <2>2. CASE reader'[d][w] # reader[d][w]
    BY <1>1, <2>2 DEF ReaderFdOK
  <2> QED BY <2>1, <2>2
<1>3. ChunkFdsOK'
  BY DEF FdsOK, ChunkFdsOK, Unopened
<1>4. \A f \in DOMAIN fds : \/ \E i \in DOMAIN chunk_map : chunk_map[i].fd = f
                            \/ \E d \in Calls, w \in Workers : Holds(d, w, f)'
  BY <1>1 DEF FdsOK
<1> QED BY <1>2, <1>3, <1>4 DEF FdsOK

(* A reader goes on to r; it ends only when there are no tasks left or it  *)
(* reports an error.                                                       *)
LEMMA CallGoesOn ==
  ASSUME TypeOK, NEW c \in Calls, CallOK(c), NEW w \in Workers, NEW r \in Reader, Set(c, w, r), Unaggregated,
         reader[c][w].at # "off", r.at # "off", call'[c].at = call[c].at,
         \/ call'[c].error
         \/ /\ call'[c].error = call[c].error
            /\ call[c].tasks = << >> => call'[c].tasks = << >>
            /\ r.at = "exit" => call'[c].tasks = << >>
  PROVE  CallOK(c)' /\ call[c].at = "reading" /\ Built
<1>1. phase' = phase /\ ret' = ret /\ Built' = Built
  BY DEF Unaggregated, Built
<1>2. call[c].at = "reading" /\ Built
  BY DEF CallOK, NoReader, TypeOK, CallTyped
<1>3. /\ reader'[c][w] = r /\ \A v \in Workers : v # w => reader'[c][v] = reader[c][v]
  BY ReaderSet DEF TypeOK
<1>4. 1 \in Workers
  BY WorkerOne DEF TypeOK, AggTypeOK
<1>5. reader'[c][1].at # "off"
  BY <1>2, <1>3, <1>4 DEF CallOK
<1>6. call'[c].at = "reading" /\ ~call'[c].error => \A v \in Workers : reader'[c][v].at = "exit" => call'[c].tasks = << >>
  BY <1>2, <1>3 DEF CallOK
<1>7. phase \notin {"list", "run", "pool"}
  BY <1>2 DEF Built
<1> QED BY <1>1, <1>2, <1>5, <1>6, <1>7 DEF CallOK

(* A reader that goes on with its task, or fails.                          *)
LEMMA ReaderGoesOn ==
  ASSUME TypeOK, Read, NEW c \in Calls, NEW w \in Workers, NEW r \in Reader, Set(c, w, r), Unaggregated,
         Working(c, w), call' = call, r.at \in {"fd", "open", "stash", "pread"}, r.task = reader[c][w].task
  PROVE  Alone(c) /\ CallTyped(call[c])' /\ CallOK(c)' /\ Quiet(c)
<1>1. CallTyped(call[c]) /\ CallOK(c)
  BY DEF TypeOK, Read, CallsOK
<1>2. CallOK(c)'
  BY <1>1, CallGoesOn DEF Working
<1>3. /\ reader' \in [Calls -> [Workers -> Reader]] /\ reader'[c][w] = r
      /\ \A v \in Workers : v # w => reader'[c][v] = reader[c][v]
      /\ \A d \in Calls : d # c => reader'[d] = reader[d]
  BY ReaderSet DEF TypeOK
<1>4. Quiet(c)
  BY <1>3 DEF Quiet, Working
<1>5. Alone(c)
  BY <1>3 DEF Alone, TypeOK
<1> QED BY <1>1, <1>2, <1>4, <1>5 DEF CallTyped

LEMMA NoReaderTyped == NoReader \in Reader /\ \A at \in {"take", "exit"} : [NoReader EXCEPT !.at = at] \in Reader
<1>1. NoTask \in Task /\ -1 \in Fd
  BY NoTaskTyped DEF Fd
<1> HIDE DEF NoTask
<1> QED BY <1>1 DEF NoReader, Reader

LEMMA SameIndexOfSame ==
  ASSUME dese_map' = dese_map, chunk_map' = chunk_map
  PROVE  SameIndex
BY DEF SameIndex

LEMMA FailedKeeps ==
  ASSUME TypeOK, Agg, Read, NEW c \in Calls, NEW w \in Workers, Failed(c, w),
         reader[c][w].at \in {"open", "pread"}, UNCHANGED <<aggVars, disk, fds>>
  PROVE  TypeOK' /\ Agg' /\ Read'
<1> DEFINE r == [NoReader EXCEPT !.at = IF call[c].pool = 1 THEN "take" ELSE "exit"]
<1>1. /\ dese_map' = dese_map /\ chunk_map' = chunk_map /\ disk' = disk /\ fds' = fds /\ phase' = phase /\ ret' = ret
      /\ Unaggregated
  BY DEF aggVars, Unaggregated
<1>2. r \in Reader /\ r.at \in {"take", "exit"}
  BY NoReaderTyped DEF NoReader
<1>3. Set(c, w, r)
  BY DEF Failed, Set
<1> HIDE DEF r
<1>4. /\ reader' \in [Calls -> [Workers -> Reader]] /\ reader'[c][w] = r
      /\ \A v \in Workers : v # w => reader'[c][v] = reader[c][v]
      /\ \A d \in Calls : d # c => reader'[d] = reader[d]
  BY <1>2, <1>3, ReaderSet DEF TypeOK
<1>5. CallTyped(call[c]) /\ CallOK(c) /\ TaskOK(c) /\ SpanOK(c) /\ (Apart => ByteOK(c))
  BY DEF TypeOK, Read, CallsOK, TasksOK, SpansOK, BytesOK
<1>6. /\ call' = [d \in Calls |-> call'[d]] /\ (\A d \in Calls : d # c => call'[d] = call[d])
      /\ call'[c] = [call[c] EXCEPT !.error = TRUE]
  BY DEF Failed, TypeOK
<1>7. /\ call'[c].at = call[c].at /\ call'[c].offset = call[c].offset /\ call'[c].tasks = call[c].tasks
      /\ call'[c].buf = call[c].buf /\ call'[c].total = call[c].total /\ call'[c].error = TRUE
      /\ CallTyped(call'[c])
  BY <1>5, <1>6 DEF CallTyped
<1>8. CallOK(c)'
  BY <1>1, <1>2, <1>3, <1>5, <1>7, CallGoesOn
<1>9. Quiet(c)
  BY <1>2, <1>4, <1>7 DEF Quiet, Working
<1>10. Alone(c)
  BY <1>4, <1>6 DEF Alone
<1>11. SameIndex
  BY <1>1, SameIndexOfSame
<1>12. TaskOK(c)' /\ SpanOK(c)' /\ (ByteOK(c) => ByteOK(c)')
  BY <1>1, <1>5, <1>9, <1>11, CallKept DEF Built
<1>13. FdsOK'
  BY <1>1, <1>2, <1>4, FdsSame DEF Read
<1>14. CallTyped(call[c])'
  BY <1>7 DEF CallTyped
<1>15. /\ fds' \in [DOMAIN fds' -> disk.present] /\ DOMAIN fds' \subseteq Nat \ {0} /\ IsFiniteSet(DOMAIN fds')
       /\ chunk_map' \in Seq(Chunk)
  BY <1>1 DEF TypeOK, AggTypeOK
<1> QED BY <1>1, <1>5, <1>8, <1>10, <1>11, <1>12, <1>13, <1>14, <1>15, OthersKept

LEMMA GetChunkFdKeeps ==
  ASSUME TypeOK, Agg, Read, NEW c \in Calls, NEW w \in Workers, GetChunkFd(c, w)
  PROVE  TypeOK' /\ Agg' /\ Read'
<1> DEFINE t == reader[c][w].task
           f == chunk_map[t.chunk].fd
           r == [at |-> IF f < 0 THEN "open" ELSE "pread", task |-> t, fd |-> f]
<1>1. /\ reader[c][w].at = "fd" /\ Set(c, w, r) /\ Unaggregated /\ call' = call
      /\ dese_map' = dese_map /\ chunk_map' = chunk_map /\ disk' = disk /\ fds' = fds /\ phase' = phase /\ ret' = ret
  BY DEF GetChunkFd, Set, Unaggregated, aggVars
<1>2. Working(c, w) /\ CallTyped(call[c]) /\ CallOK(c) /\ TaskOK(c) /\ SpanOK(c) /\ (Apart => ByteOK(c))
  BY <1>1 DEF TypeOK, Read, CallsOK, TasksOK, SpansOK, BytesOK, Working
<1>3. call[c].at = "reading"
  BY <1>1, <1>2 DEF CallOK, NoReader, CallTyped
<1>4. t \in Task /\ OfChunk(t)
  BY <1>2, <1>3 DEF TaskOK, TypeOK, Reader
<1>5. f \in Fd
  <2>1. chunk_map[t.chunk] \in Chunk
    BY <1>4 DEF OfChunk, TypeOK, AggTypeOK
  <2> QED BY <2>1 DEF Chunk
<1> HIDE DEF f
<1>6. r \in Reader /\ r.at \in {"open", "pread"} /\ r.task = t /\ (r.at = "pread" => f # -1) /\ r.fd = f
  <2>1. f < 0 \/ f # -1
    BY <1>5 DEF Fd
  <2> QED BY <1>4, <1>5, <2>1 DEF Reader
<1> HIDE DEF r, t
<1>7. /\ reader' \in [Calls -> [Workers -> Reader]] /\ reader'[c][w] = r
      /\ \A v \in Workers : v # w => reader'[c][v] = reader[c][v]
      /\ \A d \in Calls : d # c => reader'[d] = reader[d]
  BY <1>1, <1>6, ReaderSet DEF TypeOK
<1>8. Alone(c) /\ CallTyped(call[c])' /\ CallOK(c)' /\ Quiet(c)
  BY <1>1, <1>2, <1>6, ReaderGoesOn DEF t
<1>9. SameIndex
  BY <1>1, SameIndexOfSame
<1>10. TaskOK(c)' /\ SpanOK(c)' /\ (ByteOK(c) => ByteOK(c)')
  BY <1>1, <1>2, <1>8, <1>9, CallKept DEF Built
<1>11. FdsOK'
  BY <1>1, <1>6, <1>7, FdsSame DEF Read, f
<1>12. /\ fds' \in [DOMAIN fds' -> disk.present] /\ DOMAIN fds' \subseteq Nat \ {0} /\ IsFiniteSet(DOMAIN fds')
       /\ chunk_map' \in Seq(Chunk)
  BY <1>1 DEF TypeOK, AggTypeOK
<1> QED BY <1>1, <1>2, <1>8, <1>9, <1>10, <1>11, <1>12, OthersKept

LEMMA OpenChunkKeeps ==
  ASSUME TypeOK, Agg, Read, NEW c \in Calls, NEW w \in Workers, OpenChunk(c, w)
  PROVE  TypeOK' /\ Agg' /\ Read'
<1> DEFINE t == reader[c][w].task
           f == NewFd
           r == [at |-> "stash", task |-> t, fd |-> f]
<1>1. CASE t.path \notin disk.present
  <2>1. Failed(c, w) /\ reader[c][w].at = "open" /\ UNCHANGED <<aggVars, disk, fds>>
    BY <1>1 DEF OpenChunk
  <2> QED BY <2>1, FailedKeeps
<1>2. CASE t.path \in disk.present
  <2>1. /\ reader[c][w].at = "open" /\ Set(c, w, r) /\ Unaggregated /\ call' = call
        /\ dese_map' = dese_map /\ chunk_map' = chunk_map /\ disk' = disk /\ phase' = phase /\ ret' = ret
        /\ fds' = [g \in DOMAIN fds \cup {f} |-> IF g = f THEN t.path ELSE fds[g]]
    BY <1>2 DEF OpenChunk, Set, Unaggregated, aggVars
  <2>2. Working(c, w) /\ CallTyped(call[c]) /\ CallOK(c) /\ TaskOK(c) /\ SpanOK(c) /\ (Apart => ByteOK(c))
    BY <2>1 DEF TypeOK, Read, CallsOK, TasksOK, SpansOK, BytesOK, Working
  <2>3. call[c].at = "reading"
    BY <2>1, <2>2 DEF CallOK, NoReader, CallTyped
  <2>4. t \in Task /\ OfChunk(t)
    BY <2>2, <2>3 DEF TaskOK, TypeOK, Reader
  <2>5. f \in Nat \ {0} /\ f \notin DOMAIN fds
    BY NewFdIsNew DEF TypeOK
  <2> HIDE DEF f
  <2>6. r \in Reader /\ r.at = "stash" /\ r.task = t /\ r.fd = f
    BY <2>4, <2>5 DEF Reader, Fd
  <2> HIDE DEF r, t
  <2>7. /\ reader' \in [Calls -> [Workers -> Reader]] /\ reader'[c][w] = r
        /\ \A v \in Workers : v # w => reader'[c][v] = reader[c][v]
        /\ \A d \in Calls : d # c => reader'[d] = reader[d]
    BY <2>1, <2>6, ReaderSet DEF TypeOK
  <2>8. Alone(c) /\ CallTyped(call[c])' /\ CallOK(c)' /\ Quiet(c)
    BY <2>1, <2>2, <2>6, ReaderGoesOn DEF t
  <2>9. SameIndex
    BY <2>1, SameIndexOfSame
  <2>10. TaskOK(c)' /\ SpanOK(c)' /\ (ByteOK(c) => ByteOK(c)')
    BY <2>1, <2>2, <2>8, <2>9, CallKept DEF Built
  <2>11. /\ DOMAIN fds' = DOMAIN fds \cup {f} /\ fds'[f] = t.path
         /\ \A g \in DOMAIN fds : g # f /\ fds'[g] = fds[g]
    BY <2>1, <2>5
  <2>12. /\ fds' \in [DOMAIN fds' -> disk.present] /\ DOMAIN fds' \subseteq Nat \ {0} /\ IsFiniteSet(DOMAIN fds')
    <3>1. IsFiniteSet(DOMAIN fds \cup {f})
      BY FS_AddElement DEF TypeOK
    <3>2. fds' \in [DOMAIN fds \cup {f} -> disk.present]
      BY <1>2, <2>1 DEF TypeOK, t
    <3> QED BY <2>5, <2>11, <3>1, <3>2 DEF TypeOK
  <2>13. ChunkFdsOK'
    BY <2>1, <2>11 DEF Read, FdsOK, ChunkFdsOK, Unopened
  <2>14. \A i \in DOMAIN chunk_map : chunk_map[i].fd # f
    BY <2>5 DEF Read, FdsOK, ChunkFdsOK
  <2>15. \A d \in Calls, v \in Workers : ~Holds(d, v, f)
    BY <2>5 DEF Read, FdsOK, ReaderFdOK, Holds
  <2>16. \A d \in Calls, v \in Workers : d # c \/ v # w => reader'[d][v] = reader[d][v]
    BY <2>7
  <2>17. ReaderFdOK(c, w)'
    BY <2>1, <2>6, <2>7, <2>11, <2>14, <2>15, <2>16 DEF ReaderFdOK, Holds
  <2>18. ASSUME NEW d \in Calls, NEW v \in Workers, d # c \/ v # w
         PROVE  ReaderFdOK(d, v)'
    <3>1. reader'[d][v] = reader[d][v] /\ ReaderFdOK(d, v)
      BY <2>16, <2>18 DEF Read, FdsOK
    <3>2. reader[d][v].at = "stash" => reader[d][v].fd # f
      BY <2>15 DEF Holds
    <3> QED BY <2>1, <2>6, <2>7, <2>11, <2>16, <3>1, <3>2 DEF ReaderFdOK, Holds
  <2>19. \A g \in DOMAIN fds' :
       \/ \E i \in DOMAIN chunk_map : chunk_map[i].fd = g
       \/ \E d \in Calls, v \in Workers : Holds(d, v, g)'
    <3>1. \A g : g = f => Holds(c, w, g)'
      BY <2>6, <2>7 DEF Holds
    <3>2. \A d \in Calls, v \in Workers, g \in DOMAIN fds : Holds(d, v, g) => Holds(d, v, g)'
      BY <2>1, <2>16 DEF Holds
    <3> TAKE g \in DOMAIN fds'
    <3>3. CASE g = f
      BY <3>1, <3>3
    <3>4. CASE g # f
      <4>1. g \in DOMAIN fds
        BY <2>11, <3>4
      <4>2. \/ \E i \in DOMAIN chunk_map : chunk_map[i].fd = g
            \/ \E d \in Calls, v \in Workers : Holds(d, v, g)
        BY <4>1 DEF Read, FdsOK
      <4> QED BY <3>2, <4>1, <4>2
    <3> QED BY <3>3, <3>4
  <2>20. FdsOK'
    BY <2>1, <2>13, <2>17, <2>18, <2>19 DEF FdsOK
  <2>21. chunk_map' \in Seq(Chunk)
    BY <2>1 DEF TypeOK, AggTypeOK
  <2> QED BY <2>1, <2>2, <2>8, <2>9, <2>10, <2>12, <2>20, <2>21, OthersKept
<1> QED BY <1>1, <1>2

LEMMA StashKeeps ==
  ASSUME TypeOK, Agg, Read, NEW c \in Calls, NEW w \in Workers, Stash(c, w)
  PROVE  TypeOK' /\ Agg' /\ Read'
<1> DEFINE t == reader[c][w].task
           mine == reader[c][w].fd
           chunk == chunk_map[t.chunk]
           f == IF chunk.fd >= 0 THEN chunk.fd ELSE mine
           r == [at |-> "pread", task |-> t, fd |-> f]
<1>1. /\ reader[c][w].at = "stash" /\ Set(c, w, r) /\ Unaggregated /\ call' = call
      /\ dese_map' = dese_map /\ disk' = disk /\ phase' = phase /\ ret' = ret
      /\ chunk.fd >= 0 => fds' = Closed(mine) /\ chunk_map' = chunk_map
      /\ ~(chunk.fd >= 0) => /\ fds' = fds
                             /\ chunk_map' = [chunk_map EXCEPT ![t.chunk] = [path |-> chunk.path, fd |-> mine]]
  BY DEF Stash, Set, Unaggregated
<1>2. Working(c, w) /\ CallTyped(call[c]) /\ CallOK(c) /\ TaskOK(c) /\ SpanOK(c) /\ (Apart => ByteOK(c))
  BY <1>1 DEF TypeOK, Read, CallsOK, TasksOK, SpansOK, BytesOK, Working
<1>3. call[c].at = "reading"
  <2>1. call[c].at # "reading" => reader[c][w] = NoReader
    BY <1>2 DEF CallOK
  <2>2. NoReader.at # "stash"
    BY DEF NoReader
  <2> QED BY <1>1, <2>1, <2>2
<1>4. t \in Task /\ t.chunk \in DOMAIN chunk_map /\ t.path = chunk.path
  BY <1>2, <1>3 DEF TaskOK, OfChunk, TypeOK, Reader
<1>5. chunk \in Chunk /\ chunk.fd \in Fd /\ chunk.path \in Paths
  <2>1. chunk \in Chunk
    BY <1>4 DEF TypeOK, AggTypeOK
  <2> QED BY <2>1 DEF Chunk
<1>6. /\ mine \in DOMAIN fds /\ fds[mine] = t.path /\ mine \in Nat \ {0}
      /\ \A i \in DOMAIN chunk_map : chunk_map[i].fd # mine
      /\ \A d \in Calls, v \in Workers : Holds(d, v, mine) => d = c /\ v = w
  BY <1>1 DEF TypeOK, Read, FdsOK, ReaderFdOK
<1>7. chunk.fd >= 0 \/ chunk.fd = -1
  BY <1>5 DEF Fd
<1>8. f \in Fd /\ f # -1
  BY <1>5, <1>6, <1>7 DEF Fd
<1> HIDE DEF mine
<1>9. r \in Reader /\ r.at = "pread" /\ r.task = t /\ r.fd = f
  BY <1>4, <1>8 DEF Reader
<1> HIDE DEF r, t
<1>10. /\ reader' \in [Calls -> [Workers -> Reader]] /\ reader'[c][w] = r
       /\ \A v \in Workers : v # w => reader'[c][v] = reader[c][v]
       /\ \A d \in Calls : d # c => reader'[d] = reader[d]
  BY <1>1, <1>9, ReaderSet DEF TypeOK
<1>11. Alone(c) /\ CallTyped(call[c])' /\ CallOK(c)' /\ Quiet(c)
  BY <1>1, <1>2, <1>9, ReaderGoesOn DEF t
<1>12. /\ chunk_map' \in Seq(Chunk) /\ DOMAIN chunk_map' = DOMAIN chunk_map
       /\ chunk_map'[t.chunk].path = chunk.path /\ chunk_map'[t.chunk].fd = f
       /\ \A i \in DOMAIN chunk_map : i # t.chunk => chunk_map'[i] = chunk_map[i]
  <2>1. CASE chunk.fd >= 0
    BY <1>1, <2>1 DEF TypeOK, AggTypeOK
  <2>2. CASE ~(chunk.fd >= 0)
    <3>1. [path |-> chunk.path, fd |-> mine] \in Chunk
      BY <1>5, <1>6 DEF Chunk, Fd
    <3>2. chunk_map \in Seq(Chunk)
      BY DEF TypeOK, AggTypeOK
    <3>3. f = mine
      BY <2>2
    <3> HIDE DEF f, chunk
    <3> QED BY <1>1, <1>4, <2>2, <3>1, <3>2, <3>3
  <2> QED BY <2>1, <2>2
<1>13. SameIndex
  BY <1>1, <1>7, <1>12 DEF SameIndex
<1>14. TaskOK(c)' /\ SpanOK(c)' /\ (ByteOK(c) => ByteOK(c)')
  BY <1>1, <1>2, <1>11, <1>13, CallKept DEF Built
<1>15. \A d \in Calls, v \in Workers : d # c \/ v # w => reader'[d][v] = reader[d][v]
  BY <1>10
<1>16. \A d \in Calls, v \in Workers : \A g :
         /\ Holds(d, v, g)' => Holds(d, v, g) /\ (d # c \/ v # w)
         /\ Holds(d, v, g) /\ g # mine => Holds(d, v, g)'
  BY <1>1, <1>9, <1>10, <1>15 DEF Holds, mine
<1>17. CASE chunk.fd >= 0
  <2>1. /\ DOMAIN fds' = DOMAIN fds \ {mine} /\ (\A g \in DOMAIN fds \ {mine} : fds'[g] = fds[g])
        /\ chunk_map' = chunk_map /\ f = chunk.fd
    BY <1>1, <1>17 DEF Closed
  <2>2. /\ fds' \in [DOMAIN fds' -> disk.present] /\ DOMAIN fds' \subseteq Nat \ {0} /\ IsFiniteSet(DOMAIN fds')
    <3>1. IsFiniteSet(DOMAIN fds \ {mine})
      BY FS_Subset DEF TypeOK
    <3>2. fds' \in [DOMAIN fds \ {mine} -> disk.present]
      BY <1>1, <1>17 DEF TypeOK, Closed
    <3> QED BY <2>1, <3>1, <3>2 DEF TypeOK
  <2>3. ChunkFdsOK'
    BY <1>1, <1>6, <2>1 DEF Read, FdsOK, ChunkFdsOK, Unopened
  <2>4. ReaderFdOK(c, w)'
    BY <1>8, <1>9, <1>10, <2>1 DEF ReaderFdOK, chunk
  <2>5. ASSUME NEW d \in Calls, NEW v \in Workers, d # c \/ v # w
        PROVE  ReaderFdOK(d, v)'
    <3>1. reader'[d][v] = reader[d][v] /\ ReaderFdOK(d, v)
      BY <1>15, <2>5 DEF Read, FdsOK
    <3>2. reader[d][v].at = "stash" => reader[d][v].fd # mine
      BY <1>6, <2>5 DEF Holds
    <3>3. reader[d][v].at = "stash" => \A e \in Calls, u \in Workers : Holds(e, u, reader[d][v].fd) => e = d /\ u = v
      BY <3>1 DEF ReaderFdOK
    <3>4. \A e \in Calls, u \in Workers : reader'[e][u].at = "stash" => reader'[e][u] = reader[e][u]
      BY <1>9, <1>10, <1>15
    <3> QED BY <2>1, <3>1, <3>2, <3>3, <3>4 DEF ReaderFdOK, Holds
  <2>6. \A g \in DOMAIN fds' :
       \/ \E i \in DOMAIN chunk_map : chunk_map[i].fd = g
       \/ \E d \in Calls, v \in Workers : Holds(d, v, g)'
    BY <1>16, <2>1 DEF Read, FdsOK
  <2>7. FdsOK'
    BY <2>1, <2>3, <2>4, <2>5, <2>6 DEF FdsOK
  <2> QED BY <1>1, <1>2, <1>11, <1>12, <1>13, <1>14, <2>2, <2>7, OthersKept
<1>18. CASE ~(chunk.fd >= 0)
  <2>1. fds' = fds /\ f = mine /\ chunk.fd = -1
    BY <1>1, <1>7, <1>18
  <2>2. /\ fds' \in [DOMAIN fds' -> disk.present] /\ DOMAIN fds' \subseteq Nat \ {0} /\ IsFiniteSet(DOMAIN fds')
    BY <2>1 DEF TypeOK
  <2>3. Built
    BY <1>2, <1>3 DEF CallOK
  <2>4. ChunkFdsOK'
    <3>1. phase' \notin {"list", "run", "pool"}
      BY <1>1, <2>3 DEF Built
    <3>2. \A i \in DOMAIN chunk_map' : LET g == chunk_map'[i].fd IN
            g # -1 => g \in DOMAIN fds /\ fds[g] = chunk_map'[i].path
      BY <1>4, <1>6, <1>12, <2>1 DEF Read, FdsOK, ChunkFdsOK
    <3>3. \A i, j \in DOMAIN chunk_map' : chunk_map'[i].fd = chunk_map'[j].fd /\ i # j => chunk_map'[i].fd = -1
      BY <1>6, <1>12, <2>1 DEF Read, FdsOK, ChunkFdsOK
    <3> QED BY <2>1, <3>1, <3>2, <3>3 DEF ChunkFdsOK
  <2>5. ReaderFdOK(c, w)'
    BY <1>8, <1>9, <1>10, <1>12 DEF ReaderFdOK
  <2>6. ASSUME NEW d \in Calls, NEW v \in Workers, d # c \/ v # w
        PROVE  ReaderFdOK(d, v)'
    <3>1. reader'[d][v] = reader[d][v] /\ ReaderFdOK(d, v)
      BY <1>15, <2>6 DEF Read, FdsOK
    <3>2. reader[d][v].at = "stash" => reader[d][v].fd # mine
      BY <1>6, <2>6 DEF Holds
    <3>3. reader[d][v].at = "stash" => \A e \in Calls, u \in Workers : Holds(e, u, reader[d][v].fd) => e = d /\ u = v
      BY <3>1 DEF ReaderFdOK
    <3>4. \A e \in Calls, u \in Workers : reader'[e][u].at = "stash" => reader'[e][u] = reader[e][u]
      BY <1>9, <1>10, <1>15
    <3>5. ASSUME reader[d][v].at = "pread" PROVE reader[d][v].fd = chunk_map'[reader[d][v].task.chunk].fd
      <4>1. reader[d][v].fd # -1 /\ reader[d][v].fd = chunk_map[reader[d][v].task.chunk].fd
        BY <3>1, <3>5 DEF ReaderFdOK
      <4>2. Working(d, v) /\ call[d].at = "reading" /\ TaskOK(d)
        BY <3>5 DEF Working, Read, CallsOK, CallOK, NoReader, TasksOK
      <4>3. reader[d][v].task.chunk \in DOMAIN chunk_map
        BY <4>2 DEF TaskOK, OfChunk
      <4> QED BY <1>12, <2>1, <4>1, <4>3
    <3> QED BY <1>12, <2>1, <3>1, <3>2, <3>3, <3>4, <3>5 DEF ReaderFdOK, Holds
  <2>7. ASSUME NEW g \in DOMAIN fds
        PROVE  \/ \E i \in DOMAIN chunk_map' : chunk_map'[i].fd = g
               \/ \E d \in Calls, v \in Workers : Holds(d, v, g)'
    <3>1. CASE g = mine
      BY <1>4, <1>12, <2>1, <3>1
    <3>2. CASE g # mine /\ \E d \in Calls, v \in Workers : Holds(d, v, g)
      BY <1>16, <3>2
    <3>3. ASSUME NEW i \in DOMAIN chunk_map, chunk_map[i].fd = g
          PROVE  \E j \in DOMAIN chunk_map' : chunk_map'[j].fd = g
      <4>1. i # t.chunk
        BY <2>1, <3>3 DEF TypeOK
      <4> QED BY <1>12, <3>3, <4>1
    <3> QED BY <3>1, <3>2, <3>3 DEF Read, FdsOK
  <2>8. FdsOK'
    BY <2>1, <2>4, <2>5, <2>6, <2>7 DEF FdsOK
  <2> QED BY <1>1, <1>2, <1>11, <1>12, <1>13, <1>14, <2>2, <2>8, OthersKept
<1> QED BY <1>17, <1>18
LEMMA TakeKeeps ==
  ASSUME TypeOK, Agg, Read, NEW c \in Calls, NEW w \in Workers, Take(c, w)
  PROVE  TypeOK' /\ Agg' /\ Read'
<1>1. /\ reader[c][w].at = "take" /\ Unaggregated /\ disk' = disk /\ fds' = fds /\ phase' = phase /\ ret' = ret
      /\ dese_map' = dese_map /\ chunk_map' = chunk_map
  BY DEF Take, Unaggregated, aggVars
<1>2. CallTyped(call[c]) /\ CallOK(c) /\ TaskOK(c) /\ SpanOK(c) /\ (Apart => ByteOK(c))
  BY DEF TypeOK, Read, CallsOK, TasksOK, SpansOK, BytesOK
<1>3. call[c].at = "reading" /\ call[c].tasks \in Seq(Task) /\ reader[c][w] \in Reader
  BY <1>1, <1>2 DEF CallOK, NoReader, CallTyped, TypeOK
<1>4. SameIndex
  BY <1>1, SameIndexOfSame
<1>5. /\ fds' \in [DOMAIN fds' -> disk.present] /\ DOMAIN fds' \subseteq Nat \ {0} /\ IsFiniteSet(DOMAIN fds')
      /\ chunk_map' \in Seq(Chunk)
  BY <1>1 DEF TypeOK, AggTypeOK
<1>6. CASE call[c].tasks = << >>
  <2> DEFINE r == [reader[c][w] EXCEPT !.at = "exit"]
  <2>1. Set(c, w, r) /\ call' = call
    BY <1>6 DEF Take, Set
  <2>2. r \in Reader /\ r.at = "exit"
    BY <1>3 DEF Reader
  <2> HIDE DEF r
  <2>3. /\ reader' \in [Calls -> [Workers -> Reader]] /\ reader'[c][w] = r
        /\ \A v \in Workers : v # w => reader'[c][v] = reader[c][v]
        /\ \A d \in Calls : d # c => reader'[d] = reader[d]
    BY <2>1, <2>2, ReaderSet DEF TypeOK
  <2>4. CallOK(c)'
    BY <1>1, <1>2, <1>6, <2>1, <2>2, CallGoesOn
  <2>5. Quiet(c) /\ CallTyped(call[c])'
    BY <1>1, <1>2, <2>1, <2>2, <2>3 DEF Quiet, Working, CallTyped
  <2>6. Alone(c)
    BY <2>1, <2>3 DEF Alone, TypeOK
  <2>7. TaskOK(c)' /\ SpanOK(c)' /\ (ByteOK(c) => ByteOK(c)')
    BY <1>1, <1>2, <1>4, <2>5, CallKept DEF Built
  <2>8. FdsOK'
    BY <1>1, <2>2, <2>3, FdsSame DEF Read
  <2> QED BY <1>1, <1>2, <1>4, <1>5, <2>4, <2>5, <2>6, <2>7, <2>8, OthersKept
<1>7. CASE call[c].tasks # << >>
  <2> DEFINE ts == call[c].tasks
             t == Head(ts)
             r == [at |-> IF t.fd < 0 THEN "fd" ELSE "pread", task |-> t, fd |-> t.fd]
  <2>1. Set(c, w, r) /\ call' = [call EXCEPT ![c].tasks = Tail(ts)]
    BY <1>7 DEF Take, Set
  <2>2. /\ t \in Task /\ t = ts[1] /\ 1 \in DOMAIN ts /\ Tail(ts) \in Seq(Task)
        /\ \A i \in DOMAIN Tail(ts) : i + 1 \in DOMAIN ts /\ i + 1 # 1 /\ Tail(ts)[i] = ts[i + 1]
        /\ \A i \in DOMAIN ts : i # 1 => i - 1 \in DOMAIN Tail(ts) /\ Tail(ts)[i - 1] = ts[i]
    BY <1>3, <1>7
  <2>3. t.fd \in Fd /\ OfChunk(t)
    BY <1>2, <1>3, <2>2 DEF Task, TaskOK
  <2> HIDE DEF t
  <2>4. r \in Reader /\ r.at \in {"fd", "pread"} /\ r.task = t /\ r.fd = t.fd /\ (r.at = "pread" => r.fd # -1)
    BY <2>2, <2>3 DEF Reader, Fd
  <2> HIDE DEF r
  <2>5. /\ reader' \in [Calls -> [Workers -> Reader]] /\ reader'[c][w] = r
        /\ \A v \in Workers : v # w => reader'[c][v] = reader[c][v]
        /\ \A d \in Calls : d # c => reader'[d] = reader[d]
    BY <2>1, <2>4, ReaderSet DEF TypeOK
  <2>6. /\ call' = [d \in Calls |-> call'[d]] /\ (\A d \in Calls : d # c => call'[d] = call[d])
        /\ call'[c] = [call[c] EXCEPT !.tasks = Tail(ts)]
    BY <2>1 DEF TypeOK
  <2>7. /\ call'[c].at = call[c].at /\ call'[c].offset = call[c].offset /\ call'[c].tasks = Tail(ts)
        /\ call'[c].buf = call[c].buf /\ call'[c].total = call[c].total /\ call'[c].error = call[c].error
        /\ CallTyped(call'[c])
    BY <1>2, <2>2, <2>6 DEF CallTyped
  <2>8. CallTyped(call[c])'
    BY <2>7 DEF CallTyped
  <2>9. CallOK(c)'
    BY <1>1, <1>2, <1>7, <2>1, <2>4, <2>7, CallGoesOn
  <2>10. Alone(c)
    BY <2>5, <2>6 DEF Alone
  <2>11. ~Working(c, w) /\ \A v \in Workers : Working(c, v)' <=> v = w \/ (v # w /\ Working(c, v))
    BY <1>1, <2>4, <2>5 DEF Working
  <2>12. TaskOK(c)'
    <3>1. \A i \in DOMAIN call'[c].tasks : OfChunk(call'[c].tasks[i])
      BY <1>2, <1>3, <2>2, <2>7 DEF TaskOK
    <3>2. \A v \in Workers : Working(c, v)' => OfChunk(reader'[c][v].task)
      BY <1>2, <1>3, <2>3, <2>4, <2>5, <2>11 DEF TaskOK
    <3> QED BY <1>1, <3>1, <3>2 DEF TaskOK, OfChunk
  <2>13. SpanOK(c)'
    <3>1. /\ Put(c)' = Put(c)
          /\ \A u : Free(c, u) => Span(u) \subseteq DOMAIN call'[c].buf /\ Span(u) \cap Put(c) = {}
      BY <2>7 DEF Put, Free
    <3>2. \A i \in DOMAIN ts : Free(c, ts[i]) /\ \A j \in DOMAIN ts : i # j => Span(ts[i]) \cap Span(ts[j]) = {}
      BY <1>2, <1>3 DEF SpanOK
    <3>3. \A i \in DOMAIN call'[c].tasks : LET u == call'[c].tasks[i] IN
            /\ Free(c, u) /\ Span(t) \cap Span(u) = {}
            /\ \A j \in DOMAIN call'[c].tasks : i # j => Span(u) \cap Span(call'[c].tasks[j]) = {}
      <4> HIDE DEF ts
      <4>1. \A i, j \in DOMAIN Tail(ts) : i # j => i + 1 # j + 1
        BY <1>3, <2>2 DEF ts
      <4> QED BY <2>2, <2>7, <3>2, <4>1
    <3>4. \A v \in Workers : Working(c, v)' => LET u == reader'[c][v].task IN
            /\ Free(c, u) /\ (v # w => Span(t) \cap Span(u) = {})
            /\ \A j \in DOMAIN call'[c].tasks : Span(u) \cap Span(call'[c].tasks[j]) = {}
            /\ \A x \in Workers : Working(c, x)' /\ x # v => Span(u) \cap Span(reader'[c][x].task) = {}
      <4>1. ASSUME NEW v \in Workers, v # w, Working(c, v)'
            PROVE  LET u == reader'[c][v].task IN
                   /\ Free(c, u) /\ Span(t) \cap Span(u) = {} /\ Span(u) \cap Span(t) = {}
                   /\ \A j \in DOMAIN call'[c].tasks : Span(u) \cap Span(call'[c].tasks[j]) = {}
                   /\ \A x \in Workers : Working(c, x) /\ x # v => Span(u) \cap Span(reader[c][x].task) = {}
        <5>1. reader'[c][v].task = reader[c][v].task /\ Working(c, v)
          BY <2>5, <2>11, <4>1
        <5>2. LET u == reader[c][v].task IN
              /\ Free(c, u) /\ \A j \in DOMAIN ts : Span(u) \cap Span(ts[j]) = {}
              /\ \A x \in Workers : Working(c, x) /\ x # v => Span(u) \cap Span(reader[c][x].task) = {}
          BY <1>2, <1>3, <5>1 DEF SpanOK
        <5> HIDE DEF ts
        <5> QED BY <2>2, <2>7, <5>1, <5>2
      <4>2. /\ reader'[c][w].task = t /\ Free(c, t)
            /\ \A j \in DOMAIN call'[c].tasks : Span(t) \cap Span(call'[c].tasks[j]) = {}
        BY <2>2, <2>4, <2>5, <3>2, <3>3
      <4> QED BY <2>5, <2>11, <4>1, <4>2
    <3>5. ASSUME NEW u, Free(c, u) PROVE Free(c, u)'
      BY <3>1, <3>5 DEF Free, Span
    <3>6. ASSUME NEW i \in DOMAIN call'[c].tasks
          PROVE  Free(c, call[c].tasks[i])'
      <4>1. PICK u : u = call'[c].tasks[i]
        OBVIOUS
      <4> QED BY <3>3, <3>5, <4>1
    <3>7. ASSUME NEW v \in Workers, Working(c, v)'
          PROVE  Free(c, reader[c][v].task)'
      <4>1. PICK u : u = reader'[c][v].task
        OBVIOUS
      <4> QED BY <3>4, <3>5, <3>7, <4>1
    <3>8. call'[c].total = Cardinality(Put(c)')
      BY <1>2, <2>7, <3>1 DEF SpanOK
    <3> QED BY <3>3, <3>4, <3>6, <3>7, <3>8 DEF SpanOK
  <2>14. ASSUME ByteOK(c) PROVE ByteOK(c)'
    <3>1. ASSUME NEW u, Right(c, u), Free(c, u)
          PROVE  Right(c, u)'
      BY <1>2, <1>4, <2>7, <3>1, RightKept DEF Free
    <3>2. ASSUME NEW i \in DOMAIN call'[c].tasks
          PROVE  Right(c, call[c].tasks[i])'
      <4>1. PICK u : u = call'[c].tasks[i]
        OBVIOUS
      <4>2. Right(c, u) /\ Free(c, u)
        BY <1>2, <1>3, <2>2, <2>7, <2>14, <4>1 DEF ByteOK, SpanOK
      <4> QED BY <3>1, <4>1, <4>2
    <3>3. ASSUME NEW v \in Workers, Working(c, v)'
          PROVE  Right(c, reader[c][v].task)'
      <4>1. PICK u : u = reader'[c][v].task
        OBVIOUS
      <4>2. Right(c, u) /\ Free(c, u)
        BY <1>2, <1>3, <2>2, <2>4, <2>5, <2>11, <2>14, <3>3, <4>1 DEF ByteOK, SpanOK
      <4> QED BY <3>1, <4>1, <4>2
    <3>4. ASSUME Built', ~call'[c].error, NEW b \in DOMAIN call[c].buf
          PROVE  Owed(c, b)' \/ Settled(c, b)'
      <4>1. Owed(c, b) \/ Settled(c, b)
        BY <1>1, <1>3, <2>7, <2>14, <3>4 DEF ByteOK, Built
      <4>2. Settled(c, b) => Settled(c, b)'
        BY <1>1, <1>2, <1>4, <2>7, SettledKept
      <4>3. ASSUME NEW i \in DOMAIN ts, b \in Span(ts[i])
            PROVE  Owed(c, b)'
        <5>1. CASE i = 1
          BY <2>2, <2>4, <2>5, <2>11, <4>3, <5>1 DEF Owed, Span
        <5>2. CASE i # 1
          <6>1. i - 1 \in DOMAIN call'[c].tasks /\ call'[c].tasks[i - 1] = ts[i]
            BY <2>2, <2>7, <5>2
          <6> QED BY <4>3, <6>1 DEF Owed, Span
        <5> QED BY <5>1, <5>2
      <4>4. ASSUME NEW v \in Workers, Working(c, v), b \in Span(reader[c][v].task)
            PROVE  Owed(c, b)'
        BY <2>5, <2>11, <4>4 DEF Owed, Span
      <4> QED BY <4>1, <4>2, <4>3, <4>4 DEF Owed
    <3> QED BY <2>7, <3>2, <3>3, <3>4 DEF ByteOK
  <2>15. FdsOK'
    <3>1. r.at = "pread" => r.fd # -1 /\ r.fd = chunk_map[r.task.chunk].fd
      BY <2>3, <2>4 DEF OfChunk
    <3> QED BY <1>1, <2>4, <2>5, <3>1, FdsSame DEF Read
  <2> QED BY <1>1, <1>2, <1>4, <1>5, <2>8, <2>9, <2>10, <2>12, <2>13, <2>14, <2>15, OthersKept
<1> QED BY <1>6, <1>7

LEMMA ReturnKeeps ==
  ASSUME TypeOK, Agg, Read, NEW c \in Calls, Return(c)
  PROVE  TypeOK' /\ Agg' /\ Read'
<1>1. /\ call[c].at = "reading" /\ (\A w \in Workers : reader[c][w].at \in {"off", "exit"})
      /\ call' = [call EXCEPT ![c].at = "returned"]
      /\ reader' = [reader EXCEPT ![c] = [w \in Workers |-> NoReader]]
      /\ Unaggregated /\ disk' = disk /\ fds' = fds /\ phase' = phase /\ ret' = ret
      /\ dese_map' = dese_map /\ chunk_map' = chunk_map
  BY DEF Return, Unaggregated, aggVars
<1>2. CallTyped(call[c]) /\ CallOK(c) /\ TaskOK(c) /\ SpanOK(c) /\ (Apart => ByteOK(c))
  BY DEF TypeOK, Read, CallsOK, TasksOK, SpansOK, BytesOK
<1>3. /\ call' = [d \in Calls |-> call'[d]] /\ (\A d \in Calls : d # c => call'[d] = call[d])
      /\ call'[c] = [call[c] EXCEPT !.at = "returned"]
  BY <1>1 DEF TypeOK
<1>4. /\ call'[c].at = "returned" /\ call'[c].offset = call[c].offset /\ call'[c].tasks = call[c].tasks
      /\ call'[c].buf = call[c].buf /\ call'[c].total = call[c].total /\ call'[c].error = call[c].error
      /\ CallTyped(call'[c])
  BY <1>2, <1>3 DEF CallTyped
<1>5. CallTyped(call[c])'
  BY <1>4 DEF CallTyped
<1>6. /\ reader' \in [Calls -> [Workers -> Reader]] /\ (\A w \in Workers : reader'[c][w] = NoReader)
      /\ \A d \in Calls : d # c => reader'[d] = reader[d]
  BY <1>1, NoReaderTyped DEF TypeOK
<1>7. Alone(c)
  BY <1>3, <1>6 DEF Alone
<1>8. Built /\ (~call[c].error => call[c].tasks = << >>)
  <2>1. 1 \in Workers
    BY WorkerOne DEF TypeOK, AggTypeOK
  <2>2. Built /\ reader[c][1].at # "off"
    BY <1>1, <1>2 DEF CallOK
  <2>3. reader[c][1].at = "exit"
    BY <1>1, <2>1, <2>2
  <2> QED BY <1>1, <1>2, <2>1, <2>2, <2>3 DEF CallOK
<1>9. CallOK(c)'
  BY <1>1, <1>4, <1>6, <1>8 DEF CallOK, Built
<1>10. SameIndex
  BY <1>1, SameIndexOfSame
<1>11. TaskOK(c)'
  BY <1>4 DEF TaskOK
<1>12. SpanOK(c)'
  <2>1. Put(c)' = Put(c)
    BY <1>4 DEF Put
  <2> QED BY <1>2, <1>4, <2>1 DEF SpanOK
<1>13. ASSUME Apart PROVE ByteOK(c)'
  <2>1. ASSUME ~call[c].error, NEW b \in DOMAIN call[c].buf
        PROVE  Settled(c, b)'
    <3>1. ~Owed(c, b)
      BY <1>1, <1>8, <2>1 DEF Owed, Working
    <3>2. Settled(c, b)
      BY <1>1, <1>2, <1>8, <1>13, <2>1, <3>1 DEF ByteOK
    <3> QED BY <1>1, <1>2, <1>4, <1>10, <3>2, SettledKept
  <2> QED BY <1>4, <2>1 DEF ByteOK
<1>14. FdsOK'
  <2>1. \A w \in Workers : reader[c][w].at # "stash" /\ reader'[c][w].at = "off"
    BY <1>1, <1>6 DEF NoReader
  <2> QED BY <1>1, <1>6, <2>1, FdsSame DEF Read
<1>15. /\ fds' \in [DOMAIN fds' -> disk.present] /\ DOMAIN fds' \subseteq Nat \ {0} /\ IsFiniteSet(DOMAIN fds')
       /\ chunk_map' \in Seq(Chunk)
  BY <1>1 DEF TypeOK, AggTypeOK
<1> QED BY <1>1, <1>5, <1>7, <1>9, <1>10, <1>11, <1>12, <1>13, <1>14, <1>15, OthersKept

LEMMA DeleteIndexKeeps ==
  ASSUME TypeOK, Agg, Read, DeleteIndex
  PROVE  TypeOK' /\ Agg' /\ Read'
<1>1. /\ phase = "done" /\ (\A c \in Calls : call[c].at # "reading")
      /\ fds' = [f \in DOMAIN fds \ Stashed |-> fds[f]]
      /\ dese_map' = NoUnits /\ chunk_map' = << >> /\ phase' = "closed"
      /\ container' = container /\ threadpool_size' = threadpool_size /\ tasks' = tasks /\ ret' = ret
      /\ thread' = thread /\ missed' = missed /\ disk' = disk /\ call' = call /\ reader' = reader
  BY DEF DeleteIndex
<1>2. DOMAIN dese_map' = {} /\ DOMAIN chunk_map' = {} /\ UnitsTyped(dese_map)' /\ chunk_map' \in Seq(Chunk)
  BY <1>1 DEF NoUnits, UnitsTyped
<1>3. Agg'
  <2>1. AggTypeOK'
    BY <1>1, <1>2 DEF Agg, AggTypeOK, ThreadTyped, UnitsTyped
  <2>2. PhasesOK'
    BY <1>1 DEF Agg, Aggregated, PhasesOK
  <2>3. ThreadsOK'
    <3>1. \A w \in Workers : thread'[w] = Idle
      BY <1>1 DEF Agg, Aggregated, PhasesOK
    <3> QED BY <3>1, IdleThread DEF ThreadsOK
  <2>4. UnitsOK'
    BY <1>2 DEF UnitsOK, Filed, AllFirst, Home
  <2>5. DroppingsOK'
    BY <1>1 DEF DroppingsOK, Built
  <2> QED BY <2>1, <2>2, <2>3, <2>4, <2>5 DEF Agg, Aggregated
<1>4. \A c \in Calls, w \in Workers : reader[c][w].at = "off"
  BY <1>1 DEF Read, CallsOK, CallOK, NoReader
<1>5. DOMAIN fds' = {}
  <2> SUFFICES ASSUME NEW f \in DOMAIN fds \ Stashed PROVE FALSE
    BY <1>1
  <2>1. PICK i \in DOMAIN chunk_map : chunk_map[i].fd = f
    BY <1>4 DEF Read, FdsOK, Holds
  <2>2. f # -1
    BY DEF TypeOK
  <2> QED BY <2>1, <2>2 DEF Stashed
<1>6. TypeOK'
  <2>1. fds' \in [DOMAIN fds' -> disk.present] /\ DOMAIN fds' \subseteq Nat \ {0}
    BY <1>1, <1>5
  <2>2. IsFiniteSet(DOMAIN fds')
    BY <1>5, FS_EmptySet
  <2> QED BY <1>1, <1>3, <2>1, <2>2 DEF TypeOK, Agg, CallTyped
<1>7. CallsOK' /\ TasksOK'
  BY <1>1 DEF Read, CallsOK, CallOK, TasksOK, TaskOK, Built
<1>8. FdsOK'
  BY <1>1, <1>2, <1>4, <1>5 DEF FdsOK, ChunkFdsOK, ReaderFdOK, Unopened
<1>9. SpansOK'
  <2>1. \A c \in Calls : Put(c)' = Put(c)
    BY <1>1 DEF Put
  <2> QED BY <1>1, <2>1 DEF Read, SpansOK, SpanOK
<1>10. BytesOK'
  BY <1>1 DEF BytesOK, ByteOK, Built
<1> QED BY <1>3, <1>6, <1>7, <1>8, <1>9, <1>10 DEF Read

-----------------------------------------------------------------------------
(* pread: how much of a task there is in its data dropping.                *)
Much(t) == IF t.off >= Length THEN 0 ELSE Min2(t.len, Length - t.off)

LEMMA MuchOfTask ==
  ASSUME NEW t \in Task
  PROVE  /\ Much(t) \in 0..t.len /\ t.buf \in Nat /\ t.off \in Nat
         /\ \A b \in Span(t) : /\ b \in Nat /\ b >= t.buf /\ t.off + (b - t.buf) \in Nat
                               /\ b < t.buf + Much(t) <=> t.off + (b - t.buf) < Length
<1>1. t.off \in Nat /\ t.len \in Nat /\ t.buf \in Nat
  BY DEF Task
<1>2. Much(t) \in 0..t.len
  BY <1>1, LengthAssumption DEF Much, Min2
<1>3. ASSUME NEW b \in Span(t)
      PROVE  /\ b \in Nat /\ b >= t.buf /\ t.off + (b - t.buf) \in Nat
             /\ b < t.buf + Much(t) <=> t.off + (b - t.buf) < Length
  <2>1. b \in Nat /\ b >= t.buf /\ b < t.buf + t.len
    BY <1>1 DEF Span
  <2> QED BY <1>1, <2>1, LengthAssumption DEF Much, Min2
<1> QED BY <1>1, <1>2, <1>3

LEMMA MorePut ==
  ASSUME NEW size \in Nat, NEW old \in SUBSET (0..(size - 1)), NEW t \in Task,
         Span(t) \subseteq 0..(size - 1), Span(t) \cap old = {}
  PROVE  LET got == {b \in Span(t) : b < t.buf + Much(t)}
         IN  Cardinality(old \cup got) = Cardinality(old) + Much(t) /\ Cardinality(old \cup got) \in 0..size
<1> DEFINE n == Much(t)
           got == {b \in Span(t) : b < t.buf + n}
<1>1. n \in Nat /\ n <= t.len /\ t.buf \in Nat /\ t.len \in Nat
  BY MuchOfTask DEF Task
<1>2. got = t.buf..(t.buf + n - 1)
  BY <1>1 DEF Span
<1>3. IsFiniteSet(got) /\ Cardinality(got) = n
  <2> HIDE DEF got, n
  <2>1. PICK a \in Nat, e \in Int : a = t.buf /\ e = t.buf + n - 1
    BY <1>1
  <2>2. IsFiniteSet(a..e) /\ Cardinality(a..e) = IF a > e THEN 0 ELSE e - a + 1
    BY FS_Interval
  <2>3. got = a..e /\ n = IF a > e THEN 0 ELSE e - a + 1
    BY <1>1, <1>2, <2>1, SMTT(30)
  <2> QED BY <2>2, <2>3
<1>4. IsFiniteSet(0..(size - 1)) /\ Cardinality(0..(size - 1)) = size
  BY FS_Interval
<1>5. IsFiniteSet(old)
  BY <1>4, FS_Subset
<1>6. got \in SUBSET (0..(size - 1)) /\ old \cap got = {} /\ old \cup got \in SUBSET (0..(size - 1))
  OBVIOUS
<1> HIDE DEF got, n
<1>7. Cardinality(old \cup got) = Cardinality(old) + Cardinality(got) - 0
  <2>1. Cardinality(old \cup got) = Cardinality(old) + Cardinality(got) - Cardinality(old \cap got)
    BY <1>3, <1>5, FS_Union
  <2>2. Cardinality(old \cap got) = 0
    BY <1>6, FS_EmptySet
  <2> QED BY <2>1, <2>2
<1>8. Cardinality(old \cup got) <= size
  BY <1>4, <1>6, FS_Subset
<1>9. Cardinality(old) \in Nat
  BY <1>5, FS_CardinalityType
<1>10. Cardinality(old \cup got) = Cardinality(old) + n
  BY <1>1, <1>3, <1>7, <1>9
<1> QED BY <1>1, <1>8, <1>9, <1>10 DEF got, n

LEMMA PreadKeeps ==
  ASSUME TypeOK, Agg, Read, NEW c \in Calls, NEW w \in Workers, Pread(c, w)
  PROVE  TypeOK' /\ Agg' /\ Read'
<1> DEFINE k == call[c]
           t == reader[c][w].task
           f == reader[c][w].fd
           r == [NoReader EXCEPT !.at = "take"]
           got == {b \in Span(t) : b < t.buf + Much(t)}
           buf == [i \in DOMAIN k.buf |->
                     IF i >= t.buf /\ i < t.buf + Much(t) THEN <<fds[f], t.off + (i - t.buf)>> ELSE k.buf[i]]
           half == [k EXCEPT !.buf = buf]
           new == [half EXCEPT !.total = k.total + Much(t)]
<1>1. CASE fds[f] \in disk.bad /\ Failed(c, w)
  <2>1. reader[c][w].at = "pread" /\ UNCHANGED <<aggVars, disk, fds>>
    BY DEF Pread
  <2> QED BY <1>1, <2>1, FailedKeeps
<1>2. CASE ~(fds[f] \in disk.bad /\ Failed(c, w))
  <2>1. /\ reader[c][w].at = "pread" /\ Set(c, w, r) /\ Unaggregated /\ fds[f] \notin disk.bad
        /\ call' = [call EXCEPT ![c] = new]
        /\ dese_map' = dese_map /\ chunk_map' = chunk_map /\ disk' = disk /\ fds' = fds /\ phase' = phase /\ ret' = ret
    BY <1>2 DEF Pread, Set, Unaggregated, aggVars, Much
  <2> HIDE DEF buf
  <2>2. CallTyped(k) /\ CallOK(c) /\ TaskOK(c) /\ SpanOK(c) /\ (Apart => ByteOK(c)) /\ Working(c, w)
    BY <2>1 DEF TypeOK, Read, CallsOK, TasksOK, SpansOK, BytesOK, Working
  <2>3. k.at = "reading"
    BY <2>1, <2>2 DEF CallOK, NoReader, CallTyped
  <2>4. t \in Task /\ OfChunk(t) /\ Free(c, t)
    BY <2>2, <2>3 DEF TypeOK, Reader, TaskOK, SpanOK
  <2>5. f \in DOMAIN fds /\ fds[f] = t.path /\ fds[f] \in disk.present /\ disk.present \subseteq Paths
    <3>1. f # -1 /\ f = chunk_map[t.chunk].fd
      BY <2>1 DEF Read, FdsOK, ReaderFdOK
    <3>2. f \in DOMAIN fds /\ fds[f] = t.path
      BY <2>4, <3>1 DEF OfChunk, Read, FdsOK, ChunkFdsOK
    <3> QED BY <3>2, DisksAssumption DEF TypeOK
  <2>6. /\ Much(t) \in 0..t.len /\ t.buf \in Nat /\ t.off \in Nat /\ t.len \in Nat
        /\ \A b \in Span(t) : /\ b \in Nat /\ b >= t.buf /\ t.off + (b - t.buf) \in Nat
                              /\ b < t.buf + Much(t) <=> t.off + (b - t.buf) < Length
    BY <2>4, MuchOfTask DEF Task
  <2> HIDE DEF f, t
  <2>7. /\ k.size \in Nat /\ k.buf \in [0..(k.size - 1) -> (Paths \X Nat) \cup {Unset}]
        /\ DOMAIN k.buf = 0..(k.size - 1) /\ Span(t) \subseteq 0..(k.size - 1)
    BY <2>2, <2>4 DEF CallTyped, Free
  <2>8. \A i \in 0..(k.size - 1) : (i >= t.buf /\ i < t.buf + Much(t)) <=> i \in got
    BY <2>6 DEF Span
  <2>9. /\ DOMAIN buf = 0..(k.size - 1)
        /\ \A i \in got : buf[i] = <<t.path, t.off + (i - t.buf)>>
        /\ \A i \in 0..(k.size - 1) : i \notin got => buf[i] = k.buf[i]
    BY <2>5, <2>7, <2>8 DEF buf
  <2>10. \A i \in got : buf[i] \in Paths \X Nat /\ buf[i] # Unset
    <3> TAKE i \in got
    <3>1. PICK x \in Paths, e \in Nat : x = t.path /\ e = t.off + (i - t.buf)
      BY <2>5, <2>6
    <3>2. buf[i] = <<x, e>>
      BY <2>9, <3>1
    <3> QED BY <3>2 DEF Unset
  <2>11. buf \in [0..(k.size - 1) -> (Paths \X Nat) \cup {Unset}]
    <3>1. buf = [i \in 0..(k.size - 1) |-> buf[i]]
      BY <2>7 DEF buf
    <3>2. \A i \in 0..(k.size - 1) : buf[i] \in (Paths \X Nat) \cup {Unset}
      BY <2>7, <2>9, <2>10
    <3> QED BY <3>1, <3>2
  <2>12. /\ call' = [d \in Calls |-> call'[d]] /\ (\A d \in Calls : d # c => call'[d] = call[d]) /\ call'[c] = new
    BY <2>1 DEF TypeOK
  <2>13. /\ new.at = k.at /\ new.offset = k.offset /\ new.tasks = k.tasks /\ new.error = k.error
         /\ new.size = k.size /\ new.pool = k.pool
         /\ new.buf = buf /\ new.total = k.total + Much(t)
         /\ new = [at |-> new.at, offset |-> new.offset, size |-> new.size, tasks |-> new.tasks,
                   pool |-> new.pool, buf |-> new.buf, total |-> new.total, error |-> new.error]
    <3>1. k = [at |-> k.at, offset |-> k.offset, size |-> k.size, tasks |-> k.tasks,
               pool |-> k.pool, buf |-> k.buf, total |-> k.total, error |-> k.error]
      BY <2>2 DEF CallTyped
    <3>2. /\ half.at = k.at /\ half.offset = k.offset /\ half.tasks = k.tasks /\ half.error = k.error
          /\ half.size = k.size /\ half.pool = k.pool /\ half.buf = buf
          /\ half = [at |-> half.at, offset |-> half.offset, size |-> half.size, tasks |-> half.tasks,
                     pool |-> half.pool, buf |-> half.buf, total |-> half.total, error |-> half.error]
      BY <3>1
    <3> HIDE DEF half
    <3> QED BY <3>2
  <2> HIDE DEF new, got
  <2>14. Put(c)' = Put(c) \cup got
    <3>1. Put(c)' = {i \in 0..(k.size - 1) : buf[i] # Unset}
      BY <2>9, <2>12, <2>13 DEF Put
    <3>2. Put(c) = {i \in 0..(k.size - 1) : k.buf[i] # Unset}
      BY <2>7 DEF Put
    <3>3. got \subseteq 0..(k.size - 1)
      BY <2>7 DEF got
    <3> QED BY <2>9, <2>10, <3>1, <3>2, <3>3
  <2>15. Cardinality(Put(c)') = k.total + Much(t) /\ Cardinality(Put(c)') \in 0..k.size
    <3>1. Put(c) \in SUBSET (0..(k.size - 1))
      BY <2>7 DEF Put
    <3>2. Cardinality(Put(c) \cup got) = Cardinality(Put(c)) + Much(t) /\ Cardinality(Put(c) \cup got) \in 0..k.size
      BY <2>4, <2>7, <3>1, MorePut DEF t, got, Free
    <3> QED BY <2>2, <2>14, <3>2 DEF SpanOK
  <2>16. CallTyped(call[c])'
    BY <2>2, <2>11, <2>12, <2>13, <2>15 DEF CallTyped
  <2>17. r \in Reader /\ r.at = "take"
    BY NoReaderTyped DEF NoReader
  <2> HIDE DEF r
  <2>18. /\ reader' \in [Calls -> [Workers -> Reader]] /\ reader'[c][w] = r
         /\ \A v \in Workers : v # w => reader'[c][v] = reader[c][v]
         /\ \A d \in Calls : d # c => reader'[d] = reader[d]
    BY <2>1, <2>17, ReaderSet DEF TypeOK
  <2>19. CallOK(c)'
    BY <2>1, <2>2, <2>12, <2>13, <2>17, CallGoesOn
  <2>20. Alone(c)
    BY <2>12, <2>18 DEF Alone
  <2>21. SameIndex
    BY <2>1, SameIndexOfSame
  <2>22. \A v \in Workers : Working(c, v)' <=> (v # w /\ Working(c, v))
    BY <2>17, <2>18 DEF Working
  <2>23. TaskOK(c)'
    <3>1. chunk_map' = chunk_map
      BY <2>1
    <3>2. \A u : OfChunk(u) => (u.chunk \in DOMAIN chunk_map' /\ u.path = chunk_map'[u.chunk].path
                                /\ (u.fd = -1 \/ u.fd = chunk_map'[u.chunk].fd))
      BY <3>1 DEF OfChunk
    <3>3. /\ \A i \in DOMAIN call[c].tasks : OfChunk(call[c].tasks[i])
          /\ \A v \in Workers : Working(c, v) => OfChunk(reader[c][v].task)
      BY <2>2, <2>3 DEF TaskOK
    <3>4. call'[c].tasks = call[c].tasks
      BY <2>12, <2>13
    <3>5. \A v \in Workers : Working(c, v)' => Working(c, v) /\ reader'[c][v] = reader[c][v]
      BY <2>18, <2>22
    <3>6. \A i \in DOMAIN call[c].tasks : OfChunk(call[c].tasks[i])'
      <4> TAKE i \in DOMAIN call[c].tasks
      <4>1. call'[c].tasks[i] = call[c].tasks[i]
        BY <3>4
      <4> QED BY <3>2, <3>3, <4>1 DEF OfChunk
    <3>7. ASSUME NEW v \in Workers, Working(c, v)' PROVE OfChunk(reader[c][v].task)'
      BY <3>2, <3>3, <3>5, <3>7 DEF OfChunk
    <3> QED BY <3>4, <3>6, <3>7 DEF TaskOK
  <2>24. \A u : Free(c, u) /\ Span(t) \cap Span(u) = {} => Span(u) \subseteq DOMAIN call'[c].buf /\ Span(u) \cap Put(c)' = {}
    <3>1. got \subseteq Span(t)
      BY DEF got
    <3> QED BY <2>7, <2>9, <2>12, <2>13, <2>14, <3>1 DEF Free
  <2>25. ASSUME NEW i \in DOMAIN k.tasks
         PROVE  Free(c, k.tasks[i]) /\ Span(t) \cap Span(k.tasks[i]) = {}
    BY <2>2, <2>3 DEF SpanOK, t
  <2>26. ASSUME NEW v \in Workers, v # w, Working(c, v)
         PROVE  Free(c, reader[c][v].task) /\ Span(t) \cap Span(reader[c][v].task) = {}
    BY <2>2, <2>3, <2>26 DEF SpanOK, t
  <2>27. SpanOK(c)'
    <3>1. ASSUME NEW u, Free(c, u), Span(t) \cap Span(u) = {} PROVE Free(c, u)'
      BY <2>24, <3>1 DEF Free, Span
    <3>2. ASSUME NEW i \in DOMAIN call'[c].tasks
          PROVE  Free(c, call[c].tasks[i])'
      <4>1. PICK u : u = k.tasks[i]
        OBVIOUS
      <4>2. call'[c].tasks[i] = u /\ Free(c, u) /\ Span(t) \cap Span(u) = {}
        BY <2>12, <2>13, <2>25, <4>1
      <4> QED BY <3>1, <4>2
    <3>3. ASSUME NEW v \in Workers, Working(c, v)'
          PROVE  Free(c, reader[c][v].task)'
      <4>1. PICK u : u = reader[c][v].task
        OBVIOUS
      <4>2. reader'[c][v].task = u /\ Free(c, u) /\ Span(t) \cap Span(u) = {}
        BY <2>18, <2>22, <2>26, <3>3, <4>1
      <4> QED BY <3>1, <4>2
    <3>4. call'[c].total = Cardinality(Put(c)')
      BY <2>12, <2>13, <2>15
    <3>5. /\ call'[c].tasks = k.tasks
          /\ \A v \in Workers : Working(c, v)' => Working(c, v) /\ reader'[c][v].task = reader[c][v].task
      BY <2>12, <2>13, <2>18, <2>22
    <3> QED BY <2>2, <2>3, <3>2, <3>3, <3>4, <3>5 DEF SpanOK
  <2>28. ASSUME Apart PROVE ByteOK(c)'
    <3>1. ASSUME NEW u, Right(c, u), Free(c, u)
          PROVE  Right(c, u)'
      BY <2>2, <2>12, <2>13, <2>21, <3>1, RightKept DEF Free
    <3>2. ASSUME NEW i \in DOMAIN call'[c].tasks
          PROVE  Right(c, call[c].tasks[i])'
      <4>1. PICK u : u = k.tasks[i]
        OBVIOUS
      <4>2. call'[c].tasks[i] = u /\ Right(c, u) /\ Free(c, u)
        BY <2>2, <2>3, <2>12, <2>13, <2>25, <2>28, <4>1 DEF ByteOK
      <4> QED BY <3>1, <4>2
    <3>3. ASSUME NEW v \in Workers, Working(c, v)'
          PROVE  Right(c, reader[c][v].task)'
      <4>1. PICK u : u = reader[c][v].task
        OBVIOUS
      <4>2. reader'[c][v].task = u /\ Right(c, u) /\ Free(c, u)
        BY <2>2, <2>3, <2>18, <2>22, <2>26, <2>28, <3>3, <4>1 DEF ByteOK
      <4> QED BY <3>1, <4>2
    <3>4. ASSUME Built, ~k.error, NEW b \in 0..(k.size - 1)
          PROVE  Owed(c, b)' \/ Settled(c, b)'
      <4>1. Owed(c, b) \/ Settled(c, b)
        BY <2>2, <2>3, <2>7, <2>28, <3>4 DEF ByteOK
      <4>2. CASE b \in Span(t)
        <5>1. Reached(c, b) /\ Data(k.offset + b) = <<t.path, t.off + (b - t.buf)>>
          BY <2>2, <2>3, <2>28, <4>2 DEF ByteOK, Right, t
        <5>2. Settled(c, b)'
          <6>1. k.offset \in Nat /\ b \in Nat
            BY <2>2 DEF CallTyped
          <6>2. Reached(c, b)' /\ Data(call[c].offset + b)' = <<t.path, t.off + (b - t.buf)>>
            BY <2>12, <2>13, <2>21, <5>1, <6>1, ReachedKept
          <6>3. t.path \in disk.present \ disk.bad
            BY <2>1, <2>5
          <6>4. b \in got <=> t.off + (b - t.buf) < Length
            BY <2>6, <4>2 DEF got
          <6>5. k.buf[b] = Unset
            BY <2>4, <2>7, <4>2 DEF Free, Put, t
          <6>6. buf[b] = IF t.off + (b - t.buf) < Length THEN <<t.path, t.off + (b - t.buf)>> ELSE Unset
            BY <2>9, <6>4, <6>5
          <6> QED BY <2>1, <2>12, <2>13, <6>2, <6>3, <6>6 DEF Settled
        <5> QED BY <5>2
      <4>3. ASSUME Settled(c, b), b \notin Span(t)
            PROVE  Settled(c, b)'
        <5>1. b \notin got
          BY <4>3 DEF got
        <5>2. call'[c].buf[b] = k.buf[b]
          BY <2>9, <2>12, <2>13, <5>1
        <5> QED BY <2>1, <2>2, <2>7, <2>12, <2>13, <2>21, <4>3, <5>2, SettledKept
      <4>4. ASSUME Owed(c, b), b \notin Span(t)
            PROVE  Owed(c, b)'
        <5>1. ASSUME NEW i \in DOMAIN k.tasks, b \in Span(k.tasks[i])
              PROVE  Owed(c, b)'
          BY <2>12, <2>13, <5>1 DEF Owed, Span
        <5>2. ASSUME NEW v \in Workers, Working(c, v), b \in Span(reader[c][v].task)
              PROVE  Owed(c, b)'
          <6>1. v # w
            BY <4>4, <5>2 DEF t
          <6> QED BY <2>18, <2>22, <5>2, <6>1 DEF Owed, Span
        <5> QED BY <4>4, <5>1, <5>2 DEF Owed
      <4> QED BY <4>1, <4>2, <4>3, <4>4
    <3>5. Built' = Built /\ DOMAIN call'[c].buf = 0..(k.size - 1) /\ call'[c].error = k.error
      BY <2>1, <2>9, <2>12, <2>13 DEF Built
    <3> QED BY <3>2, <3>3, <3>4, <3>5 DEF ByteOK
  <2>29. FdsOK'
    BY <2>1, <2>17, <2>18, FdsSame DEF Read
  <2>30. /\ fds' \in [DOMAIN fds' -> disk.present] /\ DOMAIN fds' \subseteq Nat \ {0} /\ IsFiniteSet(DOMAIN fds')
         /\ chunk_map' \in Seq(Chunk)
    BY <2>1 DEF TypeOK, AggTypeOK
  <2> QED BY <2>1, <2>16, <2>19, <2>20, <2>21, <2>23, <2>27, <2>28, <2>29, <2>30, OthersKept
<1> QED BY <1>1, <1>2

-----------------------------------------------------------------------------
(* find_read_tasks.  Its turns are those of a recursive function: there is *)
(* one for every number of turns, or there were a least without.           *)
Turns(f, n, q, size) == f = [i \in 0..n |-> IF i = 0 THEN NoTurn ELSE Turn(f[i - 1], q, size)]

LEMMA TurnsExist ==
  ASSUME NEW q, NEW size, NEW n \in Nat
  PROVE  \E f : Turns(f, n, q, size)
<1> DEFINE Bad == {m \in Nat : ~\E f : Turns(f, m, q, size)}
<1> SUFFICES ASSUME Bad # {} PROVE FALSE
  OBVIOUS
<1>1. PICK m \in Bad : \A x \in Bad : m <= x
  <2>1. Bad \in SUBSET Nat
    OBVIOUS
  <2>2. Min(Bad) \in Bad /\ \A x \in Bad : Min(Bad) <= x
    BY <2>1, MinOfNats
  <2> QED BY <2>2
<1>2. m # 0
  <2> DEFINE f == [i \in 0..0 |-> NoTurn]
  <2>1. f = [i \in 0..0 |-> IF i = 0 THEN NoTurn ELSE Turn(f[i - 1], q, size)]
    OBVIOUS
  <2>2. Turns(f, 0, q, size)
    BY <2>1 DEF Turns
  <2> QED BY <2>2
<1>3. m - 1 \in Nat /\ m - 1 \notin Bad
  BY <1>1, <1>2
<1>4. PICK f : Turns(f, m - 1, q, size)
  BY <1>3
<1> DEFINE g == [i \in 0..m |-> IF i = m THEN Turn(f[m - 1], q, size) ELSE f[i]]
<1>5. \A i \in 0..(m - 1) : f[i] = IF i = 0 THEN NoTurn ELSE Turn(f[i - 1], q, size)
  <2>1. f = [i \in 0..(m - 1) |-> IF i = 0 THEN NoTurn ELSE Turn(f[i - 1], q, size)]
    BY <1>4 DEF Turns
  <2> DEFINE h(i) == IF i = 0 THEN NoTurn ELSE Turn(f[i - 1], q, size)
  <2>2. f = [i \in 0..(m - 1) |-> h(i)]
    BY <2>1
  <2> HIDE DEF h
  <2>3. \A i \in 0..(m - 1) : f[i] = h(i)
    BY <2>2
  <2> QED BY <2>3 DEF h
<1>6. \A i \in 0..m : g[i] = IF i = 0 THEN NoTurn ELSE Turn(g[i - 1], q, size)
  <2> TAKE i \in 0..m
  <2>1. CASE i = m
    <3>1. g[i] = Turn(f[m - 1], q, size) /\ m - 1 \in 0..m /\ m - 1 # m
      BY <1>1, <1>2, <2>1
    <3>2. g[m - 1] = f[m - 1]
      BY <3>1
    <3> QED BY <1>2, <2>1, <3>1, <3>2
  <2>2. CASE i # m /\ i # 0
    <3>1. i \in 0..(m - 1) /\ i - 1 \in 0..m /\ i - 1 # m
      BY <1>1, <2>2
    <3>2. g[i] = f[i] /\ g[i - 1] = f[i - 1]
      BY <2>2, <3>1
    <3> QED BY <1>5, <2>2, <3>1, <3>2
  <2>3. CASE i # m /\ i = 0
    <3>1. g[0] = f[0] /\ 0 \in 0..(m - 1)
      BY <1>1, <1>2, <2>3
    <3> QED BY <1>5, <2>3, <3>1
  <2> QED BY <2>1, <2>2, <2>3
<1>7. g = [i \in 0..m |-> g[i]]
  OBVIOUS
<1> HIDE DEF g
<1>8. Turns(g, m, q, size)
  BY <1>6, <1>7 DEF Turns
<1> QED BY <1>1, <1>8

LEMMA TasksOfTurns ==
  ASSUME NEW q, NEW size \in Nat
  PROVE  \E f : /\ f[0] = NoTurn /\ \A n \in 1..size : f[n] = Turn(f[n - 1], q, size)
                /\ find_read_tasks(q, size) = f[size].tasks
<1> DEFINE f == CHOOSE g : Turns(g, size, q, size)
<1>1. Turns(f, size, q, size)
  BY TurnsExist
<1>2. find_read_tasks(q, size) = f[size].tasks
  BY DEF find_read_tasks, Turns
<1> HIDE DEF f
<1>3. f[0] = NoTurn /\ \A n \in 1..size : f[n] = Turn(f[n - 1], q, size)
  <2> DEFINE h(i) == IF i = 0 THEN NoTurn ELSE Turn(f[i - 1], q, size)
  <2>1. f = [i \in 0..size |-> h(i)]
    BY <1>1 DEF Turns
  <2> HIDE DEF h
  <2>2. \A i \in 0..size : f[i] = h(i)
    BY <2>1
  <2> QED BY <2>2 DEF h
<1> QED BY <1>2, <1>3

(* What the index says of the bytes of task t of a read at q.              *)
Exact(t, q) == \A b \in Span(t) : Has(q + b) /\ Data(q + b) = <<t.path, t.off + (b - t.buf)>>

LEMMA NextTask ==
  ASSUME Agg, NEW q \in Nat, NEW at \in Nat, NEW left \in Nat, left # 0
  PROVE  LET t == [Cut(Found(q + at), left) EXCEPT !.buf = at]
         IN  /\ t \in Task /\ t.buf = at /\ t.len <= left /\ (t.len = 0 <=> ~Has(q + at))
             /\ Has(q + at) => OfChunk(t)
             /\ Apart => Exact(t, q)
<1> DEFINE p == Found(q + at)
           cut == [p EXCEPT !.len = Min2(@, left)]
           t == [cut EXCEPT !.buf = at]
<1>1. q + at \in Nat
  OBVIOUS
<1>2. p \in Task /\ (Has(q + at) => OfChunk(p)) /\ (~Has(q + at) => p.len = 0) /\ (Has(q + at) <=> p.len > 0)
  BY <1>1, FoundTask DEF Has
<1>3. Cut(p, left) = cut
  BY DEF Cut
<1>4. p.len \in Nat /\ Min2(p.len, left) \in Nat /\ Min2(p.len, left) <= left /\ Min2(p.len, left) <= p.len
      /\ (Min2(p.len, left) = 0 <=> p.len = 0)
  BY <1>2 DEF Min2, Task
<1> DEFINE l == Min2(p.len, left)
<1> HIDE DEF p
<1>5. cut \in Task /\ cut.len = l /\ cut.chunk = p.chunk /\ cut.path = p.path /\ cut.fd = p.fd /\ cut.off = p.off
  <2> HIDE DEF l
  <2>1. cut = [p EXCEPT !.len = l]
    BY DEF l
  <2>2. l \in Nat
    BY <1>4 DEF l
  <2> QED BY <1>2, <2>1, <2>2 DEF Task
<1> HIDE DEF cut
<1>6. t \in Task /\ t.len = l /\ t.chunk = p.chunk /\ t.path = p.path /\ t.fd = p.fd /\ t.off = p.off /\ t.buf = at
  BY <1>5 DEF Task
<1> HIDE DEF t
<1>7. t.len <= left /\ (t.len = 0 <=> ~Has(q + at))
  BY <1>2, <1>4, <1>6
<1>8. Has(q + at) => OfChunk(t)
  BY <1>2, <1>6 DEF OfChunk
<1>9. ASSUME Apart, NEW b \in Span(t)
      PROVE  Has(q + b) /\ Data(q + b) = <<t.path, t.off + (b - t.buf)>>
  <2>1. b \in Nat /\ b >= at /\ b < at + l
    BY <1>4, <1>6 DEF Span
  <2>2. PICK j \in Nat : b = at + j /\ j < p.len
    <3>1. b - at \in Nat /\ b = at + (b - at) /\ b - at < p.len
      BY <1>4, <2>1
    <3> QED BY <3>1
  <2>3. PICK x \in Nat : x = q + at
    BY <1>1
  <2>4. /\ Found(x + j).len = Found(x).len - j /\ Found(x + j).path = Found(x).path
        /\ Found(x + j).off = Found(x).off + j
    BY <1>9, <2>2, <2>3, FoundOn DEF p
  <2>5. q + b = x + j /\ b - at = j
    BY <2>1, <2>2, <2>3
  <2>6. Found(x).len \in Nat /\ Found(x).len = p.len
    BY <1>4, <2>3 DEF p
  <2>7. Found(x + j).len > 0
    BY <2>2, <2>4, <2>6
  <2> QED BY <1>6, <2>3, <2>4, <2>5, <2>7 DEF Has, Data, p
<1> QED BY <1>3, <1>6, <1>7, <1>8, <1>9 DEF Exact, p, cut, t

(* What find_read_tasks has after some turns.                              *)
TurnOK(t, q, size) ==
  /\ t = [tasks |-> t.tasks, at |-> t.at, stop |-> t.stop]
  /\ t.at \in 0..size /\ t.stop \in BOOLEAN /\ t.tasks \in Seq(Task)
  /\ \A i \in DOMAIN t.tasks : LET u == t.tasks[i] IN
       /\ OfChunk(u) /\ u.len # 0 /\ Span(u) \subseteq 0..(t.at - 1)
       /\ \A j \in DOMAIN t.tasks : i # j => Span(u) \cap Span(t.tasks[j]) = {}
       /\ Apart => Exact(u, q)
  /\ \A b \in 0..(t.at - 1) : \E i \in DOMAIN t.tasks : b \in Span(t.tasks[i])
  /\ t.stop => ~Has(q + t.at)

LEMMA TurnKeeps ==
  ASSUME Agg, NEW q \in Nat, NEW size \in Nat, NEW t, TurnOK(t, q, size), NEW n \in Nat, t.stop \/ t.at >= n
  PROVE  LET u == Turn(t, q, size)
         IN  TurnOK(u, q, size) /\ (u.stop \/ u.at = size \/ u.at >= n + 1)
<1> DEFINE task == [Cut(Found(q + t.at), size - t.at) EXCEPT !.buf = t.at]
           ts == t.tasks
<1> SUFFICES ASSUME NEW u, u = Turn(t, q, size)
             PROVE  TurnOK(u, q, size) /\ (u.stop \/ u.at = size \/ u.at >= n + 1)
  OBVIOUS
<1>1. /\ t.at \in 0..size /\ t.stop \in BOOLEAN /\ ts \in Seq(Task)
      /\ t = [tasks |-> t.tasks, at |-> t.at, stop |-> t.stop]
  BY DEF TurnOK
<1>2. CASE t.stop \/ t.at = size
  <2>1. u = t
    BY <1>2 DEF Turn
  <2> QED BY <1>2, <2>1
<1>3. CASE ~(t.stop \/ t.at = size)
  <2>1. t.at \in Nat /\ size - t.at \in Nat /\ size - t.at # 0
    BY <1>1, <1>3
  <2>2. /\ task \in Task /\ task.buf = t.at /\ task.len <= size - t.at /\ (task.len = 0 <=> ~Has(q + t.at))
        /\ Has(q + t.at) => OfChunk(task)
        /\ Apart => Exact(task, q)
    <3>1. PICK at \in Nat, left \in Nat : at = t.at /\ left = size - t.at
      BY <2>1
    <3> QED BY <2>1, <3>1, NextTask
  <2> DEFINE longer == [stop |-> FALSE, at |-> t.at + task.len, tasks |-> Append(ts, task)]
  <2>3. CASE task.len = 0
    <3>1. u = [t EXCEPT !.stop = TRUE]
      BY <1>3, <2>3 DEF Turn
    <3>2. u = [tasks |-> ts, at |-> t.at, stop |-> TRUE]
      BY <1>1, <3>1
    <3> QED BY <2>2, <2>3, <3>2 DEF TurnOK
  <2>4. CASE task.len # 0
    <3>1. u = longer
      <4>1. ts # << >> => ~Consecutive(Last(ts), task, q)
        <5> SUFFICES ASSUME ts # << >>, Consecutive(Last(ts), task, q) PROVE FALSE
          OBVIOUS
        <5>1. Last(ts) = ts[Len(ts)] /\ Len(ts) \in DOMAIN ts
          BY <1>1 DEF Last
        <5>2. ts[Len(ts)].len \in Nat /\ ts[Len(ts)].len # 0
          <6>1. ts[Len(ts)] \in Task
            BY <1>1, <5>1
          <6> QED BY <5>1, <6>1 DEF TurnOK, Task
        <5>3. q + ts[Len(ts)].len = q
          BY <5>1 DEF Consecutive
        <5> QED BY <5>2, <5>3
      <4> QED BY <1>3, <2>4, <4>1 DEF Turn
    <3> HIDE DEF task
    <3>2. task.len \in Nat /\ task.buf \in Nat
      BY <2>2 DEF Task
    <3>3. /\ u.tasks = Append(ts, task) /\ u.at = t.at + task.len /\ u.stop = FALSE
          /\ u = [tasks |-> u.tasks, at |-> u.at, stop |-> u.stop]
      BY <3>1
    <3>4. /\ DOMAIN Append(ts, task) = 1..(Len(ts) + 1) /\ Append(ts, task)[Len(ts) + 1] = task
          /\ Append(ts, task) \in Seq(Task) /\ Len(ts) \in Nat
          /\ \A i \in DOMAIN ts : i \in 1..(Len(ts) + 1) /\ i # Len(ts) + 1 /\ Append(ts, task)[i] = ts[i]
          /\ \A i \in 1..(Len(ts) + 1) : i \in DOMAIN ts \/ i = Len(ts) + 1
      BY <1>1, <2>2
    <3>5. /\ u.at \in 0..size /\ u.at >= n + 1 /\ u.at > t.at
      <4>1. PICK at \in Nat, len \in Nat : at = t.at /\ len = task.len
        BY <2>1, <3>2
      <4>2. at >= n /\ len <= size - at /\ len # 0 /\ u.at = at + len
        BY <1>3, <2>2, <2>4, <3>3, <4>1
      <4> QED BY <4>1, <4>2
    <3>6. Span(task) = t.at..(u.at - 1)
      <4>1. task.buf + task.len - 1 = u.at - 1
        BY <2>1, <2>2, <3>2, <3>3
      <4> QED BY <2>2, <4>1 DEF Span
    <3>7. \A b \in 0..(u.at - 1) : b \in 0..(t.at - 1) \/ b \in Span(task)
      BY <2>1, <3>5, <3>6
    <3>8. 0..(t.at - 1) \subseteq 0..(u.at - 1) /\ Span(task) \subseteq 0..(u.at - 1) /\ 0..(t.at - 1) \cap Span(task) = {}
      BY <2>1, <3>5, <3>6
    <3>9. OfChunk(task) /\ (Apart => Exact(task, q))
      BY <2>2, <2>4
    <3>10. ASSUME NEW i \in DOMAIN u.tasks
           PROVE  LET v == u.tasks[i] IN
                  /\ OfChunk(v) /\ v.len # 0 /\ Span(v) \subseteq 0..(u.at - 1)
                  /\ \A j \in DOMAIN u.tasks : i # j => Span(v) \cap Span(u.tasks[j]) = {}
                  /\ Apart => Exact(v, q)
      <4>1. CASE i \in DOMAIN ts
        <5>1. /\ OfChunk(ts[i]) /\ ts[i].len # 0 /\ Span(ts[i]) \subseteq 0..(t.at - 1)
              /\ \A j \in DOMAIN ts : i # j => Span(ts[i]) \cap Span(ts[j]) = {}
              /\ Apart => Exact(ts[i], q)
          BY <4>1 DEF TurnOK
        <5>2. u.tasks[i] = ts[i] /\ Span(ts[i]) \cap Span(task) = {} /\ Span(ts[i]) \subseteq 0..(u.at - 1)
          BY <3>3, <3>4, <3>8, <4>1, <5>1
        <5> QED BY <3>3, <3>4, <5>1, <5>2
      <4>2. CASE i = Len(ts) + 1
        <5>1. u.tasks[i] = task
          BY <3>3, <3>4, <4>2
        <5>2. \A j \in DOMAIN ts : Span(ts[j]) \cap Span(task) = {}
          BY <3>8 DEF TurnOK
        <5>3. \A j \in DOMAIN u.tasks : i # j => Span(task) \cap Span(u.tasks[j]) = {}
          BY <3>3, <3>4, <4>2, <5>2
        <5> QED BY <2>4, <3>8, <3>9, <5>1, <5>3
      <4> QED BY <3>3, <3>4, <4>1, <4>2
    <3>11. \A b \in 0..(u.at - 1) : \E i \in DOMAIN u.tasks : b \in Span(u.tasks[i])
      <4> TAKE b \in 0..(u.at - 1)
      <4>1. CASE b \in Span(task)
        BY <3>3, <3>4, <4>1, SMTT(30)
      <4>2. CASE b \in 0..(t.at - 1)
        <5>1. PICK i \in DOMAIN ts : b \in Span(ts[i])
          BY <4>2 DEF TurnOK
        <5> QED BY <3>3, <3>4, <5>1
      <4> QED BY <3>7, <4>1, <4>2
    <3> QED BY <3>3, <3>4, <3>5, <3>10, <3>11 DEF TurnOK
  <2> QED BY <2>3, <2>4
<1> QED BY <1>2, <1>3

LEMMA TasksFound ==
  ASSUME Agg, NEW q \in Nat, NEW size \in Nat
  PROVE  \E t : TurnOK(t, q, size) /\ (t.stop \/ t.at = size) /\ find_read_tasks(q, size) = t.tasks
<1>1. PICK f : /\ f[0] = NoTurn /\ \A n \in 1..size : f[n] = Turn(f[n - 1], q, size)
               /\ find_read_tasks(q, size) = f[size].tasks
  BY TasksOfTurns
<1> DEFINE Good(n) == TurnOK(f[n], q, size) /\ (f[n].stop \/ f[n].at >= n)
           Bad == {n \in 0..size : ~Good(n)}
<1>2. Good(0)
  BY <1>1 DEF NoTurn, TurnOK
<1>3. ASSUME Bad # {} PROVE FALSE
  <2>1. PICK m \in Bad : \A x \in Bad : m <= x
    <3>1. Bad \in SUBSET Nat
      OBVIOUS
    <3>2. Min(Bad) \in Bad /\ \A x \in Bad : Min(Bad) <= x
      BY <1>3, <3>1, MinOfNats
    <3> QED BY <3>2
  <2>2. m # 0
    BY <1>2, <2>1
  <2>3. m \in 1..size /\ m - 1 \in Nat /\ m - 1 \in 0..size /\ m - 1 \notin Bad /\ (m - 1) + 1 = m
    BY <2>1, <2>2
  <2>4. Good(m - 1)
    BY <2>3
  <2>5. f[m] = Turn(f[m - 1], q, size)
    BY <1>1, <2>3
  <2>6. TurnOK(f[m], q, size) /\ (f[m].stop \/ f[m].at = size \/ f[m].at >= (m - 1) + 1)
    BY <2>3, <2>4, <2>5, TurnKeeps
  <2>7. Good(m)
    BY <2>3, <2>6
  <2> QED BY <2>1, <2>7
<1>4. Good(size)
  BY <1>3
<1>5. f[size].stop \/ f[size].at = size
  BY <1>4 DEF TurnOK
<1> QED BY <1>1, <1>4, <1>5

LEMMA BeginKeeps ==
  ASSUME TypeOK, Agg, Read, NEW c \in Calls, NEW r \in Requests[c], Begin(c, r)
  PROVE  TypeOK' /\ Agg' /\ Read'
<1> DEFINE ts == find_read_tasks(r.offset, r.size)
           pool == IF Len(ts) > 1 THEN Min2(threadpool_size, Len(ts)) ELSE 1
           at == IF ts = << >> THEN "returned" ELSE "reading"
           buf == [i \in 0..(r.size - 1) |-> Unset]
           new == [at |-> at, offset |-> r.offset, size |-> r.size, tasks |-> ts, pool |-> pool,
                   buf |-> buf, total |-> 0, error |-> FALSE]
           take(w) == IF ts # << >> /\ w <= pool THEN [NoReader EXCEPT !.at = "take"] ELSE NoReader
<1>1. /\ Built /\ call[c].at = "idle" /\ call' = [call EXCEPT ![c] = new]
      /\ reader' = [reader EXCEPT ![c] = [w \in Workers |-> take(w)]]
      /\ Unaggregated /\ disk' = disk /\ fds' = fds /\ phase' = phase /\ ret' = ret
      /\ dese_map' = dese_map /\ chunk_map' = chunk_map
  BY DEF Begin, Unaggregated, aggVars
<1>2. r.offset \in Nat /\ r.size \in Nat
  BY RequestsAssumption
<1>3. PICK t : TurnOK(t, r.offset, r.size) /\ (t.stop \/ t.at = r.size) /\ ts = t.tasks
  BY <1>2, TasksFound
<1> HIDE DEF ts
<1>4. ts \in Seq(Task) /\ Len(ts) \in Nat /\ (ts # << >> => Len(ts) # 0)
  BY <1>3 DEF TurnOK
<1>5. 1 \in Workers /\ threadpool_size \in Nat \ {0}
  <2>1. threadpool_size \in PoolSizes
    BY DEF TypeOK, AggTypeOK
  <2>2. Cardinality(Workers) \in Nat
    BY FiniteAssumption, FS_CardinalityType
  <2> QED BY <2>1, <2>2, WorkerOne, PoolAssumption
<1>6. pool \in Nat \ {0}
  BY <1>4, <1>5 DEF Min2
<1> HIDE DEF pool
<1>7. buf \in [0..(r.size - 1) -> (Paths \X Nat) \cup {Unset}] /\ DOMAIN buf = 0..(r.size - 1)
      /\ \A i \in 0..(r.size - 1) : buf[i] = Unset
  OBVIOUS
<1> HIDE DEF buf
<1>8. /\ new = [at |-> new.at, offset |-> new.offset, size |-> new.size, tasks |-> new.tasks,
                pool |-> new.pool, buf |-> new.buf, total |-> new.total, error |-> new.error]
      /\ new.at = at /\ new.offset = r.offset /\ new.size = r.size /\ new.tasks = ts /\ new.pool = pool
      /\ new.buf = buf /\ new.total = 0 /\ new.error = FALSE
  OBVIOUS
<1> HIDE DEF new
<1>9. at \in {"returned", "reading"} /\ (at = "returned" <=> ts = << >>)
  OBVIOUS
<1> HIDE DEF at
<1>10. /\ call' = [d \in Calls |-> call'[d]] /\ (\A d \in Calls : d # c => call'[d] = call[d]) /\ call'[c] = new
  BY <1>1 DEF TypeOK
<1>11. CallTyped(call[c])'
  <2>1. 0 \in 0..r.size
    BY <1>2
  <2> QED BY <1>2, <1>4, <1>6, <1>7, <1>8, <1>9, <1>10, <2>1 DEF CallTyped
<1>12. \A w \in Workers : take(w) \in Reader /\ take(w).at \in {"off", "take"}
  BY NoReaderTyped DEF NoReader
<1>13. ts # << >> => take(1).at = "take"
  BY <1>6 DEF NoReader
<1>14. ts = << >> => \A w \in Workers : take(w) = NoReader
  OBVIOUS
<1> HIDE DEF take
<1>15. /\ reader' \in [Calls -> [Workers -> Reader]] /\ (\A w \in Workers : reader'[c][w] = take(w))
       /\ \A d \in Calls : d # c => reader'[d] = reader[d]
  BY <1>1, <1>12 DEF TypeOK
<1>16. Alone(c)
  BY <1>10, <1>15 DEF Alone
<1>17. SameIndex
  BY <1>1, SameIndexOfSame
<1>18. \A w \in Workers : ~Working(c, w)'
  BY <1>12, <1>15 DEF Working
<1>19. CallOK(c)'
  BY <1>1, <1>5, <1>8, <1>9, <1>10, <1>12, <1>13, <1>14, <1>15 DEF CallOK, Built
<1>20. TaskOK(c)'
  <2>1. \A i \in DOMAIN ts : OfChunk(ts[i])
    BY <1>3 DEF TurnOK
  <2> QED BY <1>1, <1>8, <1>10, <1>18, <2>1 DEF TaskOK, OfChunk
<1>21. Put(c)' = {}
  BY <1>7, <1>8, <1>10 DEF Put
<1>22. ASSUME NEW i \in DOMAIN ts
       PROVE  /\ Span(ts[i]) \subseteq 0..(t.at - 1) /\ t.at \in 0..r.size /\ Span(ts[i]) \subseteq DOMAIN buf
              /\ \A j \in DOMAIN ts : i # j => Span(ts[i]) \cap Span(ts[j]) = {}
  <2>1. /\ Span(ts[i]) \subseteq 0..(t.at - 1) /\ t.at \in 0..r.size
        /\ \A j \in DOMAIN ts : i # j => Span(ts[i]) \cap Span(ts[j]) = {}
    BY <1>3 DEF TurnOK
  <2>2. 0..(t.at - 1) \subseteq 0..(r.size - 1)
    BY <1>2, <2>1
  <2> QED BY <1>7, <2>1, <2>2
<1>23. SpanOK(c)'
  <2>1. ASSUME NEW u, Span(u) \subseteq DOMAIN buf PROVE Free(c, u)'
    BY <1>8, <1>10, <1>21, <2>1 DEF Free, Span
  <2>2. ASSUME NEW i \in DOMAIN call'[c].tasks
        PROVE  Free(c, call[c].tasks[i])'
    <3>1. PICK u : u = ts[i]
      OBVIOUS
    <3>2. call'[c].tasks[i] = u /\ Span(u) \subseteq DOMAIN buf
      BY <1>8, <1>10, <1>22, <3>1
    <3> QED BY <2>1, <3>2
  <2>3. call'[c].total = Cardinality(Put(c)')
    BY <1>8, <1>10, <1>21, FS_EmptySet
  <2>4. call'[c].tasks = ts
    BY <1>8, <1>10
  <2> QED BY <1>18, <1>22, <2>2, <2>3, <2>4 DEF SpanOK
<1>24. ASSUME Apart PROVE ByteOK(c)'
  <2>1. \A x \in Nat : Has(x)' = Has(x) /\ Data(x)' = Data(x)
    BY <1>17, FoundKept
  <2>2. /\ t.at \in 0..r.size /\ (t.stop => ~Has(r.offset + t.at))
        /\ \A i \in DOMAIN ts : Exact(ts[i], r.offset)
        /\ \A b \in 0..(t.at - 1) : \E i \in DOMAIN ts : b \in Span(ts[i])
    BY <1>3, <1>24 DEF TurnOK
  <2>3. \A x \in 0..(t.at - 1) : Has(r.offset + x)
    BY <2>2 DEF Exact
  <2>4. ASSUME NEW u, Exact(u, r.offset), Span(u) \subseteq 0..(t.at - 1)
        PROVE  Right(c, u)'
    <3>1. call'[c].offset = r.offset
      BY <1>8, <1>10
    <3>2. ASSUME NEW b \in Span(u)
          PROVE  /\ \A j \in 0..b : r.offset + j \in Nat /\ Has(r.offset + j)
                 /\ r.offset + b \in Nat /\ Data(r.offset + b) = <<u.path, u.off + (b - u.buf)>>
      <4>1. b \in 0..(t.at - 1) /\ t.at \in Nat
        BY <2>2, <2>4
      <4>2. \A j \in 0..b : j \in 0..(t.at - 1)
        BY <4>1
      <4> QED BY <1>2, <2>3, <2>4, <4>1, <4>2 DEF Exact
    <3>3. ASSUME NEW b \in Span(u)
          PROVE  /\ \A j \in 0..b : Has(r.offset + j)'
                 /\ Data(r.offset + b)' = <<u.path, u.off + (b - u.buf)>>
      BY <2>1, <3>2
    <3> QED BY <3>1, <3>3 DEF Right, Reached, Span
  <2>5. ASSUME NEW i \in DOMAIN call'[c].tasks
        PROVE  Right(c, call[c].tasks[i])'
    <3>1. PICK u : u = ts[i]
      OBVIOUS
    <3>2. call'[c].tasks[i] = u /\ Exact(u, r.offset) /\ Span(u) \subseteq 0..(t.at - 1)
      BY <1>8, <1>10, <1>22, <2>2, <3>1
    <3> QED BY <2>4, <3>2
  <2>6. ASSUME NEW b \in DOMAIN call'[c].buf
        PROVE  Owed(c, b)' \/ Settled(c, b)'
    <3>1. b \in 0..(r.size - 1) /\ call'[c].tasks = ts /\ call'[c].offset = r.offset /\ call'[c].buf[b] = Unset
      BY <1>7, <1>8, <1>10, <2>6
    <3>2. CASE b \in 0..(t.at - 1)
      BY <2>2, <3>1, <3>2 DEF Owed, Span
    <3>3. CASE b \notin 0..(t.at - 1)
      <4>1. t.at \in 0..b /\ t.at # r.size
        BY <1>2, <2>2, <3>1, <3>3
      <4>2. ~Has(r.offset + t.at) /\ r.offset + t.at \in Nat
        BY <1>2, <1>3, <2>2, <4>1
      <4>3. PICK z \in Nat : z = t.at
        BY <4>1
      <4>4. ~Has(r.offset + z)' /\ z \in 0..b
        BY <2>1, <4>1, <4>2, <4>3
      <4>5. ~Reached(c, b)'
        BY <3>1, <4>4 DEF Reached
      <4> QED BY <3>1, <4>5 DEF Settled
    <3> QED BY <3>2, <3>3
  <2> QED BY <1>18, <2>5, <2>6 DEF ByteOK
<1>25. FdsOK'
  <2>1. \A w \in Workers : reader[c][w].at # "stash" /\ reader'[c][w].at \in {"off", "take"}
    BY <1>1, <1>12, <1>15 DEF Read, CallsOK, CallOK, NoReader
  <2> QED BY <1>1, <1>15, <2>1, FdsSame DEF Read
<1>26. /\ fds' \in [DOMAIN fds' -> disk.present] /\ DOMAIN fds' \subseteq Nat \ {0} /\ IsFiniteSet(DOMAIN fds')
       /\ chunk_map' \in Seq(Chunk)
  BY <1>1 DEF TypeOK, AggTypeOK
<1> QED BY <1>1, <1>11, <1>16, <1>17, <1>19, <1>20, <1>23, <1>24, <1>25, <1>26, OthersKept

-----------------------------------------------------------------------------
LEMMA InvInit == ReadInit => Inv
<1> SUFFICES ASSUME ReadInit PROVE Inv
  OBVIOUS
<1>1. /\ container \in Containers /\ threadpool_size \in PoolSizes /\ tasks = {} /\ missed = {}
      /\ dese_map = NoUnits /\ chunk_map = << >> /\ phase = "list" /\ ret = 0
      /\ thread = [w \in Workers |-> Idle]
      /\ disk \in Disks /\ fds = [f \in {} |-> <<"none", 0>>]
      /\ call = [c \in Calls |-> NoCall]
      /\ reader = [c \in Calls |-> [w \in Workers |-> NoReader]]
  BY DEF ReadInit, Init
<1>2. DOMAIN dese_map = {} /\ DOMAIN chunk_map = {} /\ UnitsTyped(dese_map) /\ chunk_map \in Seq(Chunk) /\ DOMAIN fds = {}
  BY <1>1 DEF NoUnits, UnitsTyped
<1>3. \A w \in Workers : thread[w] = Idle /\ ThreadTyped(thread[w])
  BY <1>1, IdleTyped
<1>4. AggTypeOK
  BY <1>1, <1>2, <1>3 DEF AggTypeOK
<1>5. \A c \in Calls : call[c] = NoCall /\ call[c].at = "idle" /\ \A w \in Workers : reader[c][w] = NoReader
  BY <1>1 DEF NoCall
<1>6. \A c \in Calls, w \in Workers : reader[c][w].at = "off"
  BY <1>5 DEF NoReader
<1>7. CallTyped(NoCall)
  <2>1. << >> \in [0..(0 - 1) -> (Paths \X Nat) \cup {Unset}] /\ << >> \in Seq(Task)
    OBVIOUS
  <2> QED BY <2>1 DEF CallTyped, NoCall
<1>8. TypeOK
  <2>1. fds \in [DOMAIN fds -> disk.present] /\ DOMAIN fds \subseteq Nat \ {0} /\ IsFiniteSet(DOMAIN fds)
    BY <1>1, <1>2, FS_EmptySet
  <2>2. reader \in [Calls -> [Workers -> Reader]]
    BY <1>1, NoReaderTyped
  <2>3. call = [c \in Calls |-> call[c]]
    BY <1>1
  <2> QED BY <1>1, <1>4, <1>5, <1>7, <2>1, <2>2, <2>3 DEF TypeOK
<1>9. PhasesOK
  BY <1>1, <1>2, <1>3 DEF PhasesOK
<1>10. ThreadsOK
  BY <1>3 DEF ThreadsOK, ThreadOK, Idle
<1>11. UnitsOK /\ DroppingsOK
  BY <1>1, <1>2 DEF UnitsOK, DroppingsOK, Filed, Home, AllFirst, Built
<1>12. CallsOK /\ TasksOK
  BY <1>5 DEF CallsOK, CallOK, TasksOK, TaskOK
<1>13. FdsOK
  BY <1>2, <1>6 DEF FdsOK, ChunkFdsOK, ReaderFdOK, Unopened
<1>14. SpansOK
  <2>1. \A c \in Calls : Put(c) = {}
    BY <1>5 DEF Put, NoCall
  <2>2. \A c \in Calls : call[c].total = 0
    BY <1>5 DEF NoCall
  <2> QED BY <1>5, <2>1, <2>2, FS_EmptySet DEF SpansOK, SpanOK
<1>15. BytesOK
  BY <1>5 DEF BytesOK, ByteOK
<1> QED BY <1>8, <1>9, <1>10, <1>11, <1>12, <1>13, <1>14, <1>15 DEF Inv, Aggregated, Read

LEMMA InvStep == Inv /\ [Next]_vars => Inv'
<1> SUFFICES ASSUME Inv, [Next]_vars PROVE Inv'
  OBVIOUS
<1> SUFFICES TypeOK' /\ Agg' /\ Read'
  BY DEF Inv, Agg
<1>1. TypeOK /\ Agg /\ Read
  BY DEF Inv, Agg, TypeOK
<1>2. CASE Aggregate /\ UNCHANGED readVars
  BY <1>1, <1>2, ReadKeptByAgg
<1>3. ASSUME NEW c \in Calls, NEW r \in Requests[c], Begin(c, r)
      PROVE  TypeOK' /\ Agg' /\ Read'
  BY <1>1, <1>3, BeginKeeps
<1>4. ASSUME NEW c \in Calls, NEW w \in Workers, ReadStep(c, w)
      PROVE  TypeOK' /\ Agg' /\ Read'
  <2>1. CASE Take(c, w)
    BY <1>1, <2>1, TakeKeeps
  <2>2. CASE GetChunkFd(c, w)
    BY <1>1, <2>2, GetChunkFdKeeps
  <2>3. CASE OpenChunk(c, w)
    BY <1>1, <2>3, OpenChunkKeeps
  <2>4. CASE Stash(c, w)
    BY <1>1, <2>4, StashKeeps
  <2>5. CASE Pread(c, w)
    BY <1>1, <2>5, PreadKeeps
  <2> QED BY <1>4, <2>1, <2>2, <2>3, <2>4, <2>5 DEF ReadStep
<1>5. ASSUME NEW c \in Calls, Return(c)
      PROVE  TypeOK' /\ Agg' /\ Read'
  BY <1>1, <1>5, ReturnKeeps
<1>6. CASE DeleteIndex
  BY <1>1, <1>6, DeleteIndexKeeps
<1>7. CASE UNCHANGED vars
  <2>1. /\ container' = container /\ threadpool_size' = threadpool_size /\ tasks' = tasks /\ dese_map' = dese_map
        /\ chunk_map' = chunk_map /\ phase' = phase /\ ret' = ret /\ thread' = thread /\ missed' = missed
        /\ disk' = disk /\ fds' = fds /\ call' = call /\ reader' = reader
    BY <1>7 DEF vars, aggVars, readVars
  <2>2. SameIndex /\ Unaggregated /\ chunk_map' \in Seq(Chunk) /\ Built' = Built
    BY <1>1, <2>1, SameIndexOfSame DEF Unaggregated, TypeOK, AggTypeOK, Built
  <2>3. Agg'
    BY <1>1, <2>2, AggKept
  <2>4. ASSUME NEW c \in Calls
        PROVE  /\ CallTyped(call[c])' /\ CallOK(c)' /\ TaskOK(c)' /\ SpanOK(c)'
               /\ Apart => ByteOK(c)'
    <3>1. CallTyped(call[c]) /\ CallOK(c) /\ TaskOK(c) /\ SpanOK(c) /\ (Apart => ByteOK(c))
      BY <1>1 DEF TypeOK, Read, CallsOK, TasksOK, SpansOK, BytesOK
    <3>2. Quiet(c)
      BY <2>1 DEF Quiet, Working
    <3>3. CallTyped(call[c])' /\ CallOK(c)'
      BY <2>1, <3>1 DEF CallTyped, CallOK, Built
    <3> QED BY <1>1, <2>1, <2>2, <3>1, <3>2, <3>3, CallKept
  <2>5. TypeOK'
    BY <1>1, <2>1, <2>3, <2>4 DEF TypeOK, Agg
  <2>6. FdsOK'
    BY <1>1, <2>1 DEF Read, FdsOK, ChunkFdsOK, ReaderFdOK, Holds, Unopened
  <2>7. Apart' = Apart
    BY <2>1 DEF Apart
  <2> QED BY <2>3, <2>4, <2>5, <2>6, <2>7 DEF Read, CallsOK, TasksOK, SpansOK, BytesOK
<1> QED BY <1>2, <1>3, <1>4, <1>5, <1>6, <1>7 DEF Next

(* The whole invariant: of the state as it is built and read (vars), after *)
(* any number of steps of indexer threads, calls and reader threads.       *)
THEOREM Invariance == Spec => []Inv
<1> QED BY InvInit, InvStep, PTL DEF Spec

(* The types hold of every state: of populateIndex, of its threads, of the *)
(* calls of plfs_read and of their readers; a call never counts more bytes *)
(* than it was asked for.                                                  *)
THEOREM TypeCorrect == Spec => []TypeOK
<1>1. Inv => TypeOK
  BY DEF Inv
<1> QED BY <1>1, Invariance, PTL

(* Index::merge and the loop of readIndex: in whatever order threads merge *)
(* their parts, every unit of the index leads to the data dropping its     *)
(* record was written to.                                                  *)
THEOREM UnitsHome == Spec => []UnitsLeadHome
<1>1. Inv => UnitsLeadHome
  BY DEF Inv, Aggregated, UnitsOK, UnitsLeadHome, Filed, Home
<1> QED BY <1>1, Invariance, PTL

(* populateIndex: an index reported without error has every offset of      *)
(* every dropping, under the first record some dropping has there.         *)
THEOREM IndexComplete == Spec => []IndexIsComplete
<1>1. Inv => IndexIsComplete
  <2> SUFFICES ASSUME Inv, Built, NEW d \in Droppings \ missed, NEW i \in DOMAIN container[d]
               PROVE  LET o == container[d][i].log IN o \in DOMAIN dese_map /\ FirstAt(o, dese_map[o])
    BY DEF IndexIsComplete, FirstAt
  <2> QED BY DEF Inv, Aggregated, UnitsOK, DroppingsOK, Covers, AllFirst
<1> QED BY <1>1, Invariance, PTL

(* perform_read_task: a stashed descriptor is open on its chunk, the one a *)
(* reader uses is open on its task's file, and none is forgotten, however  *)
(* the readers race to open and stash.                                     *)
THEOREM DescriptorsKept == Spec => []DescriptorsAreKept
<1>1. Inv => DescriptorsAreKept
  <2> SUFFICES ASSUME Inv PROVE DescriptorsAreKept
    OBVIOUS
  <2>1. FdsOK /\ CallsOK /\ TasksOK
    BY DEF Inv, Read
  <2>2. ASSUME NEW i \in DOMAIN chunk_map, chunk_map[i].fd >= 0
        PROVE  chunk_map[i].fd \in DOMAIN fds /\ fds[chunk_map[i].fd] = chunk_map[i].path
    BY <2>1, <2>2 DEF FdsOK, ChunkFdsOK
  <2>3. ASSUME NEW c \in Calls, NEW w \in Workers, reader[c][w].at \in {"stash", "pread"}
        PROVE  reader[c][w].fd \in DOMAIN fds /\ fds[reader[c][w].fd] = reader[c][w].task.path
    <3>1. Working(c, w) /\ call[c].at = "reading"
      BY <2>1, <2>3 DEF Working, CallsOK, CallOK, NoReader
    <3>2. OfChunk(reader[c][w].task)
      BY <2>1, <3>1 DEF TasksOK, TaskOK
    <3> QED BY <2>1, <2>3, <3>2 DEF FdsOK, ChunkFdsOK, ReaderFdOK, OfChunk
  <2>4. ASSUME NEW f \in DOMAIN fds
        PROVE  \/ f \in {chunk_map[i].fd : i \in DOMAIN chunk_map}
               \/ \E c \in Calls : \E w \in Workers : reader[c][w].at = "stash" /\ reader[c][w].fd = f
    BY <2>1 DEF FdsOK, Holds
  <2> QED BY <2>2, <2>3, <2>4 DEF DescriptorsAreKept
<1> QED BY <1>1, Invariance, PTL

(* There is a first byte the index does not know, or it knows them all.    *)
LEMMA KnownUpTo ==
  ASSUME Agg, NEW q \in Nat, NEW size \in Nat
  PROVE  LET n == KnownFrom(q, size)
         IN  /\ n \in 0..size /\ (n < size => ~Has(q + n))
             /\ \A i \in 0..(n - 1) : Has(q + i)
<1> DEFINE P(n) == (n < size => Found(q + n).len = 0) /\ \A i \in 0..(n - 1) : Found(q + i).len > 0
           Ends == {n \in 0..size : n < size => ~Has(q + n)}
<1>1. PICK m \in Ends : \A x \in Ends : m <= x
  <2>1. Ends \in SUBSET Nat /\ size \in Ends
    OBVIOUS
  <2>2. Min(Ends) \in Ends /\ \A x \in Ends : Min(Ends) <= x
    BY <2>1, MinOfNats
  <2> QED BY <2>2
<1>2. P(m)
  <2>1. q + m \in Nat
    BY <1>1
  <2>2. m < size => Found(q + m).len = 0
    BY <1>1, <2>1, FoundTask
  <2>3. ASSUME NEW i \in 0..(m - 1) PROVE Found(q + i).len > 0
    <3>1. i \in 0..size /\ i < size /\ ~(m <= i)
      BY <1>1
    <3>2. i \notin Ends
      BY <1>1, <3>1
    <3> QED BY <3>1, <3>2 DEF Has
  <2> QED BY <2>2, <2>3
<1>3. KnownFrom(q, size) \in 0..size /\ P(KnownFrom(q, size))
  <2>1. KnownFrom(q, size) = CHOOSE n \in 0..size : P(n)
    BY DEF KnownFrom
  <2>2. \E n \in 0..size : P(n)
    BY <1>1, <1>2
  <2> HIDE DEF P
  <2> QED BY <2>1, <2>2
<1> QED BY <1>3 DEF Has

(* plfs_read: whatever the order in which its readers take the tasks, open *)
(* and stash, a read without error has every byte the index knows, up to   *)
(* the first it does not, and counts them, if no records overlap.          *)
THEOREM ReadsExact == Spec => []ReadsAreExact
<1>1. Inv => ReadsAreExact
  <2> SUFFICES ASSUME Inv, Built, Apart, NEW c \in Calls, call[c].at = "returned", ~call[c].error
               PROVE  LET q == call[c].offset
                          n == KnownFrom(q, call[c].size)
                          put == {i \in DOMAIN call[c].buf : i < n /\ Found(q + i).off < Length}
                      IN  /\ \A i \in DOMAIN call[c].buf :
                               call[c].buf[i] = IF i \in put THEN <<Found(q + i).path, Found(q + i).off>> ELSE Unset
                          /\ call[c].total = Cardinality(put)
                          /\ \A i \in 0..(n - 1) : Found(q + i).path \in disk.present \ disk.bad
    BY DEF ReadsAreExact
  <2> DEFINE q == call[c].offset
             size == call[c].size
             n == KnownFrom(q, size)
             buf == call[c].buf
             put == {i \in DOMAIN buf : i < n /\ Found(q + i).off < Length}
  <2>1. Agg /\ CallTyped(call[c]) /\ CallOK(c) /\ SpanOK(c) /\ ByteOK(c)
    BY DEF Inv, Agg, TypeOK, Read, CallsOK, SpansOK, BytesOK
  <2>2. q \in Nat /\ size \in Nat /\ DOMAIN buf = 0..(size - 1)
    BY <2>1 DEF CallTyped
  <2>3. n \in 0..size /\ (n < size => ~Has(q + n)) /\ \A i \in 0..(n - 1) : Has(q + i)
    BY <2>1, <2>2, KnownUpTo
  <2> HIDE DEF n
  <2>4. ASSUME NEW i \in DOMAIN buf
        PROVE  Reached(c, i) <=> i < n
    <3>1. i \in Nat /\ i < size
      BY <2>2
    <3>2. CASE i < n
      <4>1. \A j \in 0..i : j \in 0..(n - 1)
        BY <2>2, <2>3, <3>1, <3>2
      <4> QED BY <2>3, <3>2, <4>1 DEF Reached
    <3>3. CASE ~(i < n)
      <4>1. n < size /\ n \in 0..i
        BY <2>2, <2>3, <3>1, <3>3
      <4> QED BY <2>3, <3>3, <4>1 DEF Reached
    <3> QED BY <3>2, <3>3
  <2>5. ASSUME NEW i \in DOMAIN buf
        PROVE  /\ buf[i] = IF i \in put THEN <<Found(q + i).path, Found(q + i).off>> ELSE Unset
               /\ i < n => Found(q + i).path \in disk.present \ disk.bad
               /\ i \in put <=> buf[i] # Unset
    <3>1. Settled(c, i)
      <4>1. ~Owed(c, i)
        BY <2>1 DEF Owed, Working, CallOK, NoReader
      <4> QED BY <2>1, <4>1 DEF ByteOK
    <3>2. buf[i] = IF i \in put THEN <<Found(q + i).path, Found(q + i).off>> ELSE Unset
      BY <2>4, <3>1 DEF Settled, Data
    <3>3. i < n => Found(q + i).path \in disk.present \ disk.bad
      BY <2>4, <3>1 DEF Settled, Data
    <3>4. <<Found(q + i).path, Found(q + i).off>> # Unset
      <4>1. q + i \in Nat
        BY <2>2
      <4>2. Found(q + i).off \in Nat
        BY <2>1, <4>1, FoundTask DEF Task
      <4>3. PICK e \in Nat : e = Found(q + i).off
        BY <4>2
      <4> QED BY <4>3 DEF Unset
    <3> QED BY <3>2, <3>3, <3>4
  <2>6. Put(c) = put
    BY <2>5 DEF Put
  <2>7. call[c].total = Cardinality(put)
    BY <2>1, <2>6 DEF SpanOK
  <2>8. \A i \in 0..(n - 1) : i \in DOMAIN buf /\ i < n
    BY <2>2, <2>3
  <2> QED BY <2>5, <2>7, <2>8 DEF n
<1> QED BY <1>1, Invariance, PTL
=============================================================================
