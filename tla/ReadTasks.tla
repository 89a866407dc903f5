------------------------------ MODULE ReadTasks -----------------------------
(***************************************************************************)
(* plfs_read (src/plfs.cpp) on the Index that IndexAggregate builds: calls *)
(* of several FUSE threads on one handle, or the call of a handle open for *)
(* reading and writing, which builds an Index of its own and deletes it.   *)
(* A call splits the range into tasks under the lock of the index; reader  *)
(* threads take them from the list, open data droppings where nobody has,  *)
(* and stash the descriptors in the index for others.                      *)
(***************************************************************************)
EXTENDS IndexAggregate

CONSTANTS
  Calls,         \* the calls of plfs_read
  Requests,      \* what each may ask: records [offset, size]
  Disks,         \* data droppings: records [present, bad]: those that are
                 \* there, and of these the ones that cannot be read
  Length         \* how many bytes each data dropping holds

ASSUME RequestsAssumption == \A c \in Calls : Requests[c] \subseteq [offset : Nat, size : Nat \ {0}]
ASSUME LengthAssumption == Length \in Nat
ASSUME DisksAssumption == Disks \subseteq [present : SUBSET Paths, bad : SUBSET Paths]

VARIABLES
  disk,             \* the data droppings
  fds,              \* the open descriptors: fd to the path it is open on
  call,             \* per call: [at, offset, size, tasks, pool, buf, total, error]
  reader            \* per call and worker: [at, task, fd]

readVars == <<disk, fds, call, reader>>
vars == <<aggVars, readVars>>

NoTask == [fd |-> -1, chunk |-> 0, path |-> <<"none", 0>>, off |-> 0, len |-> 0, buf |-> 0]
Unset == <<NoTask.path, -1>>
NoReader == [at |-> "off", task |-> NoTask, fd |-> -1]
NoCall == [at |-> "idle", offset |-> 0, size |-> 0, tasks |-> << >>, pool |-> 1,
           buf |-> << >>, total |-> 0, error |-> FALSE]

ReadInit ==
  /\ Init
  /\ disk \in Disks
  /\ fds = [f \in {} |-> <<"none", 0>>]
  /\ call = [c \in Calls |-> NoCall]
  /\ reader = [c \in Calls |-> [w \in Workers |-> NoReader]]

-----------------------------------------------------------------------------
(* globalLookup of offset q in an index with units: the chunk, the place   *)
(* in it and the bytes from there to the end of the record.  Nothing found *)
(* has length 0, be it the end of the file or a hole.                      *)
Starts(q) == {o \in DOMAIN dese_map : o <= q}

Found(q) ==
  LET u == dese_map[Max(Starts(q))]
  IN  IF Starts(q) = {} \/ q - u.log >= u.len THEN NoTask
      ELSE [NoTask EXCEPT !.fd = chunk_map[u.chunk].fd, !.chunk = u.chunk,
                          !.path = chunk_map[u.chunk].path,
                          !.off = u.phy + (q - u.log), !.len = u.len - (q - u.log)]

\* Mutant: tasks are taken to be at the logical offset they really have.
Consecutive_Logical(last, task, offset) ==
  /\ last.fd = task.fd
  /\ last.off + last.len = task.off
  /\ last.buf + last.len = task.buf

(* Two tasks become one if they are next to each other in one descriptor   *)
(* and in the file.  find_read_tasks notes the offset of the whole read as *)
(* the logical offset of every task, so that they never are.               *)
Consecutive(last, task, offset) ==
  /\ last.fd = task.fd
  /\ last.off + last.len = task.off
  /\ offset + last.len = offset

(* Of what was found, no more than is still asked for.                     *)
Cut(found, left) == [found EXCEPT !.len = Min2(@, left)]

(* find_read_tasks: lookups from where the last one ended, until nothing   *)
(* is found or the request is covered.                                     *)
NoTurn == [tasks |-> << >>, at |-> 0, stop |-> FALSE]

Turn(t, offset, size) ==
  LET task == [Cut(Found(offset + t.at), size - t.at) EXCEPT !.buf = t.at]
      last == Last(t.tasks)
  IN  IF t.stop \/ t.at = size THEN t
      ELSE IF task.len = 0 THEN [t EXCEPT !.stop = TRUE]
      ELSE [stop |-> FALSE, at |-> t.at + task.len,
            tasks |->
              IF t.tasks # << >> /\ Consecutive(last, task, offset)
              THEN Append(Front(t.tasks), [task EXCEPT !.off = last.off, !.len = @ + last.len, !.buf = last.buf])
              ELSE Append(t.tasks, task)]

find_read_tasks(offset, size) ==
  LET turn[n \in 0..size] == IF n = 0 THEN NoTurn ELSE Turn(turn[n - 1], offset, size)
  IN  turn[size].tasks

(* plfs_read_new: the tasks, found under the lock of the index, and a pool *)
(* for them if there are several; else the caller works through them.      *)
Begin(c, r) ==
  /\ Built /\ call[c].at = "idle" /\ DOMAIN dese_map # {}
  /\ LET ts == find_read_tasks(r.offset, r.size)
         pool == IF Len(ts) > 1 THEN Min2(threadpool_size, Len(ts)) ELSE 1
     IN  /\ call' = [call EXCEPT ![c] =
              [at |-> IF ts = << >> THEN "returned" ELSE "reading", offset |-> r.offset, size |-> r.size,
               tasks |-> ts, pool |-> pool, buf |-> [i \in 0..(r.size - 1) |-> Unset], total |-> 0, error |-> FALSE]]
         /\ reader' = [reader EXCEPT ![c] =
              [w \in Workers |-> IF ts # << >> /\ w <= pool THEN [NoReader EXCEPT !.at = "take"] ELSE NoReader]]
  /\ UNCHANGED <<aggVars, disk, fds>>

(* The next task of the list, or the end of the thread.                    *)
Take(c, w) ==
  /\ reader[c][w].at = "take"
  /\ IF call[c].tasks = << >>
     THEN reader' = [reader EXCEPT ![c][w].at = "exit"] /\ UNCHANGED call
     ELSE LET t == Head(call[c].tasks) IN
          /\ reader' = [reader EXCEPT ![c][w] = [at |-> IF t.fd < 0 THEN "fd" ELSE "pread", task |-> t, fd |-> t.fd]]
          /\ call' = [call EXCEPT ![c].tasks = Tail(@)]
  /\ UNCHANGED <<aggVars, disk, fds>>

(* perform_read_task: is a descriptor stashed by now?                      *)
GetChunkFd(c, w) ==
  /\ reader[c][w].at = "fd"
  /\ LET t == reader[c][w].task
         f == chunk_map[t.chunk].fd
     IN  reader' = [reader EXCEPT ![c][w] = [at |-> IF f < 0 THEN "open" ELSE "pread", task |-> t, fd |-> f]]
  /\ UNCHANGED <<aggVars, disk, fds, call>>

\* Mutant: a task that has failed is tried again.
Failed_Retries(c, w) ==
  /\ call' = [call EXCEPT ![c].tasks = Append(@, reader[c][w].task)]
  /\ reader' = [reader EXCEPT ![c][w] = [NoReader EXCEPT !.at = "take"]]

(* A task has failed: a thread of a pool ends, the lone caller goes on.    *)
Failed(c, w) ==
  /\ call' = [call EXCEPT ![c].error = TRUE]
  /\ reader' = [reader EXCEPT ![c][w] =
       [NoReader EXCEPT !.at = IF call[c].pool = 1 THEN "take" ELSE "exit"]]

(* The least descriptor that is not open.                                  *)
NewFd == Min(1..(Cardinality(DOMAIN fds) + 1) \ DOMAIN fds)

OpenChunk(c, w) ==
  /\ reader[c][w].at = "open"
  /\ LET t == reader[c][w].task
         f == NewFd
     IN  IF t.path \in disk.present
         THEN /\ fds' = [g \in DOMAIN fds \cup {f} |-> IF g = f THEN t.path ELSE fds[g]]
              /\ reader' = [reader EXCEPT ![c][w] = [at |-> "stash", task |-> t, fd |-> f]]
              /\ UNCHANGED call
         ELSE Failed(c, w) /\ UNCHANGED fds
  /\ UNCHANGED <<aggVars, disk>>

Closed(f) == [g \in DOMAIN fds \ {f} |-> fds[g]]

\* Mutant: the loser of the race uses the other's descriptor and keeps its own open.
Stash_KeepsBoth(c, w) ==
  /\ reader[c][w].at = "stash"
  /\ LET chunk == reader[c][w].task.chunk IN
     IF chunk_map[chunk].fd >= 0
     THEN /\ reader' = [reader EXCEPT ![c][w].fd = chunk_map[chunk].fd, ![c][w].at = "pread"]
          /\ UNCHANGED <<fds, chunk_map>>
     ELSE /\ chunk_map' = [chunk_map EXCEPT ![chunk].fd = reader[c][w].fd]
          /\ reader' = [reader EXCEPT ![c][w].at = "pread"]
          /\ UNCHANGED fds
  /\ UNCHANGED <<container, threadpool_size, tasks, dese_map, phase, ret, thread, missed>>
  /\ UNCHANGED <<disk, call>>

(* Under the lock again: the first stashes its descriptor; a later one     *)
(* closes its own and takes the stashed one.                               *)
Stash(c, w) ==
  /\ reader[c][w].at = "stash"
  /\ LET r == reader[c][w]
         chunk == chunk_map[r.task.chunk]
     IN  IF chunk.fd >= 0
         THEN /\ fds' = Closed(r.fd)
              /\ reader' = [reader EXCEPT ![c][w] = [at |-> "pread", task |-> r.task, fd |-> chunk.fd]]
              /\ UNCHANGED chunk_map
         ELSE /\ chunk_map' = [chunk_map EXCEPT ![r.task.chunk] = [path |-> chunk.path, fd |-> r.fd]]
              /\ reader' = [reader EXCEPT ![c][w] = [at |-> "pread", task |-> r.task, fd |-> r.fd]]
              /\ UNCHANGED fds
  /\ UNCHANGED <<container, threadpool_size, tasks, dese_map, phase, ret, thread, missed>>
  /\ UNCHANGED <<disk, call>>

(* The bytes the dropping has of the task go into the buffer: each is      *)
(* named by the file it came from and its place there.                     *)
Pread(c, w) ==
  /\ reader[c][w].at = "pread"
  /\ \/ fds[reader[c][w].fd] \in disk.bad /\ Failed(c, w)
     \/ LET k == call[c]
            r == reader[c][w]
            t == r.task
            n == IF t.off >= Length THEN 0 ELSE Min2(t.len, Length - t.off)
        IN  /\ fds[r.fd] \notin disk.bad
            /\ call' = [call EXCEPT ![c] = [k EXCEPT
                 !.buf = [i \in DOMAIN k.buf |->
                   IF i >= t.buf /\ i < t.buf + n THEN <<fds[r.fd], t.off + (i - t.buf)>> ELSE k.buf[i]],
                 !.total = k.total + n]]
            /\ reader' = [reader EXCEPT ![c][w] = [NoReader EXCEPT !.at = "take"]]
  /\ UNCHANGED <<aggVars, disk, fds>>

(* All threads are joined.                                                 *)
Return(c) ==
  /\ call[c].at = "reading" /\ \A w \in Workers : reader[c][w].at \in {"off", "exit"}
  /\ call' = [call EXCEPT ![c].at = "returned"]
  /\ reader' = [reader EXCEPT ![c] = [w \in Workers |-> NoReader]]
  /\ UNCHANGED <<aggVars, disk, fds>>

Stashed == {chunk_map[i].fd : i \in DOMAIN chunk_map} \ {-1}

(* The handle's last close, the end of the call for a handle open for      *)
(* writing as well, or an error of populateIndex: the Index is deleted.    *)
DeleteIndex ==
  /\ phase = "done"
  /\ \A c \in Calls : call[c].at # "reading"
  /\ fds' = [f \in DOMAIN fds \ Stashed |-> fds[f]]
  /\ dese_map' = NoUnits /\ chunk_map' = << >>
  /\ phase' = "closed"
  /\ UNCHANGED <<container, threadpool_size, tasks, ret, thread, missed, disk, call, reader>>

ReadStep(c, w) ==
  Take(c, w) \/ GetChunkFd(c, w) \/ OpenChunk(c, w) \/ Stash(c, w) \/ Pread(c, w)

Next ==
  \/ Aggregate /\ UNCHANGED readVars
  \/ \E c \in Calls : \/ \E r \in Requests[c] : Begin(c, r)
                      \/ \E w \in Workers : ReadStep(c, w)
                      \/ Return(c)
  \/ DeleteIndex

(* A thread that can run is run.                                           *)
Fairness ==
  /\ WF_vars(Aggregate /\ UNCHANGED readVars)
  /\ \A c \in Calls : WF_vars(Return(c)) /\ \A w \in Workers : WF_vars(ReadStep(c, w))

Spec == ReadInit /\ [][Next]_vars /\ Fairness

-----------------------------------------------------------------------------
(* The types of the state.                                                 *)
Task == [fd : Fd, chunk : Nat, path : Paths \cup {NoTask.path}, off : Nat, len : Nat, buf : Nat]
Reader == [at : {"off", "take", "fd", "open", "stash", "pread", "exit"}, task : Task, fd : Fd]

CallTyped(d) ==
  /\ d = [at |-> d.at, offset |-> d.offset, size |-> d.size, tasks |-> d.tasks, pool |-> d.pool,
          buf |-> d.buf, total |-> d.total, error |-> d.error]
  /\ d.at \in {"idle", "reading", "returned"} /\ d.offset \in Nat /\ d.size \in Nat
  /\ d.tasks \in Seq(Task) /\ d.pool \in Nat \ {0} /\ d.error \in BOOLEAN
  /\ d.buf \in [0..(d.size - 1) -> (Paths \X Nat) \cup {Unset}]
  /\ d.total \in 0..d.size

TypeOK ==
  /\ AggTypeOK
  /\ disk \in Disks
  /\ fds \in [DOMAIN fds -> disk.present] /\ DOMAIN fds \subseteq Nat \ {0} /\ IsFiniteSet(DOMAIN fds)
  /\ call = [c \in Calls |-> call[c]] /\ \A c \in Calls : CallTyped(call[c])
  /\ reader \in [Calls -> [Workers -> Reader]]

(* A stashed descriptor is open on its chunk's file, a descriptor in use   *)
(* is open on the task's, every open descriptor is stashed or about to be, *)
(* and none is left when the index is gone.                                *)
DescriptorsAreKept ==
  /\ \A i \in DOMAIN chunk_map : LET f == chunk_map[i].fd IN
       f >= 0 => f \in DOMAIN fds /\ fds[f] = chunk_map[i].path
  /\ \A c \in Calls : \A w \in Workers : LET r == reader[c][w] IN
       r.at \in {"stash", "pread"} => r.fd \in DOMAIN fds /\ fds[r.fd] = r.task.path
  /\ \A f \in DOMAIN fds :
       \/ f \in {chunk_map[i].fd : i \in DOMAIN chunk_map}
       \/ \E c \in Calls : \E w \in Workers : reader[c][w].at = "stash" /\ reader[c][w].fd = f

(* How many bytes from q on the index knows, of at most size.              *)
KnownFrom(q, size) ==
  CHOOSE n \in 0..size : /\ n < size => Found(q + n).len = 0
                         /\ \A i \in 0..(n - 1) : Found(q + i).len > 0

(* No record begins before the one in front of it ends.                    *)
Apart == \A o, p \in DOMAIN dese_map : o < p => o + dese_map[o].len <= p

(* Whatever the order in which threads take tasks, open droppings and race *)
(* for the stash: a read that reports no error has put every byte the      *)
(* index knows, up to the first it does not, where it belongs, except the  *)
(* bytes past the end of a data dropping; it counts what it has put; and   *)
(* it has needed no dropping that is not there.  Only if no records        *)
(* overlap: a task goes to the end of its record, over a later one.        *)
ReadsAreExact ==
  Built /\ Apart => \A c \in Calls : call[c].at = "returned" /\ ~call[c].error =>
    LET q == call[c].offset
        n == KnownFrom(q, call[c].size)
        put == {i \in DOMAIN call[c].buf : i < n /\ Found(q + i).off < Length}
    IN  /\ \A i \in DOMAIN call[c].buf :
             call[c].buf[i] = IF i \in put THEN <<Found(q + i).path, Found(q + i).off>> ELSE Unset
        /\ call[c].total = Cardinality(put)
        /\ \A i \in 0..(n - 1) : Found(q + i).path \in disk.present \ disk.bad

(* Every call of plfs_read that has begun returns, and populateIndex does. *)
ReadsReturn ==
  /\ phase = "list" ~> phase = "done"
  /\ \A c \in Calls : call[c].at = "reading" ~> call[c].at = "returned"
=============================================================================
