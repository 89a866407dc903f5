----------------------------- MODULE WriteFile -----------------------------
(***************************************************************************)
(* One WriteFile object (src/WriteFile.cpp) and the Index it owns, from    *)
(* the first plfs_open for writing until the last plfs_close deletes it.   *)
(* Threads share the object; each writes under a process id, and every     *)
(* process id has its own data dropping, to which the backend appends.     *)
(* A write is two steps: Util::Write appends to the data dropping with no  *)
(* lock held, then the record enters the index under index_mux.  A         *)
(* truncate through an open handle is three: the droppings, the handle's   *)
(* buffered index, the reopening of the droppings.                         *)
(*                                                                         *)
(* A byte of a data dropping is represented by the logical offset it was   *)
(* written for.  The index dropping is the set of records flushed to it    *)
(* (PatternDetect models how flush encodes them).                          *)
(***************************************************************************)
EXTENDS HostIndex, Sequences, FiniteSets

CONSTANTS
  Thread,        \* application threads inside plfs calls
  Pid,           \* the process ids they pass
  PidOf,         \* the process id of each thread
  Offsets,       \* logical offsets a write may start at
  Sizes,         \* sizes a write may have
  TruncOffsets,  \* offsets a truncate may ask for
  MayFail,       \* backend calls that may fail: "write", "flush", "restore"
  MaxWrites, MaxTruncs, MaxOpens   \* bounds: writes, truncates, opens per thread

ASSUME PidOfAssumption == PidOf \in [Thread -> Pid]
ASSUME RangeAssumption ==
  /\ Offsets \subseteq Nat /\ TruncOffsets \subseteq Nat
  /\ Sizes \subseteq Nat \ {0}
ASSUME BoundAssumption == MaxWrites \in Nat /\ MaxTruncs \in Nat /\ MaxOpens \in Nat

(* plfs_open.3in requires pid to be "a unique value to ensure that multiple *)
(* writers will not interfere with each other".                             *)
UniquePids == \A t, u \in Thread : PidOf[t] = PidOf[u] => t = u

VARIABLES
  fds,              \* WriteFile::fds: writers of each pid, 0 when it has no fd
  reference_count,  \* Metadata::reference_count of the WriteFile
  opens,            \* opens not yet closed: <<thread, number>>
  hostIndex, next_slot, physical_offsets,   \* the Index: see HostIndex
  data,             \* data droppings: the bytes appended to each
  dropping,         \* index dropping: the records flushed to it
  last_offset,      \* Metadata::last_offset of the WriteFile
  index_mux,        \* "free", or "leaked" by an early return of restoreFds
  pc, call,         \* where each thread is, and the call it is in
  n_writes, n_truncs,   \* calls made, for the bounds
  acked,            \* history: bytes of writes that returned success
  committed,        \* history: acked bytes of the writers that then synced
  merged,           \* history: pids with a write merged into the last record
  zeroed,           \* history: pids whose data dropping was truncated under them
  flush_failed      \* history: a flush that held records failed

handle  == <<fds, reference_count, opens>>
index   == <<hostIndex, next_slot, physical_offsets, dropping>>
history == <<acked, committed, merged, zeroed, flush_failed>>
bounds  == <<n_writes, n_truncs>>
vars == <<handle, index, data, last_offset, index_mux, pc, call, bounds, history>>

NoCall == [off |-> 0, len |-> 0, got |-> 0]

Init ==
  /\ fds = [p \in Pid |-> 0]
  /\ reference_count = 0
  /\ opens = {}
  /\ hostIndex = NoEntries
  /\ next_slot = 0
  /\ physical_offsets = [p \in Pid |-> 0]
  /\ data = [p \in Pid |-> << >>]
  /\ dropping = {}
  /\ last_offset = 0
  /\ index_mux = "free"
  /\ pc = [t \in Thread |-> "idle"]
  /\ call = [t \in Thread |-> NoCall]
  /\ n_writes = 0 /\ n_truncs = 0
  /\ acked = {} /\ committed = {}
  /\ merged = {} /\ zeroed = {}
  /\ flush_failed = FALSE

Goto(t, l) == pc' = [pc EXCEPT ![t] = l]

(* The call ends: its locals are gone. *)
Return(t) == Goto(t, "idle") /\ call' = [call EXCEPT ![t] = NoCall]

-----------------------------------------------------------------------------
(* Opening and closing. *)

OpensOf(t) == {o \in opens : o[1] = t}

(* addWriter(pid, false): reuse the pid's descriptor or open its dropping,  *)
(* which O_APPEND leaves as it is when the pid had one before.  The handle  *)
(* of the model is alive from its first open to its last close.             *)
AddWriter(t) ==
  /\ pc[t] = "idle"
  /\ reference_count > 0 \/ (n_writes = 0 /\ n_truncs = 0)
  /\ fds' = [fds EXCEPT ![PidOf[t]] = @ + 1]
  /\ reference_count' = reference_count + 1
  /\ \E k \in 1..MaxOpens : <<t, k>> \notin opens /\ opens' = opens \cup {<<t, k>>}
  /\ UNCHANGED <<index, data, last_offset, index_mux, pc, call, bounds, history>>

(* Index::flush clears hostIndex whether or not the write succeeded.        *)
FlushOutcomes == IF "flush" \in MayFail THEN {TRUE, FALSE} ELSE {TRUE}

Flush(h, ok) ==
  /\ hostIndex' = NoEntries
  /\ next_slot' = 0
  /\ dropping' = IF ok THEN dropping \cup Entries(h) ELSE dropping
  /\ flush_failed' = (flush_failed \/ (~ok /\ DOMAIN h # {}))

(* plfs_close -> removeWriter(pid): the descriptor goes with the pid's last *)
(* writer.                                                                  *)
\* Mutant: a close takes the descriptor of the thread that calls it, whoever opened.
RemoveWriter_Twice(t) ==
  /\ pc[t] = "idle" /\ reference_count > 1 /\ opens # {}
  /\ fds' = [fds EXCEPT ![PidOf[t]] = @ - 1]
  /\ reference_count' = reference_count - 1
  /\ \E o \in opens : opens' = opens \ {o}
  /\ UNCHANGED <<index, data, last_offset, index_mux, pc, call, bounds, history>>

RemoveWriter(t) ==
  /\ pc[t] = "idle" /\ reference_count > 1
  /\ fds' = [fds EXCEPT ![PidOf[t]] = @ - 1]
  /\ reference_count' = reference_count - 1
  /\ \E o \in OpensOf(t) : opens' = opens \ {o}
  /\ UNCHANGED <<index, data, last_offset, index_mux, pc, call, bounds, history>>

(* The last plfs_close deletes the WriteFile: Close() drops every           *)
(* descriptor, closeIndex flushes and ignores the result.  By then every    *)
(* other thread is out of the library (the THREAD SAFETY note of            *)
(* WriteFile.h: writers leave only in the release after all have closed).   *)
LastClose(t) ==
  /\ reference_count = 1
  /\ \A u \in Thread : pc[u] = "idle"
  /\ index_mux = "free"
  /\ \E ok \in FlushOutcomes : Flush(hostIndex, ok)
  /\ fds' = [p \in Pid |-> 0]
  /\ reference_count' = 0
  /\ \E o \in OpensOf(t) : opens' = opens \ {o}
  /\ UNCHANGED <<physical_offsets, data, last_offset, index_mux, pc, call, bounds,
                 acked, committed, merged, zeroed>>

-----------------------------------------------------------------------------
(* Writing. *)

(* write(), first part: find the pid's descriptor, or add one for a child   *)
(* writing through its parent's handle: addWriter(pid, true) opens a        *)
(* dropping for it and leaves reference_count alone.                        *)
\* Mutant: a child writes through the handle without a descriptor of its own.
BeginWrite_NoChildFd(t) ==
  /\ pc[t] = "idle" /\ reference_count > 0 /\ n_writes < MaxWrites
  /\ \E off \in Offsets, n \in Sizes : call' = [call EXCEPT ![t] = [off |-> off, len |-> n, got |-> 0]]
  /\ n_writes' = n_writes + 1
  /\ Goto(t, "found")
  /\ UNCHANGED <<handle, index, data, last_offset, index_mux, n_truncs, history>>

BeginWrite(t) ==
  /\ pc[t] = "idle" /\ reference_count > 0 /\ n_writes < MaxWrites
  /\ \E off \in Offsets, n \in Sizes : call' = [call EXCEPT ![t] = [off |-> off, len |-> n, got |-> 0]]
  /\ fds' = [fds EXCEPT ![PidOf[t]] = IF @ = 0 THEN 1 ELSE @]
  /\ n_writes' = n_writes + 1
  /\ Goto(t, "found")
  /\ UNCHANGED <<reference_count, opens, index, data, last_offset, index_mux, n_truncs, history>>

Bytes(off, n) == [i \in 1..n |-> off + i - 1]

(* Util::Write appends to the pid's dropping, perhaps only a part; on an    *)
(* error nothing is recorded and the call returns -errno.                   *)
AppendData(t) ==
  /\ pc[t] = "found"
  /\ \E n \in 1..call[t].len :
       /\ data' = [data EXCEPT ![PidOf[t]] = @ \o Bytes(call[t].off, n)]
       /\ call' = [call EXCEPT ![t].got = n]
  /\ Goto(t, "appended")
  /\ UNCHANGED <<handle, index, last_offset, index_mux, bounds, history>>

AppendFails(t) ==
  /\ pc[t] = "found" /\ "write" \in MayFail
  /\ Return(t)
  /\ UNCHANGED <<handle, index, data, last_offset, index_mux, bounds, history>>

MaxOf(a, b) == IF a > b THEN a ELSE b

Written(p, off, n) == {<<p, x>> : x \in off..(off + n - 1)}

\* Mutant: the record takes the size asked for, not the bytes written.
RecordWrite_AskedSize(t) ==
  /\ pc[t] = "appended" /\ index_mux = "free"
  /\ LET p == PidOf[t]
         c == call[t]
     IN  /\ hostIndex' = IndexAfter(hostIndex, physical_offsets, next_slot + 1, c.off, c.len, p)
         /\ next_slot' = SlotAfter(hostIndex, next_slot, c.off, p)
         /\ physical_offsets' = OffsetsAfter(hostIndex, physical_offsets, c.off, c.len, p)
         /\ merged' = IF Continued(hostIndex, c.off, p) THEN merged \cup {p} ELSE merged
         /\ last_offset' = MaxOf(last_offset, c.off + c.len)
         /\ acked' = acked \cup Written(p, c.off, c.got)
  /\ Return(t)
  /\ UNCHANGED <<handle, dropping, data, index_mux, bounds, committed, zeroed, flush_failed>>

\* Mutant: the metadata keeps the end of the latest write.
RecordWrite_LatestEnd(t) ==
  /\ pc[t] = "appended" /\ index_mux = "free"
  /\ LET p == PidOf[t]
         c == call[t]
     IN  /\ hostIndex' = IndexAfter(hostIndex, physical_offsets, next_slot + 1, c.off, c.got, p)
         /\ next_slot' = SlotAfter(hostIndex, next_slot, c.off, p)
         /\ physical_offsets' = OffsetsAfter(hostIndex, physical_offsets, c.off, c.got, p)
         /\ merged' = IF Continued(hostIndex, c.off, p) THEN merged \cup {p} ELSE merged
         /\ last_offset' = c.off + c.len
         /\ acked' = acked \cup Written(p, c.off, c.got)
  /\ Return(t)
  /\ UNCHANGED <<handle, dropping, data, index_mux, bounds, committed, zeroed, flush_failed>>

(* write(), second part, under index_mux: the record for the bytes that     *)
(* went out, and the metadata for the bytes that were asked for.            *)
RecordWrite(t) ==
  /\ pc[t] = "appended" /\ index_mux = "free"
  /\ LET p == PidOf[t]
         c == call[t]
     IN  /\ hostIndex' = IndexAfter(hostIndex, physical_offsets, next_slot + 1, c.off, c.got, p)
         /\ next_slot' = SlotAfter(hostIndex, next_slot, c.off, p)
         /\ physical_offsets' = OffsetsAfter(hostIndex, physical_offsets, c.off, c.got, p)
         /\ merged' = IF Continued(hostIndex, c.off, p) THEN merged \cup {p} ELSE merged
         /\ last_offset' = MaxOf(last_offset, c.off + c.len)
         /\ acked' = acked \cup Written(p, c.off, c.got)
  /\ Return(t)
  /\ UNCHANGED <<handle, dropping, data, index_mux, bounds, committed, zeroed, flush_failed>>

(* The same when write_count reaches a multiple of 102400 (any write of the *)
(* model may be that one): the index is flushed in the same critical        *)
(* section, and the call fails if the flush does.                           *)
RecordAndFlush(t) ==
  /\ pc[t] = "appended" /\ index_mux = "free"
  /\ LET p == PidOf[t]
         c == call[t]
         h == IndexAfter(hostIndex, physical_offsets, next_slot + 1, c.off, c.got, p)
     IN  \E ok \in FlushOutcomes :
           /\ Flush(h, ok)
           /\ physical_offsets' = OffsetsAfter(hostIndex, physical_offsets, c.off, c.got, p)
           /\ merged' = IF Continued(hostIndex, c.off, p) THEN merged \cup {p} ELSE merged
           /\ last_offset' = IF ok THEN MaxOf(last_offset, c.off + c.len) ELSE last_offset
           /\ acked' = IF ok THEN acked \cup Written(p, c.off, c.got) ELSE acked
  /\ Return(t)
  /\ UNCHANGED <<handle, data, index_mux, bounds, committed, zeroed>>

\* Mutant: sync commits the data dropping and leaves the index buffered.
Sync_DataOnly(t) ==
  /\ pc[t] = "idle" /\ fds[PidOf[t]] > 0 /\ index_mux = "free"
  /\ committed' = committed \cup {b \in acked : b[1] = PidOf[t]}
  /\ UNCHANGED <<handle, index, data, last_offset, index_mux, pc, call, bounds,
                 acked, merged, zeroed, flush_failed>>

(* sync(): the pid's data, then the index flushed under index_mux; the      *)
(* result of the flush is not looked at and the call returns 0.  A pid      *)
(* without a descriptor is ignored (a stuttering step).                     *)
Sync(t) ==
  /\ pc[t] = "idle" /\ fds[PidOf[t]] > 0 /\ index_mux = "free"
  /\ \E ok \in FlushOutcomes : Flush(hostIndex, ok)
  /\ committed' = committed \cup {b \in acked : b[1] = PidOf[t]}
  /\ UNCHANGED <<handle, physical_offsets, data, last_offset, index_mux, pc, call, bounds,
                 acked, merged, zeroed>>

-----------------------------------------------------------------------------
(* Truncating. *)

(* removeDirectoryTree(path, true): every dropping is truncated in place,   *)
(* whoever has it open.                                                     *)
EmptyDroppings ==
  /\ data' = [p \in Pid |-> << >>]
  /\ dropping' = {}
  /\ acked' = {} /\ committed' = {}
  /\ zeroed' = zeroed \cup {p \in Pid : Len(data[p]) > 0 \/ physical_offsets[p] > 0}
  /\ UNCHANGED <<hostIndex, next_slot, physical_offsets, last_offset, merged, flush_failed>>

(* extendFile -> extend(): a record of length 0 at the new end, for the     *)
(* first pid of fds, taken without index_mux.                               *)
ExtendTo(offset) ==
  /\ \E p \in {q \in Pid : fds[q] > 0} :
       /\ hostIndex' = IndexAfter(hostIndex, physical_offsets, next_slot + 1, offset, 0, p)
       /\ next_slot' = SlotAfter(hostIndex, next_slot, offset, p)
       /\ merged' = IF Continued(hostIndex, offset, p) THEN merged \cup {p} ELSE merged
  /\ last_offset' = MaxOf(last_offset, offset)
  /\ UNCHANGED <<physical_offsets, data, dropping, acked, committed, zeroed, flush_failed>>

(* plfs_trunc through a handle, first step.  The size compared with is the  *)
(* handle's own last_offset.  A file that is longer goes through            *)
(* Container::Truncate, which rewrites an index dropping only if its        *)
(* index's lastOffset() is beyond offset: readIndex leaves it at 0.         *)
TruncContainer(t) ==
  /\ pc[t] = "idle" /\ OpensOf(t) # {} /\ n_truncs < MaxTruncs
  /\ \E offset \in TruncOffsets :
       /\ call' = [call EXCEPT ![t] = [off |-> offset, len |-> 0, got |-> 0]]
       /\ \/ offset = 0 /\ EmptyDroppings
          \/ offset > last_offset /\ ExtendTo(offset)
          \/ offset \in 1..last_offset /\ UNCHANGED <<index, data, last_offset, history>>
  /\ n_truncs' = n_truncs + 1
  /\ Goto(t, "shrunk")
  /\ UNCHANGED <<handle, index_mux, n_writes>>

\* Mutant: truncate takes index_mux and leaves the unlock to restoreFds.
TruncHandle_KeepsMux(t) ==
  /\ pc[t] = "shrunk"
  /\ LET offset == call[t].off IN
       /\ last_offset' = offset
       /\ hostIndex' = IndexBelow(hostIndex, offset)
       /\ acked' = {b \in acked : b[2] < offset}
       /\ committed' = {b \in committed : b[2] < offset}
  /\ index_mux = "free" /\ index_mux' = "held"
  /\ Goto(t, "adjusted")
  /\ UNCHANGED <<handle, next_slot, physical_offsets, dropping, data, call, bounds,
                 merged, zeroed, flush_failed>>

(* WriteFile::truncate: metadata and buffered index, with no lock held.     *)
TruncHandle(t) ==
  /\ pc[t] = "shrunk"
  /\ LET offset == call[t].off IN
       /\ last_offset' = offset
       /\ hostIndex' = IndexBelow(hostIndex, offset)
       /\ acked' = {b \in acked : b[2] < offset}
       /\ committed' = {b \in committed : b[2] < offset}
  /\ Goto(t, "adjusted")
  /\ UNCHANGED <<handle, next_slot, physical_offsets, dropping, data, index_mux, call, bounds,
                 merged, zeroed, flush_failed>>

(* restoreFds: flush, then reopen every dropping in append mode.            *)
RestoreFds(t) ==
  /\ pc[t] = "adjusted" /\ index_mux = "free"
  /\ \E ok \in FlushOutcomes : Flush(hostIndex, ok)
  /\ Return(t)
  /\ UNCHANGED <<handle, physical_offsets, data, last_offset, index_mux, bounds,
         acked, committed, merged, zeroed>>

(* A failed reopen of the index dropping returns before the unlock.         *)
RestoreFdsFails(t) ==
  /\ pc[t] = "adjusted" /\ index_mux = "free" /\ "restore" \in MayFail
  /\ \E ok \in FlushOutcomes : Flush(hostIndex, ok)
  /\ index_mux' = "leaked"
  /\ Return(t)
  /\ UNCHANGED <<handle, physical_offsets, data, last_offset, bounds,
         acked, committed, merged, zeroed>>

(* open(O_TRUNC) or truncate(path, 0) elsewhere: plfs_trunc with no handle. *)
TruncByPath ==
  /\ reference_count > 0 /\ 0 \in TruncOffsets /\ n_truncs < MaxTruncs
  /\ EmptyDroppings
  /\ n_truncs' = n_truncs + 1
  /\ UNCHANGED <<handle, index_mux, pc, call, n_writes>>

-----------------------------------------------------------------------------
Write(t) == AppendData(t) \/ AppendFails(t) \/ RecordWrite(t) \/ RecordAndFlush(t)
Truncate(t) == TruncHandle(t) \/ RestoreFds(t) \/ RestoreFdsFails(t)

Next ==
  \/ \E t \in Thread :
       \/ AddWriter(t) \/ RemoveWriter(t) \/ LastClose(t)
       \/ BeginWrite(t) \/ Write(t) \/ Sync(t)
       \/ TruncContainer(t) \/ Truncate(t)
  \/ TruncByPath

(* A thread inside the library keeps running: every step of a call in       *)
(* progress is one that only that thread can take, so weak fairness is what *)
(* a scheduler that never starves a runnable thread gives.                  *)
Fairness == \A t \in Thread : WF_vars(Write(t)) /\ WF_vars(Truncate(t))

Spec == Init /\ [][Next]_vars
FairSpec == Spec /\ Fairness

-----------------------------------------------------------------------------
(* The types of the state. *)
Byte == Pid \X Nat

Where == {"idle", "found", "appended", "shrunk", "adjusted"}

HandleOK ==
  /\ fds \in [Pid -> Nat]
  /\ reference_count \in Nat
  /\ opens \subseteq Thread \X (1..MaxOpens)

IndexOK ==
  /\ IsIndex(Pid, hostIndex, next_slot)
  /\ physical_offsets \in [Pid -> Nat]
  /\ dropping \subseteq Entry(Pid)

FileOK ==
  /\ data \in [Pid -> Seq(Nat)]
  /\ last_offset \in Nat
  /\ index_mux \in {"free", "leaked"}

CallsOK ==
  /\ pc \in [Thread -> Where]
  /\ call \in [Thread -> [off : Nat, len : Nat, got : Nat]]
  /\ n_writes \in Nat /\ n_truncs \in Nat

HistoryOK ==
  /\ acked \subseteq Byte /\ committed \subseteq Byte
  /\ merged \subseteq Pid /\ zeroed \subseteq Pid
  /\ flush_failed \in BOOLEAN

TypeOK == HandleOK /\ IndexOK /\ FileOK /\ CallsOK /\ HistoryOK

Records == Entries(hostIndex) \cup dropping

PointsAtItsBytes(e) ==
  /\ e.phy + e.len <= Len(data[e.id])
  /\ \A i \in 0..(e.len - 1) : data[e.id][e.phy + i + 1] = e.log + i

Covered(es, b) == \E e \in es : e.id = b[1] /\ e.log <= b[2] /\ b[2] < e.log + e.len

(* Every index record points at the bytes of its own write, however the    *)
(* appends, the index insertions, the flushes, the closes and reopens of   *)
(* several processes interleave: addWrite's "track current offset by pid    *)
(* ... DONE".  Not after a write that was merged into the previous record,  *)
(* nor after a truncate to zero under an open handle, either of which      *)
(* leaves the offset counted for the process wrong.                        *)
PlacedUnlessMerged ==
  UniquePids => \A e \in Records : e.id \notin merged \cup zeroed => PointsAtItsBytes(e)

(* A merged write makes later records point too low, never past the end    *)
(* of the dropping: a reader gets bytes of the right process.              *)
RecordsInsideDropping ==
  \A e \in Records : e.id \notin zeroed => e.phy + e.len <= Len(data[e.id])

(* A write that returned success is described by a record, buffered or     *)
(* flushed, until a truncate removes it, unless a flush has failed         *)
(* (Index::flush clears the buffer it could not write).                    *)
NoWriteForgotten == ~flush_failed => \A b \in acked : Covered(Records, b)

(* After sync returned 0 to a writer, the records of its writes are in the *)
(* index dropping, unless a flush has failed.                              *)
SyncedIsDurable == ~flush_failed => \A b \in committed : Covered(dropping, b)

(* The size the handle reports, which is also what the last close drops as *)
(* metadata, is past every byte of a successful write.                     *)
SizeCoversWrites == \A b \in acked : b[2] < last_offset

(* A process keeps its descriptor while a thread holds a handle it opened  *)
(* under that process id, and while one of its writes is between the       *)
(* lookup and the end of the call.                                         *)
OpenersKeepTheirFd ==
  \A t \in Thread :
    (OpensOf(t) # {} \/ (UniquePids /\ pc[t] \in {"found", "appended"})) => fds[PidOf[t]] > 0

(* A write or truncate that has started returns, unless restoreFds has     *)
(* left index_mux locked.                                                  *)
CallsReturn ==
  \A t \in Thread : (pc[t] # "idle") ~> (pc[t] = "idle" \/ index_mux = "leaked")
=============================================================================
