-------------------------- MODULE WriteFileProofs --------------------------
(***************************************************************************)
(* What WriteFile guarantees for every set of threads, process ids,        *)
(* offsets, sizes, failures and bounds; and what the two algorithms on the *)
(* records of writes do (src/Index.cpp): the encoder that a flush runs     *)
(* loses nothing, for every list of values and every window size; and a    *)
(* lookup in the global index finds the last write, for every set of       *)
(* writes in every order of insertion.                                     *)
(***************************************************************************)
EXTENDS WriteFile, PatternDetect, GlobalIndex, SequenceTheorems, FiniteSetTheorems,
        WellFoundedInduction, TLAPS

(* What Index::addWrite and Index::truncateHostIndex do to the SET of      *)
(* buffered records, for every index.  The invariance proofs below cite    *)
(* these lemmas and never open an index themselves.                        *)
LEMMA EmptyIndex ==
  ASSUME NEW Pids
  PROVE  IsIndex(Pids, NoEntries, 0) /\ Entries(NoEntries) = {}
  BY DEF IsIndex, NoEntries, Entries

(* addWrite that continues the last record: that record grows by n and     *)
(* every other record stays.                                               *)
LEMMA GrownIndex ==
  ASSUME NEW Pids, NEW h, NEW slot, IsIndex(Pids, h, slot),
         NEW po, NEW pid \in Pids, NEW off \in Nat, NEW n \in Nat,
         Continued(h, off, pid)
  PROVE  LET H == IndexAfter(h, po, slot + 1, off, n, pid) IN
         /\ IsIndex(Pids, H, SlotAfter(h, slot, off, pid))
         /\ \E e \in Entries(h) :
              /\ e.id = pid /\ e.log + e.len = off
              /\ Longer(e, n) \in Entries(H)
              /\ Entries(H) \subseteq Entries(h) \cup {Longer(e, n)}
              /\ Entries(h) \ {e} \subseteq Entries(H)
<1> DEFINE H == IndexAfter(h, po, slot + 1, off, n, pid)
           k == CHOOSE j \in DOMAIN h : Continues(h, j, off, pid)
           e == h[k]
           g == Longer(e, n)
<1>1. k \in DOMAIN h /\ Continues(h, k, off, pid)
  BY DEF Continued
<1>2. H = Grown(h, k, n)
  BY DEF IndexAfter
<1>3. DOMAIN H = DOMAIN h /\ \A j \in DOMAIN h : H[j] = IF j = k THEN g ELSE h[j]
  BY <1>1, <1>2 DEF Grown
<1>4. e \in Entries(h) /\ e \in Entry(Pids)
  BY <1>1 DEF Entries, IsIndex
<1>5. e.id = pid /\ e.log + e.len = off
  BY <1>1 DEF Continues
<1>6. g \in Entry(Pids)
  <2> HIDE DEF e
  <2>1. e.len + n \in Nat
    BY <1>4 DEF Entry
  <2> QED BY <1>4, <2>1 DEF Entry, Longer
<1>7. g \in Entries(H)
  BY <1>1, <1>3 DEF Entries
<1>8. Entries(H) \subseteq Entries(h) \cup {g}
  BY <1>3 DEF Entries
<1>9. Entries(h) \ {e} \subseteq Entries(H)
  BY <1>3 DEF Entries
<1>10. IsIndex(Pids, H, SlotAfter(h, slot, off, pid))
  BY <1>3, <1>6, <1>8 DEF IsIndex, SlotAfter
<1> HIDE DEF H, k
<1> QED
  BY <1>4, <1>5, <1>7, <1>8, <1>9, <1>10 DEF H

(* addWrite that does not: a record at the process's next physical offset  *)
(* is pushed, in a slot no other record has.                               *)
LEMMA PushedIndex ==
  ASSUME NEW Pids, NEW h, NEW slot, IsIndex(Pids, h, slot),
         NEW pid \in Pids, NEW po \in [Pids -> Nat], NEW off \in Nat, NEW n \in Nat,
         ~Continued(h, off, pid)
  PROVE  LET H == IndexAfter(h, po, slot + 1, off, n, pid) IN
         /\ IsIndex(Pids, H, SlotAfter(h, slot, off, pid))
         /\ Entries(H) = Entries(h) \cup {[id |-> pid, log |-> off, len |-> n, phy |-> po[pid]]}
<1> DEFINE H == IndexAfter(h, po, slot + 1, off, n, pid)
           e == [id |-> pid, log |-> off, len |-> n, phy |-> po[pid]]
<1>1. slot + 1 \notin DOMAIN h /\ slot + 1 \in Nat
  BY DEF IsIndex
<1>2. H = Pushed(h, slot + 1, e)
  BY DEF IndexAfter
<1>3. /\ DOMAIN H = DOMAIN h \cup {slot + 1}
      /\ \A j \in DOMAIN H : H[j] = IF j = slot + 1 THEN e ELSE h[j]
  BY <1>2 DEF Pushed
<1>4. Entries(H) = Entries(h) \cup {e}
  <2> HIDE DEF H, e
  <2> QED BY <1>1, <1>3 DEF Entries
<1>5. e \in Entry(Pids)
  BY DEF Entry
<1>6. DOMAIN H \subseteq 1..(slot + 1)
  BY <1>1, <1>3 DEF IsIndex
<1>7. IsIndex(Pids, H, SlotAfter(h, slot, off, pid))
  BY <1>1, <1>4, <1>5, <1>6 DEF IsIndex, SlotAfter
<1> QED
  BY <1>4, <1>7

(* physical_offsets stays a map to offsets, and only pid's entry moves.    *)
LEMMA OffsetsAfterType ==
  ASSUME NEW Pids, NEW h, NEW pid \in Pids, NEW po \in [Pids -> Nat],
         NEW off \in Nat, NEW n \in Nat
  PROVE  /\ OffsetsAfter(h, po, off, n, pid) \in [Pids -> Nat]
         /\ \A q \in Pids : OffsetsAfter(h, po, off, n, pid)[q] =
              IF q = pid /\ ~Continued(h, off, pid) THEN po[q] + n ELSE po[q]
  BY DEF OffsetsAfter

(* truncateHostIndex: what is left of a record starts where the record     *)
(* started, is no longer than it, and still holds its bytes below the new  *)
(* end; a record that starts below the new end is not lost.                *)
Remains(g, e, offset) ==
  /\ g.id = e.id /\ g.log = e.log /\ g.phy = e.phy /\ g.len <= e.len
  /\ \A x \in Nat : x < offset /\ x < e.log + e.len => x < g.log + g.len

LEMMA CutIndex ==
  ASSUME NEW Pids, NEW h, NEW slot, IsIndex(Pids, h, slot), NEW offset \in Nat
  PROVE  LET H == IndexBelow(h, offset) IN
         /\ IsIndex(Pids, H, slot)
         /\ \A g \in Entries(H) : \E e \in Entries(h) : Remains(g, e, offset)
         /\ \A e \in Entries(h) : e.log < offset =>
              \E g \in Entries(H) : Remains(g, e, offset)
<1> DEFINE H == IndexBelow(h, offset)
           D == {j \in DOMAIN h : h[j].log < offset}
           cut(e) == [e EXCEPT !.len = ShortenedLen(e, offset)]
<1>1. DOMAIN H = D /\ \A j \in D : H[j] = cut(h[j])
  BY DEF IndexBelow
<1>2. ASSUME NEW e \in Entries(h), e.log < offset
      PROVE  cut(e) \in Entry(Pids) /\ Remains(cut(e), e, offset)
  <2>1. e \in Entry(Pids)
    BY DEF IsIndex
  <2>2. ShortenedLen(e, offset) \in Nat /\ ShortenedLen(e, offset) <= e.len
    BY <2>1, <1>2 DEF ShortenedLen, Entry
  <2>3. \A x \in Nat : x < offset /\ x < e.log + e.len => x < e.log + ShortenedLen(e, offset)
    BY <2>1, <1>2 DEF ShortenedLen, Entry
  <2>4. /\ cut(e) \in Entry(Pids)
        /\ cut(e).id = e.id /\ cut(e).log = e.log /\ cut(e).phy = e.phy
        /\ cut(e).len = ShortenedLen(e, offset)
    BY <2>1, <2>2 DEF Entry
  <2> QED
    BY <2>2, <2>3, <2>4 DEF Remains
<1>3. \A j \in D : h[j] \in Entries(h) /\ h[j].log < offset
  BY DEF Entries
<1>4. \A g \in Entries(H) : \E e \in Entries(h) :
        e.log < offset /\ g = cut(e)
  <2> HIDE DEF H, D, cut
  <2> QED BY <1>1, <1>3 DEF Entries
<1>5. \A e \in Entries(h) : e.log < offset => cut(e) \in Entries(H)
  <2>1. \A e \in Entries(h) : \E j \in DOMAIN h : e = h[j]
    BY DEF Entries
  <2>2. ASSUME NEW j \in DOMAIN h, h[j].log < offset
        PROVE  cut(h[j]) \in Entries(H)
    BY <1>1, <2>2 DEF Entries
  <2> HIDE DEF H, D, cut
  <2> QED BY <2>1, <2>2
<1>6. IsIndex(Pids, H, slot)
  <2>1. DOMAIN H \subseteq DOMAIN h
    BY <1>1
  <2>2. Entries(H) \subseteq Entry(Pids)
    <3> HIDE DEF H, cut
    <3> QED BY <1>2, <1>4
  <2> HIDE DEF H
  <2> QED BY <2>1, <2>2 DEF IsIndex
<1> HIDE DEF H, D, cut
<1> QED
  BY <1>2, <1>4, <1>5, <1>6 DEF H

-----------------------------------------------------------------------------
(* The state of a handle.                                                   *)

USE DEF Entry, Byte

LEMMA PidOfThread == \A t \in Thread : PidOf[t] \in Pid
  BY PidOfAssumption

(* The bytes of a write are a sequence, and appending them leaves the       *)
(* bytes before them where they were.                                      *)
LEMMA AppendedBytes ==
  ASSUME NEW s \in Seq(Nat), NEW off \in Nat, NEW n \in Nat
  PROVE  LET d == s \o Bytes(off, n) IN
         /\ d \in Seq(Nat) /\ Len(d) = Len(s) + n
         /\ \A i \in 1..Len(s) : d[i] = s[i]
         /\ \A i \in 1..n : d[Len(s) + i] = off + i - 1
<1>1. Bytes(off, n) \in Seq(Nat) /\ Len(Bytes(off, n)) = n
  BY DEF Bytes
<1>2. \A i \in 1..n : Bytes(off, n)[i] = off + i - 1
  BY DEF Bytes
<1>3. s \o Bytes(off, n) \in Seq(Nat)
  BY <1>1, ConcatProperties
<1>4. Len(s \o Bytes(off, n)) = Len(s) + n
  BY <1>1, ConcatProperties
<1>5. Len(s) \in Nat
  BY LenProperties
<1>6. \A i \in 1..Len(s) : (s \o Bytes(off, n))[i] = s[i]
  BY <1>1, <1>5, ConcatProperties
<1>7. \A i \in 1..n : (s \o Bytes(off, n))[Len(s) + i] = off + i - 1
  <2> SUFFICES ASSUME NEW i \in 1..n
               PROVE  (s \o Bytes(off, n))[Len(s) + i] = off + i - 1
    OBVIOUS
  <2>1. Len(s) + i \in 1..(Len(s) + Len(Bytes(off, n))) /\ Len(s) + i > Len(s)
    BY <1>1, <1>5
  <2>2. (s \o Bytes(off, n))[Len(s) + i] = Bytes(off, n)[Len(s) + i - Len(s)]
    BY <1>1, <1>5, <2>1, ConcatProperties
  <2> QED BY <1>2, <1>5, <2>2
<1> QED
  BY <1>3, <1>4, <1>6, <1>7

(* The index after addWrite is an index, whichever branch is taken.         *)
LEMMA IndexAfterType ==
  ASSUME TypeOK, NEW p \in Pid, NEW off \in Nat, NEW n \in Nat
  PROVE  IsIndex(Pid, IndexAfter(hostIndex, physical_offsets, next_slot + 1, off, n, p),
                      SlotAfter(hostIndex, next_slot, off, p))
<1>1. IsIndex(Pid, hostIndex, next_slot) /\ physical_offsets \in [Pid -> Nat]
  BY DEF TypeOK, IndexOK, CallsOK, HistoryOK
<1> QED
  BY <1>1, GrownIndex, PushedIndex

(* What flush leaves: an empty buffer, and an index dropping that has lost  *)
(* nothing and gained only buffered records, all of them unless it failed.  *)
LEMMA Flushed ==
  ASSUME TypeOK, NEW h, NEW ok \in BOOLEAN, NEW slot, IsIndex(Pid, h, slot), Flush(h, ok)
  PROVE  /\ IsIndex(Pid, hostIndex', next_slot') /\ Entries(hostIndex)' = {}
         /\ dropping \subseteq dropping' /\ dropping' \subseteq dropping \cup Entries(h)
         /\ dropping' \subseteq Entry(Pid)
         /\ Records' \subseteq dropping \cup Entries(h)
         /\ flush_failed' \in BOOLEAN /\ (flush_failed => flush_failed')
         /\ ~flush_failed' => dropping' = dropping \cup Entries(h)
<1>1. hostIndex' = NoEntries /\ next_slot' = 0
  BY DEF Flush
<1>2. IsIndex(Pid, hostIndex', next_slot') /\ Entries(hostIndex)' = {}
  BY <1>1, EmptyIndex
<1>3. DOMAIN h = {} => Entries(h) = {}
  BY DEF Entries
<1>4. Entries(h) \subseteq Entry(Pid) /\ dropping \subseteq Entry(Pid)
  BY DEF IsIndex, TypeOK, IndexOK
<1>5. flush_failed \in BOOLEAN
  BY DEF TypeOK, IndexOK, CallsOK, HistoryOK
<1> QED
  BY <1>2, <1>3, <1>4, <1>5 DEF Flush, Records

-----------------------------------------------------------------------------
(* Type correctness. *)

(* Moving one thread keeps the types of pc and call.                        *)
LEMMA MoveType ==
  ASSUME TypeOK, NEW t \in Thread
  PROVE  /\ \A l \in Where : Goto(t, l) => pc' \in [Thread -> Where]
         /\ \A c \in [off : Nat, len : Nat, got : Nat] :
              call' = [call EXCEPT ![t] = c] => call' \in [Thread -> [off : Nat, len : Nat, got : Nat]]
         /\ Return(t) => /\ pc' \in [Thread -> Where]
                         /\ call' \in [Thread -> [off : Nat, len : Nat, got : Nat]]
<1>1. "idle" \in Where /\ NoCall \in [off : Nat, len : Nat, got : Nat]
  BY DEF Where, NoCall
<1>2. pc \in [Thread -> Where] /\ call \in [Thread -> [off : Nat, len : Nat, got : Nat]]
  BY DEF TypeOK, CallsOK
<1> QED
  BY <1>1, <1>2 DEF Goto, Return

(* addWrite's effect on the typed state, for either branch.                 *)
LEMMA RecordType ==
  ASSUME TypeOK, NEW t \in Thread
  PROVE  LET p == PidOf[t]
             c == call[t]
         IN /\ p \in Pid /\ c.off \in Nat /\ c.len \in Nat /\ c.got \in Nat
            /\ OffsetsAfter(hostIndex, physical_offsets, c.off, c.got, p) \in [Pid -> Nat]
            /\ IsIndex(Pid, IndexAfter(hostIndex, physical_offsets, next_slot + 1, c.off, c.got, p),
                            SlotAfter(hostIndex, next_slot, c.off, p))
            /\ MaxOf(last_offset, c.off + c.len) \in Nat
            /\ Written(p, c.off, c.got) \subseteq Byte
<1>1. PidOf[t] \in Pid
  BY PidOfThread
<1>2. call[t] \in [off : Nat, len : Nat, got : Nat] /\ physical_offsets \in [Pid -> Nat]
  BY DEF TypeOK, CallsOK, IndexOK
<1>3. call[t].off \in Nat /\ call[t].len \in Nat /\ call[t].got \in Nat
  BY <1>2
<1>4. OffsetsAfter(hostIndex, physical_offsets, call[t].off, call[t].got, PidOf[t]) \in [Pid -> Nat]
  BY <1>1, <1>2, <1>3, OffsetsAfterType
<1>5. IsIndex(Pid, IndexAfter(hostIndex, physical_offsets, next_slot + 1, call[t].off, call[t].got, PidOf[t]),
                   SlotAfter(hostIndex, next_slot, call[t].off, PidOf[t]))
  BY <1>1, <1>3, IndexAfterType
<1>6. MaxOf(last_offset, call[t].off + call[t].len) \in Nat
  BY <1>3 DEF TypeOK, FileOK, MaxOf
<1>7. Written(PidOf[t], call[t].off, call[t].got) \subseteq Byte
  BY <1>1, <1>3 DEF Written
<1> QED
  BY <1>1, <1>3, <1>4, <1>5, <1>6, <1>7

LEMMA TypeInit == Init => TypeOK
<1> SUFFICES ASSUME Init PROVE TypeOK
  OBVIOUS
<1>1. IsIndex(Pid, hostIndex, next_slot)
  BY EmptyIndex DEF Init
<1>2. data \in [Pid -> Seq(Nat)]
  BY DEF Init
<1>3. HandleOK
  BY DEF Init, HandleOK
<1>4. IndexOK /\ FileOK
  BY <1>1, <1>2 DEF Init, IndexOK, FileOK
<1>5. CallsOK /\ HistoryOK
  BY DEF Init, CallsOK, HistoryOK, NoCall, Where
<1> QED
  BY <1>3, <1>4, <1>5 DEF TypeOK

(* Each part of the type invariant survives a step that leaves it alone.    *)
LEMMA TypeFrame ==
  ASSUME TypeOK
  PROVE  /\ UNCHANGED handle => HandleOK'
         /\ UNCHANGED index => IndexOK'
         /\ UNCHANGED <<data, last_offset, index_mux>> => FileOK'
         /\ UNCHANGED <<pc, call, bounds>> => CallsOK'
         /\ UNCHANGED history => HistoryOK'
<1>1. HandleOK /\ IndexOK /\ FileOK /\ CallsOK /\ HistoryOK
  BY DEF TypeOK
<1>2. UNCHANGED handle => HandleOK'
  BY <1>1 DEF handle, HandleOK
<1>3. UNCHANGED index => IndexOK'
  BY <1>1 DEF index, IndexOK
<1>4. UNCHANGED <<data, last_offset, index_mux>> => FileOK'
  BY <1>1 DEF FileOK
<1>5. UNCHANGED <<pc, call, bounds>> => CallsOK'
  BY <1>1 DEF bounds, CallsOK
<1>6. UNCHANGED history => HistoryOK'
  BY <1>1 DEF history, HistoryOK
<1> QED
  BY <1>2, <1>3, <1>4, <1>5, <1>6

(* flush, given the index it is applied to.                                 *)
LEMMA FlushType ==
  ASSUME TypeOK, NEW h, NEW slot, IsIndex(Pid, h, slot),
         \E ok \in FlushOutcomes : Flush(h, ok)
  PROVE  /\ physical_offsets' \in [Pid -> Nat] => IndexOK'
         /\ flush_failed' \in BOOLEAN
<1>1. PICK ok \in FlushOutcomes : Flush(h, ok)
  OBVIOUS
<1>2. ok \in BOOLEAN
  BY DEF FlushOutcomes
<1> QED
  BY <1>1, <1>2, Flushed DEF IndexOK

-----------------------------------------------------------------------------
(* Opens and descriptors.  TypeOK alone is not inductive: that a descriptor *)
(* count never goes below zero needs that it covers the opens counted in it *)
OpensBy(p) == {o \in opens : PidOf[o[1]] = p}

OpensCounted ==
  /\ IsFiniteSet(opens)
  /\ reference_count = Cardinality(opens)
  /\ \A p \in Pid : Cardinality(OpensBy(p)) <= fds[p]

(* A close takes one open out, and with it one count of its own process.    *)
LEMMA CloseOne ==
  ASSUME TypeOK, OpensCounted, NEW t \in Thread, NEW o \in OpensOf(t), opens' = opens \ {o}
  PROVE  /\ IsFiniteSet(opens')
         /\ Cardinality(opens') = reference_count - 1
         /\ fds[PidOf[t]] >= 1
         /\ \A p \in Pid : Cardinality(OpensBy(p)') <= fds[p] - (IF p = PidOf[t] THEN 1 ELSE 0)
<1>1. o \in opens /\ o[1] = t /\ PidOf[t] \in Pid
  BY PidOfThread DEF OpensOf
<1>2. IsFiniteSet(opens') /\ Cardinality(opens') = reference_count - 1
  BY <1>1, FS_RemoveElement DEF OpensCounted
<1>3. fds \in [Pid -> Nat]
  BY DEF TypeOK, HandleOK
<1>4. ASSUME NEW p \in Pid
      PROVE  /\ IsFiniteSet(OpensBy(p)) /\ Cardinality(OpensBy(p)) \in Nat
             /\ OpensBy(p)' = OpensBy(p) \ {o}
             /\ Cardinality(OpensBy(p)') <= fds[p] - (IF p = PidOf[t] THEN 1 ELSE 0)
             /\ p = PidOf[t] => fds[p] >= 1
  <2>1. IsFiniteSet(OpensBy(p)) /\ Cardinality(OpensBy(p)) \in Nat
    <3>1. OpensBy(p) \subseteq opens
      BY DEF OpensBy
    <3> QED BY <3>1, FS_Subset, FS_CardinalityType DEF OpensCounted
  <2>2. OpensBy(p)' = OpensBy(p) \ {o}
    BY DEF OpensBy
  <2>3. Cardinality(OpensBy(p)') = IF o \in OpensBy(p) THEN Cardinality(OpensBy(p)) - 1
                                                     ELSE Cardinality(OpensBy(p))
    BY <2>1, <2>2, FS_RemoveElement
  <2>4. o \in OpensBy(p) <=> p = PidOf[t]
    BY <1>1 DEF OpensBy
  <2>5. Cardinality(OpensBy(p)) <= fds[p]
    BY DEF OpensCounted
  <2>6. o \in OpensBy(p) => Cardinality(OpensBy(p)) # 0
    BY <2>1, FS_EmptySet
  <2> QED BY <1>3, <2>1, <2>2, <2>3, <2>4, <2>5, <2>6
<1> QED
  BY <1>1, <1>2, <1>4

LEMMA CountedInit == Init => OpensCounted
<1> SUFFICES ASSUME Init PROVE OpensCounted
  OBVIOUS
<1>1. opens = {} /\ \A p \in Pid : OpensBy(p) = {} /\ fds[p] = 0
  BY DEF Init, OpensBy
<1>2. reference_count = 0
  BY DEF Init
<1>3. \A p \in Pid : Cardinality(OpensBy(p)) <= fds[p]
  BY <1>1, FS_EmptySet
<1> QED
  BY <1>1, <1>2, <1>3, FS_EmptySet DEF OpensCounted

LEMMA CountedStep ==
  ASSUME TypeOK, OpensCounted, [Next]_vars
  PROVE  HandleOK' /\ OpensCounted'
<1>0. HandleOK
  BY DEF TypeOK
<1>1. ASSUME NEW t \in Thread, AddWriter(t) PROVE HandleOK' /\ OpensCounted'
  <2>1. PICK k \in 1..MaxOpens : <<t, k>> \notin opens /\ opens' = opens \cup {<<t, k>>}
    BY <1>1 DEF AddWriter
  <2>2. HandleOK'
    <3>1. opens' \subseteq Thread \X (1..MaxOpens)
      BY <1>0, <2>1 DEF HandleOK
    <3>2. fds' \in [Pid -> Nat] /\ reference_count' \in Nat
      BY <1>0, <1>1, PidOfThread DEF AddWriter, HandleOK
    <3> QED BY <3>1, <3>2 DEF HandleOK
  <2>3. IsFiniteSet(opens') /\ Cardinality(opens') = reference_count + 1
    BY <2>1, FS_AddElement DEF OpensCounted
  <2>4. ASSUME NEW p \in Pid PROVE Cardinality(OpensBy(p)') <= fds'[p]
    <3>1. IsFiniteSet(OpensBy(p))
      <4>1. OpensBy(p) \subseteq opens
        BY DEF OpensBy
      <4> QED BY <4>1, FS_Subset DEF OpensCounted
    <3>2. CASE p = PidOf[t]
      <4>1. OpensBy(p)' = OpensBy(p) \cup {<<t, k>>} /\ <<t, k>> \notin OpensBy(p)
        BY <2>1, <3>2 DEF OpensBy
      <4>2. Cardinality(OpensBy(p)') = Cardinality(OpensBy(p)) + 1
        BY <3>1, <4>1, FS_AddElement
      <4>3. fds'[p] = fds[p] + 1
        BY <1>0, <1>1, <3>2 DEF AddWriter, HandleOK
      <4> QED BY <1>0, <3>1, <4>2, <4>3, FS_CardinalityType DEF OpensCounted, HandleOK
    <3>3. CASE p # PidOf[t]
      <4>1. OpensBy(p)' = OpensBy(p)
        BY <2>1, <3>3 DEF OpensBy
      <4>2. fds'[p] = fds[p]
        BY <1>0, <1>1, <3>3 DEF AddWriter, HandleOK
      <4> QED BY <4>1, <4>2 DEF OpensCounted
    <3> QED BY <3>2, <3>3
  <2> QED BY <1>1, <2>2, <2>3, <2>4 DEF AddWriter, OpensCounted
<1>2. ASSUME NEW t \in Thread, RemoveWriter(t) PROVE HandleOK' /\ OpensCounted'
  <2>1. PICK o \in OpensOf(t) : opens' = opens \ {o}
    BY <1>2 DEF RemoveWriter
  <2>2. HandleOK'
    <3>1. opens' \subseteq Thread \X (1..MaxOpens)
      BY <1>0, <2>1 DEF HandleOK
    <3>2. fds[PidOf[t]] >= 1
      BY <2>1, CloseOne
    <3>3. fds' \in [Pid -> Nat] /\ reference_count' \in Nat
      BY <1>0, <1>2, <3>2, PidOfThread DEF RemoveWriter, HandleOK
    <3> QED BY <3>1, <3>3 DEF HandleOK
  <2>3. \A p \in Pid : Cardinality(OpensBy(p)') <= fds'[p]
    BY <1>0, <1>2, <2>1, CloseOne DEF RemoveWriter, HandleOK
  <2> QED BY <1>2, <2>1, <2>2, <2>3, CloseOne DEF RemoveWriter, OpensCounted
<1>3. ASSUME NEW t \in Thread, LastClose(t) PROVE HandleOK' /\ OpensCounted'
  <2>1. PICK o \in OpensOf(t) : opens' = opens \ {o}
    BY <1>3 DEF LastClose
  <2>2. IsFiniteSet(opens') /\ Cardinality(opens') = 0
    BY <1>3, <2>1, CloseOne DEF LastClose
  <2>3. opens' = {} /\ \A p \in Pid : OpensBy(p)' = {}
    BY <2>2, FS_EmptySet DEF OpensBy
  <2>4. fds' = [p \in Pid |-> 0] /\ reference_count' = 0
    BY <1>3 DEF LastClose
  <2>5. HandleOK'
    BY <2>3, <2>4 DEF HandleOK
  <2>6. \A p \in Pid : Cardinality(OpensBy(p)') <= fds'[p]
    BY <2>3, <2>4, FS_EmptySet
  <2> QED BY <2>2, <2>4, <2>5, <2>6 DEF OpensCounted
<1>4. ASSUME NEW t \in Thread, BeginWrite(t) PROVE HandleOK' /\ OpensCounted'
  <2>1. HandleOK' /\ \A p \in Pid : fds[p] <= fds'[p]
    BY <1>0, <1>4, PidOfThread DEF BeginWrite, HandleOK
  <2>2. \A p \in Pid : OpensBy(p)' = OpensBy(p) /\ Cardinality(OpensBy(p)) \in Nat
    <3>1. \A p \in Pid : OpensBy(p) \subseteq opens
      BY DEF OpensBy
    <3>2. \A p \in Pid : OpensBy(p)' = OpensBy(p)
      BY <1>4 DEF BeginWrite, OpensBy
    <3> QED BY <3>1, <3>2, FS_Subset, FS_CardinalityType DEF OpensCounted
  <2>3. \A p \in Pid : Cardinality(OpensBy(p)') <= fds'[p]
    BY <1>0, <2>1, <2>2 DEF OpensCounted, HandleOK
  <2> QED BY <1>4, <2>1, <2>3 DEF BeginWrite, OpensCounted
<1>5. CASE UNCHANGED handle
  BY <1>0, <1>5 DEF handle, HandleOK, OpensCounted, OpensBy
<1>6. ASSUME NEW t \in Thread, Write(t) \/ Sync(t) \/ TruncContainer(t) \/ Truncate(t)
      PROVE  UNCHANGED handle
  BY <1>6 DEF Write, AppendData, AppendFails, RecordWrite, RecordAndFlush, Sync,
     TruncContainer, Truncate, TruncHandle, RestoreFds, RestoreFdsFails
<1>7. TruncByPath \/ UNCHANGED vars => UNCHANGED handle
  BY DEF TruncByPath, vars
<1> QED
  BY <1>1, <1>2, <1>3, <1>4, <1>5, <1>6, <1>7 DEF Next


LEMMA TypeStep ==
  ASSUME TypeOK, OpensCounted, [Next]_vars
  PROVE  TypeOK'
<1>0. HandleOK /\ IndexOK /\ FileOK /\ CallsOK /\ HistoryOK /\ HandleOK'
  BY CountedStep DEF TypeOK
<1>1. ASSUME NEW t \in Thread, AddWriter(t) PROVE TypeOK'
  BY <1>0, <1>1, TypeFrame DEF AddWriter, TypeOK
<1>2. ASSUME NEW t \in Thread, RemoveWriter(t) PROVE TypeOK'
  BY <1>0, <1>2, TypeFrame DEF RemoveWriter, TypeOK
<1>3. ASSUME NEW t \in Thread, LastClose(t) PROVE TypeOK'
  <2>2. IndexOK' /\ flush_failed' \in BOOLEAN
    BY <1>0, <1>3, FlushType DEF LastClose, IndexOK
  <2>3. HistoryOK'
    BY <1>0, <1>3, <2>2 DEF LastClose, HistoryOK
  <2> QED BY <1>0, <1>3, <2>2, <2>3, TypeFrame DEF LastClose, TypeOK
<1>4. ASSUME NEW t \in Thread, BeginWrite(t) PROVE TypeOK'
  <2>2. PICK off \in Offsets, n \in Sizes : call' = [call EXCEPT ![t] = [off |-> off, len |-> n, got |-> 0]]
    BY <1>4 DEF BeginWrite
  <2>3. [off |-> off, len |-> n, got |-> 0] \in [off : Nat, len : Nat, got : Nat]
    BY RangeAssumption
  <2>4. CallsOK'
    BY <1>0, <1>4, <2>2, <2>3, MoveType DEF BeginWrite, CallsOK, Where
  <2> QED BY <1>0, <1>4, <2>4, TypeFrame DEF BeginWrite, TypeOK
<1>5. ASSUME NEW t \in Thread, AppendData(t) PROVE TypeOK'
  <2>1. PICK n \in 1..call[t].len :
          /\ data' = [data EXCEPT ![PidOf[t]] = @ \o Bytes(call[t].off, n)]
          /\ call' = [call EXCEPT ![t].got = n]
    BY <1>5 DEF AppendData
  <2>2. n \in Nat /\ call[t].off \in Nat /\ PidOf[t] \in Pid
    BY <1>0, RecordType
  <2>3. data[PidOf[t]] \o Bytes(call[t].off, n) \in Seq(Nat)
    BY <1>0, <2>2, AppendedBytes DEF FileOK
  <2>4. FileOK'
    BY <1>0, <1>5, <2>1, <2>3 DEF AppendData, FileOK
  <2>5. CallsOK'
    BY <1>0, <1>5, <2>1, <2>2, MoveType DEF AppendData, CallsOK, bounds, Where
  <2> QED BY <1>5, <2>4, <2>5, TypeFrame DEF AppendData, TypeOK
<1>6. ASSUME NEW t \in Thread, AppendFails(t) PROVE TypeOK'
  <2>1. CallsOK'
    BY <1>0, <1>6, MoveType DEF AppendFails, CallsOK, bounds
  <2> QED BY <1>6, <2>1, TypeFrame DEF AppendFails, TypeOK
<1>7. ASSUME NEW t \in Thread, RecordWrite(t) PROVE TypeOK'
  <2>1. CallsOK'
    BY <1>0, <1>7, MoveType DEF RecordWrite, CallsOK, bounds
  <2>2. IndexOK'
    BY <1>0, <1>7, RecordType DEF RecordWrite, IndexOK
  <2>3. FileOK'
    BY <1>0, <1>7, RecordType DEF RecordWrite, FileOK
  <2>4. HistoryOK'
    BY <1>0, <1>7, RecordType DEF RecordWrite, HistoryOK
  <2> QED BY <1>7, <2>1, <2>2, <2>3, <2>4, TypeFrame DEF RecordWrite, TypeOK
<1>8. ASSUME NEW t \in Thread, RecordAndFlush(t) PROVE TypeOK'
  <2> DEFINE p == PidOf[t]
             c == call[t]
             h == IndexAfter(hostIndex, physical_offsets, next_slot + 1, c.off, c.got, p)
  <2>1. PICK ok \in FlushOutcomes :
          /\ Flush(h, ok)
          /\ physical_offsets' = OffsetsAfter(hostIndex, physical_offsets, c.off, c.got, p)
          /\ merged' = IF Continued(hostIndex, c.off, p) THEN merged \cup {p} ELSE merged
          /\ last_offset' = IF ok THEN MaxOf(last_offset, c.off + c.len) ELSE last_offset
          /\ acked' = IF ok THEN acked \cup Written(p, c.off, c.got) ELSE acked
    BY <1>8 DEF RecordAndFlush
  <2>2. IsIndex(Pid, h, SlotAfter(hostIndex, next_slot, c.off, p)) /\ physical_offsets' \in [Pid -> Nat]
    BY <2>1, RecordType
  <2>3. IndexOK' /\ flush_failed' \in BOOLEAN
    BY <2>1, <2>2, FlushType
  <2>4. CallsOK'
    BY <1>0, <1>8, MoveType DEF RecordAndFlush, CallsOK, bounds
  <2>5. FileOK'
    BY <1>0, <1>8, <2>1, RecordType DEF RecordAndFlush, FileOK
  <2>6. HistoryOK'
    BY <1>0, <1>8, <2>1, <2>3, RecordType DEF RecordAndFlush, HistoryOK
  <2> QED BY <1>8, <2>3, <2>4, <2>5, <2>6, TypeFrame DEF RecordAndFlush, TypeOK
<1>9. ASSUME NEW t \in Thread, Sync(t) PROVE TypeOK'
  <2>1. IndexOK' /\ flush_failed' \in BOOLEAN
    BY <1>0, <1>9, FlushType DEF Sync, IndexOK
  <2>2. HistoryOK'
    BY <1>0, <1>9, <2>1 DEF Sync, HistoryOK
  <2> QED BY <1>9, <2>1, <2>2, TypeFrame DEF Sync, TypeOK
<1>10. EmptyDroppings => IndexOK' /\ HistoryOK' /\ data' \in [Pid -> Seq(Nat)]
  BY <1>0 DEF EmptyDroppings, IndexOK, HistoryOK
<1>11. ASSUME NEW offset \in Nat, ExtendTo(offset)
       PROVE  IndexOK' /\ HistoryOK' /\ last_offset' \in Nat
  <2>1. PICK p \in Pid :
          /\ hostIndex' = IndexAfter(hostIndex, physical_offsets, next_slot + 1, offset, 0, p)
          /\ next_slot' = SlotAfter(hostIndex, next_slot, offset, p)
          /\ merged' = IF Continued(hostIndex, offset, p) THEN merged \cup {p} ELSE merged
    BY <1>11 DEF ExtendTo
  <2>2. IndexOK'
    BY <1>0, <1>11, <2>1, IndexAfterType DEF ExtendTo, IndexOK
  <2> QED BY <1>0, <1>11, <2>1, <2>2 DEF ExtendTo, HistoryOK, FileOK, MaxOf
<1>12. ASSUME NEW t \in Thread, TruncContainer(t) PROVE TypeOK'
  <2>1. PICK offset \in TruncOffsets :
          /\ call' = [call EXCEPT ![t] = [off |-> offset, len |-> 0, got |-> 0]]
          /\ \/ offset = 0 /\ EmptyDroppings
             \/ offset > last_offset /\ ExtendTo(offset)
             \/ offset \in 1..last_offset /\ UNCHANGED <<index, data, last_offset, history>>
    BY <1>12 DEF TruncContainer
  <2>2. offset \in Nat
    BY RangeAssumption
  <2>3. [off |-> offset, len |-> 0, got |-> 0] \in [off : Nat, len : Nat, got : Nat]
    BY <2>2
  <2>4. CallsOK'
    BY <1>0, <1>12, <2>1, <2>3, MoveType DEF TruncContainer, CallsOK, Where
  <2>5. IndexOK' /\ HistoryOK' /\ data' \in [Pid -> Seq(Nat)] /\ last_offset' \in Nat
    <3>1. CASE EmptyDroppings
      BY <1>0, <1>10, <3>1 DEF EmptyDroppings, FileOK
    <3>2. CASE ExtendTo(offset)
      BY <1>0, <1>11, <2>2, <3>2 DEF ExtendTo, FileOK
    <3>3. CASE UNCHANGED <<index, data, last_offset, history>>
      BY <1>0, <3>3, TypeFrame DEF FileOK
    <3> QED BY <2>1, <3>1, <3>2, <3>3
  <2>6. FileOK'
    BY <1>0, <1>12, <2>5 DEF TruncContainer, FileOK
  <2> QED BY <1>12, <2>4, <2>5, <2>6, TypeFrame DEF TruncContainer, TypeOK
<1>13. ASSUME NEW t \in Thread, TruncHandle(t) PROVE TypeOK'
  <2>1. call[t].off \in Nat
    BY RecordType
  <2>2. IndexOK'
    BY <1>0, <1>13, <2>1, CutIndex DEF TruncHandle, IndexOK
  <2>3. FileOK' /\ HistoryOK'
    BY <1>0, <1>13, <2>1 DEF TruncHandle, FileOK, HistoryOK
  <2>4. CallsOK'
    BY <1>0, <1>13, MoveType DEF TruncHandle, CallsOK, bounds, Where
  <2> QED BY <1>13, <2>2, <2>3, <2>4, TypeFrame DEF TruncHandle, TypeOK
<1>14. ASSUME NEW t \in Thread, RestoreFds(t) \/ RestoreFdsFails(t) PROVE TypeOK'
  <2>1. IndexOK' /\ flush_failed' \in BOOLEAN
    BY <1>0, <1>14, FlushType DEF RestoreFds, RestoreFdsFails, IndexOK
  <2>2. HistoryOK'
    BY <1>0, <1>14, <2>1 DEF RestoreFds, RestoreFdsFails, HistoryOK
  <2>3. FileOK'
    BY <1>0, <1>14 DEF RestoreFds, RestoreFdsFails, FileOK
  <2>4. CallsOK'
    BY <1>0, <1>14, MoveType DEF RestoreFds, RestoreFdsFails, CallsOK, bounds
  <2> QED BY <1>14, <2>1, <2>2, <2>3, <2>4, TypeFrame DEF RestoreFds, RestoreFdsFails, TypeOK
<1>15. CASE TruncByPath
  <2>1. IndexOK' /\ HistoryOK' /\ data' \in [Pid -> Seq(Nat)]
    BY <1>10, <1>15 DEF TruncByPath
  <2>2. FileOK' /\ CallsOK'
    BY <1>0, <1>15, <2>1 DEF TruncByPath, EmptyDroppings, FileOK, CallsOK
  <2> QED BY <1>15, <2>1, <2>2, TypeFrame DEF TruncByPath, TypeOK
<1>16. CASE UNCHANGED vars
  BY <1>16, TypeFrame DEF vars, TypeOK, bounds
<1> QED
  BY <1>1, <1>2, <1>3, <1>4, <1>5, <1>6, <1>7, <1>8, <1>9, <1>12, <1>13, <1>14,
     <1>15, <1>16 DEF Next, Write, Truncate

(* TypeOK holds in every reachable state: in particular no close ever takes *)
(* a descriptor count below zero, in whatever order threads that share the  *)
(* handle open, write as a child and close (WriteFile.cpp, addWriter and    *)
(* removeWriter).                                                           *)
THEOREM TypeCorrect == Spec => [](TypeOK /\ OpensCounted)
<1>1. Init => TypeOK /\ OpensCounted
  BY TypeInit, CountedInit
<1>2. TypeOK /\ OpensCounted /\ [Next]_vars => (TypeOK /\ OpensCounted)'
  BY TypeStep, CountedStep
<1> QED
  BY <1>1, <1>2, PTL DEF Spec

-----------------------------------------------------------------------------
(* Where the records point.  A process is clean while no write of it was    *)
(* merged and its dropping was not truncated under it.                      *)
Clean(p) == p \notin merged \cup zeroed

Appended(t) == pc[t] = "appended"

(* A clean process's records lie below its next physical offset, on the     *)
(* bytes they were made for ...                                             *)
RecordsPlaced ==
  \A e \in Records : Clean(e.id) =>
    PointsAtItsBytes(e) /\ e.phy + e.len <= physical_offsets[e.id]

(* ... the bytes of its write in flight are the ones its next record will   *)
(* point at ...                                                             *)
InFlightPlaced ==
  \A t \in Thread : Appended(t) /\ Clean(PidOf[t]) =>
    LET p == PidOf[t] IN
    /\ physical_offsets[p] + call[t].got = Len(data[p])
    /\ \A i \in 0..(call[t].got - 1) : data[p][physical_offsets[p] + i + 1] = call[t].off + i

(* ... and with no write in flight the next physical offset is the end of   *)
(* its dropping.                                                            *)
SettledAtEnd ==
  \A p \in Pid : Clean(p) /\ (\A t \in Thread : PidOf[t] = p => ~Appended(t)) =>
    physical_offsets[p] = Len(data[p])

PlacementInv == RecordsPlaced /\ InFlightPlaced /\ SettledAtEnd

(* What is left of it after merged writes: records and the next physical    *)
(* offset leave room for the write in flight.                               *)
Below(p, n) ==
  /\ physical_offsets[p] + n <= Len(data[p])
  /\ \A e \in Records : e.id = p => e.phy + e.len + n <= Len(data[p])

RoomInv ==
  /\ \A p \in Pid : p \notin zeroed => Below(p, 0)
  /\ \A t \in Thread : Appended(t) /\ PidOf[t] \notin zeroed => Below(PidOf[t], call[t].got)

(* A write never gets more bytes than it asked for.                         *)
GotAtMostLen == \A t \in Thread : Appended(t) => call[t].got <= call[t].len

(* Coverage: what a handle says it wrote it can find again.                 *)
HistoryInv == NoWriteForgotten /\ SyncedIsDurable /\ SizeCoversWrites /\ GotAtMostLen

(* The facts about records and droppings the proofs below reason with.      *)
LEMMA StateTypes ==
  ASSUME TypeOK
  PROVE  /\ \A e \in Records : e \in Entry(Pid)
         /\ \A p \in Pid : data[p] \in Seq(Nat) /\ Len(data[p]) \in Nat /\ physical_offsets[p] \in Nat
         /\ \A t \in Thread : /\ PidOf[t] \in Pid
                              /\ call[t].off \in Nat /\ call[t].len \in Nat /\ call[t].got \in Nat
<1>1. \A e \in Records : e \in Entry(Pid)
  BY DEF TypeOK, IndexOK, IsIndex, Records
<1>2. \A p \in Pid : data[p] \in Seq(Nat) /\ physical_offsets[p] \in Nat
  BY DEF TypeOK, FileOK, IndexOK
<1>3. \A p \in Pid : Len(data[p]) \in Nat
  BY <1>2, LenProperties
<1> QED
  BY <1>1, <1>2, <1>3, PidOfThread DEF TypeOK, CallsOK

LEMMA PlacementInit == Init => PlacementInv /\ RoomInv
<1> SUFFICES ASSUME Init PROVE PlacementInv /\ RoomInv
  OBVIOUS
<1>1. Records = {}
  BY DEF Init, Records, Entries, NoEntries
<1>2. \A t \in Thread : ~Appended(t)
  BY DEF Init, Appended
<1>3. \A p \in Pid : physical_offsets[p] = 0 /\ Len(data[p]) = 0
  BY DEF Init
<1> QED
  BY <1>1, <1>2, <1>3 DEF PlacementInv, RecordsPlaced, InFlightPlaced, SettledAtEnd, RoomInv, Below

(* A step that appends and records nothing, and loses or shortens records,  *)
(* keeps the placement.                                                     *)
Shortened(g, e) == /\ g \in Entry(Pid)
                   /\ g.id = e.id /\ g.log = e.log /\ g.phy = e.phy /\ g.len <= e.len

SameInFlight == \A t \in Thread : (Appended(t)' <=> Appended(t)) /\ (Appended(t) => call'[t] = call[t])

LEMMA PlacementFrame ==
  ASSUME TypeOK, PlacementInv, RoomInv, UNCHANGED <<data, physical_offsets>>,
         merged \subseteq merged', zeroed \subseteq zeroed', SameInFlight,
         \A g \in Records' : \E e \in Records : Shortened(g, e)
  PROVE  PlacementInv' /\ RoomInv'
<1>1. \A p : Clean(p)' => Clean(p)
  BY DEF Clean
<1>2. RecordsPlaced'
  <2> SUFFICES ASSUME NEW g \in Records', Clean(g.id)'
               PROVE  PointsAtItsBytes(g)' /\ g.phy + g.len <= physical_offsets[g.id]
    BY DEF RecordsPlaced
  <2>1. PICK e \in Records : Shortened(g, e)
    OBVIOUS
  <2>2. /\ e.phy + e.len <= Len(data[e.id]) /\ e.phy + e.len <= physical_offsets[e.id]
        /\ \A i \in 0..(e.len - 1) : data[e.id][e.phy + i + 1] = e.log + i
    BY <1>1, <2>1 DEF Shortened, PlacementInv, RecordsPlaced, PointsAtItsBytes
  <2>3. /\ e.id \in Pid /\ e.phy \in Nat /\ e.len \in Nat /\ g.len \in Nat /\ g.len <= e.len
        /\ g.id = e.id /\ g.log = e.log /\ g.phy = e.phy
    BY <2>1, StateTypes DEF Shortened
  <2>4. Len(data[e.id]) \in Nat /\ physical_offsets[e.id] \in Nat
    BY <2>3, StateTypes
  <2>5. /\ g.phy + g.len <= Len(data[g.id]) /\ g.phy + g.len <= physical_offsets[g.id]
        /\ \A i \in 0..(g.len - 1) : i \in 0..(e.len - 1)
    <3>1. PICK x, l, m, d, o \in Nat :
            x = e.phy /\ l = e.len /\ m = g.len /\ d = Len(data[e.id]) /\ o = physical_offsets[e.id]
      BY <2>3, <2>4
    <3>2. x + l <= d /\ x + l <= o /\ m <= l
      BY <2>2, <2>3, <3>1
    <3>3. x + m <= d /\ x + m <= o /\ \A i \in 0..(m - 1) : i \in 0..(l - 1)
      BY <3>2
    <3> QED BY <2>3, <3>1, <3>3
  <2>6. \A i \in 0..(g.len - 1) : data[g.id][g.phy + i + 1] = g.log + i
    BY <2>2, <2>3, <2>5
  <2> QED BY <2>5, <2>6 DEF PointsAtItsBytes
<1>3. InFlightPlaced'
  BY <1>1 DEF PlacementInv, InFlightPlaced, SameInFlight
<1>4. SettledAtEnd'
  BY <1>1 DEF PlacementInv, SettledAtEnd, SameInFlight
<1>5. ASSUME NEW p \in Pid, NEW n \in Nat, Below(p, n) PROVE Below(p, n)'
  <2>1. ASSUME NEW g \in Records', g.id = p PROVE g.phy + g.len + n <= Len(data[p])
    <3>1. PICK e \in Records : Shortened(g, e)
      OBVIOUS
    <3>2. e.id = p /\ e.phy + e.len + n <= Len(data[p])
      BY <1>5, <2>1, <3>1 DEF Shortened, Below
    <3>3. e.phy \in Nat /\ e.len \in Nat /\ g.len \in Nat /\ g.len <= e.len /\ g.phy = e.phy
      BY <3>1, StateTypes DEF Shortened
    <3>4. Len(data[p]) \in Nat
      BY StateTypes
    <3> QED BY <3>2, <3>3, <3>4
  <2> QED BY <1>5, <2>1 DEF Below
<1>6. RoomInv'
  <2>1. \A p \in Pid : p \notin zeroed' => Below(p, 0)'
    BY <1>5 DEF RoomInv
  <2>2. ASSUME NEW t \in Thread, Appended(t)', PidOf[t] \notin zeroed'
        PROVE  Below(PidOf[t], call[t].got)'
    <3>1. call'[t] = call[t] /\ Below(PidOf[t], call[t].got)
      BY <2>2 DEF RoomInv, SameInFlight
    <3>2. PidOf[t] \in Pid /\ call[t].got \in Nat
      BY StateTypes
    <3>3. \A n \in Nat : Below(PidOf[t], n) => Below(PidOf[t], n)'
      BY <1>5, <3>2
    <3> QED BY <3>1, <3>2, <3>3 DEF Below
  <2> QED BY <2>1, <2>2 DEF RoomInv
<1> QED
  BY <1>2, <1>3, <1>4, <1>6 DEF PlacementInv

(* A truncate to zero under open writers: whoever had data or a non-zero    *)
(* next offset is no longer clean, and there is nothing to say of the rest. *)
LEMMA PlacementEmptied ==
  ASSUME TypeOK, PlacementInv, RoomInv, EmptyDroppings, SameInFlight
  PROVE  PlacementInv' /\ RoomInv'
<1>1. /\ \A p : Clean(p)' => Clean(p)
      /\ \A p \in Pid : p \notin zeroed' => /\ p \notin zeroed /\ physical_offsets[p] = 0
                                            /\ Len(data[p]) = 0 /\ data'[p] = << >>
  BY StateTypes DEF Clean, EmptyDroppings
<1>2. physical_offsets' = physical_offsets /\ Records' \subseteq Records
  BY DEF EmptyDroppings, Records
<1>3. ASSUME NEW p \in Pid, p \notin zeroed', NEW n \in Nat, Below(p, n) PROVE Below(p, n)' /\ n = 0
  <2>1. n = 0
    BY <1>1, <1>3 DEF Below
  <2>2. Len(data'[p]) = 0
    BY <1>1, <1>3
  <2> QED BY <1>1, <1>2, <1>3, <2>1, <2>2 DEF Below
<1>4. RoomInv'
  <2>1. \A p \in Pid : p \notin zeroed' => Below(p, 0)'
    BY <1>1, <1>3 DEF RoomInv
  <2>2. ASSUME NEW t \in Thread, Appended(t)', PidOf[t] \notin zeroed'
        PROVE  Below(PidOf[t], call[t].got)'
    <3>1. PidOf[t] \in Pid /\ call[t].got \in Nat /\ call'[t] = call[t]
      BY <2>2, StateTypes DEF SameInFlight
    <3>2. Below(PidOf[t], call[t].got)
      BY <1>1, <2>2, <3>1 DEF RoomInv, SameInFlight
    <3>3. \A n \in Nat : Below(PidOf[t], n) => Below(PidOf[t], n)'
      BY <1>3, <2>2, <3>1
    <3> QED BY <3>1, <3>2, <3>3 DEF Below
  <2> QED BY <2>1, <2>2 DEF RoomInv
<1>5. ASSUME NEW e \in Records', Clean(e.id)'
      PROVE  e.len = 0 /\ e.phy = 0 /\ PointsAtItsBytes(e)' /\ e.phy + e.len <= physical_offsets'[e.id]
  <2>1. e \in Records /\ e.id \in Pid /\ e.phy \in Nat /\ e.len \in Nat /\ e.id \notin zeroed'
    BY <1>2, <1>5, StateTypes DEF Clean
  <2>2. e.phy + e.len <= 0
    BY <1>1, <1>2, <1>5, <2>1 DEF PlacementInv, RecordsPlaced
  <2>3. e.phy = 0 /\ e.len = 0
    BY <2>1, <2>2
  <2>4. Len(data'[e.id]) = 0 /\ physical_offsets'[e.id] = 0
    BY <1>1, <1>2, <2>1
  <2> QED BY <2>3, <2>4 DEF PointsAtItsBytes
<1>6. ASSUME NEW t \in Thread, Appended(t)', Clean(PidOf[t])'
      PROVE  call'[t].got = 0
  <2>1. PidOf[t] \in Pid /\ PidOf[t] \notin zeroed' /\ call[t].got \in Nat /\ call'[t] = call[t]
    BY <1>6, StateTypes DEF SameInFlight, Clean
  <2>2. Below(PidOf[t], call[t].got)
    BY <1>1, <1>6, <2>1 DEF RoomInv, SameInFlight
  <2> QED BY <1>3, <2>1, <2>2
<1>7. InFlightPlaced'
  <2> SUFFICES ASSUME NEW t \in Thread, Appended(t)', Clean(PidOf[t])'
               PROVE  /\ physical_offsets'[PidOf[t]] + call'[t].got = Len(data'[PidOf[t]])
                      /\ \A i \in 0..(call'[t].got - 1) :
                           data'[PidOf[t]][physical_offsets'[PidOf[t]] + i + 1] = call'[t].off + i
    BY DEF InFlightPlaced
  <2>1. PidOf[t] \in Pid /\ PidOf[t] \notin zeroed' /\ call'[t].got = 0
    BY <1>6, StateTypes DEF Clean
  <2>2. physical_offsets'[PidOf[t]] = 0 /\ Len(data'[PidOf[t]]) = 0
    BY <1>1, <1>2, <2>1
  <2> QED BY <2>1, <2>2
<1>8. SettledAtEnd'
  BY <1>1, <1>2 DEF SettledAtEnd, Clean
<1> QED
  BY <1>4, <1>5, <1>7, <1>8 DEF PlacementInv, RecordsPlaced

(* The append of a write: its process had nothing in flight, so a clean     *)
(* process's next physical offset was the end of its dropping.              *)
LEMMA PlacementAppend ==
  ASSUME TypeOK, UniquePids, PlacementInv, RoomInv, NEW t \in Thread, AppendData(t)
  PROVE  PlacementInv' /\ RoomInv'
<1> DEFINE p == PidOf[t]
<1>1. PICK n \in 1..call[t].len :
        /\ data' = [data EXCEPT ![p] = @ \o Bytes(call[t].off, n)]
        /\ call' = [call EXCEPT ![t].got = n]
  BY DEF AppendData
<1>2. p \in Pid /\ n \in Nat /\ call[t].off \in Nat /\ data[p] \in Seq(Nat) /\ Len(data[p]) \in Nat
  BY StateTypes
<1>3. /\ Len(data'[p]) = Len(data[p]) + n
      /\ \A i \in 1..Len(data[p]) : data'[p][i] = data[p][i]
      /\ \A i \in 1..n : data'[p][Len(data[p]) + i] = call[t].off + i - 1
      /\ \A q \in Pid \ {p} : data'[q] = data[q]
  <2>1. data'[p] = data[p] \o Bytes(call[t].off, n) /\ \A q \in Pid \ {p} : data'[q] = data[q]
    BY <1>1, <1>2 DEF TypeOK, FileOK
  <2> DEFINE s == data[p]
             d == s \o Bytes(call[t].off, n)
  <2>2. s \in Seq(Nat)
    BY <1>2
  <2> HIDE DEF p, s
  <2>3. /\ Len(d) = Len(s) + n
        /\ \A i \in 1..Len(s) : d[i] = s[i]
        /\ \A i \in 1..n : d[Len(s) + i] = call[t].off + i - 1
    BY <1>2, <2>2, AppendedBytes, ZenonT(60)
  <2>4. data'[p] = d
    BY <2>1 DEF s
  <2> HIDE DEF d
  <2> QED BY <2>1, <2>3, <2>4 DEF s
<1>4. /\ call'[t].got = n /\ call'[t].off = call[t].off
      /\ \A u \in Thread \ {t} : call'[u] = call[u]
  BY <1>1 DEF TypeOK, CallsOK
<1>5. /\ ~Appended(t) /\ Appended(t)'
      /\ \A u \in Thread \ {t} : (Appended(u)' <=> Appended(u)) /\ PidOf[u] # p
  BY DEF AppendData, Goto, Appended, UniquePids, TypeOK, CallsOK
<1>6. /\ Records' = Records /\ physical_offsets' = physical_offsets
      /\ \A q : Clean(q)' <=> Clean(q)
      /\ zeroed' = zeroed
  BY DEF AppendData, index, history, Records, Clean
<1>7. \A q \in Pid : Len(data[q]) \in Nat /\ Len(data'[q]) \in Nat /\ Len(data[q]) <= Len(data'[q])
  BY <1>2, <1>3, StateTypes, SMTT(30)
<1>8. Clean(p) => physical_offsets[p] = Len(data[p])
  BY <1>2, <1>5 DEF PlacementInv, SettledAtEnd
<1>9. RecordsPlaced'
  <2> SUFFICES ASSUME NEW e \in Records, Clean(e.id)
               PROVE  PointsAtItsBytes(e)' /\ e.phy + e.len <= physical_offsets[e.id]
    BY <1>6 DEF RecordsPlaced
  <2>1. e.id \in Pid /\ e.phy \in Nat /\ e.len \in Nat /\ e.log \in Nat
    BY StateTypes
  <2>2. /\ e.phy + e.len <= Len(data[e.id]) /\ e.phy + e.len <= physical_offsets[e.id]
        /\ \A i \in 0..(e.len - 1) : data[e.id][e.phy + i + 1] = e.log + i
    BY DEF PlacementInv, RecordsPlaced, PointsAtItsBytes
  <2>3. \A i \in 0..(e.len - 1) : e.phy + i + 1 \in 1..Len(data[e.id])
    BY <1>7, <2>1, <2>2
  <2>4. \A i \in 0..(e.len - 1) : data'[e.id][e.phy + i + 1] = e.log + i
    BY <1>3, <2>1, <2>2, <2>3
  <2>5. e.phy + e.len <= Len(data'[e.id])
    BY <1>7, <2>1, <2>2
  <2> QED BY <2>2, <2>4, <2>5 DEF PointsAtItsBytes
<1>10. InFlightPlaced'
  <2> SUFFICES ASSUME NEW u \in Thread, Appended(u)', Clean(PidOf[u])
               PROVE  /\ physical_offsets[PidOf[u]] + call'[u].got = Len(data'[PidOf[u]])
                      /\ \A i \in 0..(call'[u].got - 1) :
                           data'[PidOf[u]][physical_offsets[PidOf[u]] + i + 1] = call'[u].off + i
    BY <1>6 DEF InFlightPlaced
  <2>1. CASE u = t
    <3>1. \A i \in 0..(n - 1) : i + 1 \in 1..n
      BY <1>2
    <3>2. \A i \in 0..(n - 1) : data'[p][Len(data[p]) + i + 1] = call[t].off + i
      <4> SUFFICES ASSUME NEW i \in 0..(n - 1)
                   PROVE  data'[p][Len(data[p]) + i + 1] = call[t].off + i
        OBVIOUS
      <4>1. data'[p][Len(data[p]) + (i + 1)] = call[t].off + (i + 1) - 1
        BY <1>3, <3>1
      <4>2. i \in Int /\ Len(data[p]) \in Int /\ call[t].off \in Int
        BY <1>2
      <4>3. \A x, y, z \in Int : x + (y + 1) = x + y + 1 /\ z + (y + 1) - 1 = z + y
        OBVIOUS
      <4>4. /\ Len(data[p]) + (i + 1) = Len(data[p]) + i + 1
            /\ call[t].off + (i + 1) - 1 = call[t].off + i
        BY <4>2, <4>3
      <4> QED BY <4>1, <4>4
    <3>3. physical_offsets[p] = Len(data[p])
      BY <1>8, <2>1
    <3>4. call'[u].got = n /\ call'[u].off = call[t].off /\ PidOf[u] = p
      BY <1>4, <2>1
    <3>5. /\ physical_offsets[p] + n = Len(data'[p])
          /\ \A i \in 0..(n - 1) : data'[p][physical_offsets[p] + i + 1] = call[t].off + i
      BY <1>3, <3>2, <3>3
    <3> QED BY <3>4, <3>5
  <2>2. CASE u # t
    <3>1. PidOf[u] \in Pid \ {p}
      BY <1>5, <2>2, PidOfThread
    <3> QED BY <1>3, <1>4, <1>5, <2>2, <3>1 DEF PlacementInv, InFlightPlaced
  <2> QED BY <2>1, <2>2
<1>11. SettledAtEnd'
  <2> SUFFICES ASSUME NEW q \in Pid, Clean(q), \A u \in Thread : PidOf[u] = q => ~Appended(u)'
               PROVE  physical_offsets[q] = Len(data'[q])
    BY <1>6 DEF SettledAtEnd
  <2>1. q # p
    BY <1>5
  <2>2. \A u \in Thread : PidOf[u] = q => ~Appended(u)
    BY <1>5, <2>1
  <2> QED BY <1>3, <2>1, <2>2 DEF PlacementInv, SettledAtEnd
<1>12. RoomInv'
  <2>1. \A q \in Pid : \A m \in Nat : Below(q, m) => Below(q, m)'
    BY <1>6, <1>7, StateTypes DEF Below
  <2>2. p \notin zeroed => Below(p, n)'
    <3> SUFFICES ASSUME p \notin zeroed PROVE Below(p, n)'
      OBVIOUS
    <3>1. Below(p, 0)
      BY <1>2 DEF RoomInv
    <3> QED BY <1>2, <1>3, <1>6, <3>1, StateTypes DEF Below
  <2>3. \A q \in Pid : q \notin zeroed' => Below(q, 0)'
    BY <1>6, <2>1 DEF RoomInv
  <2>4. ASSUME NEW u \in Thread, Appended(u)', PidOf[u] \notin zeroed'
        PROVE  Below(PidOf[u], call[u].got)'
    <3>1. CASE u = t
      BY <1>4, <1>6, <2>2, <2>4, <3>1 DEF Below
    <3>2. CASE u # t
      <4>1. Below(PidOf[u], call[u].got) /\ call'[u] = call[u] /\ PidOf[u] \in Pid /\ call[u].got \in Nat
        BY <1>4, <1>5, <1>6, <2>4, <3>2, StateTypes DEF RoomInv
      <4>2. \A m \in Nat : Below(PidOf[u], m) => Below(PidOf[u], m)'
        BY <2>1, <4>1
      <4> QED BY <4>1, <4>2 DEF Below
    <3> QED BY <3>1, <3>2
  <2> QED BY <2>3, <2>4 DEF RoomInv
<1> QED
  BY <1>9, <1>10, <1>11, <1>12 DEF PlacementInv

(* The record of a write enters the index (and may be flushed at once).     *)
Recorded(t) ==
  LET p == PidOf[t]
      c == call[t]
  IN  /\ Records' \subseteq
           Entries(IndexAfter(hostIndex, physical_offsets, next_slot + 1, c.off, c.got, p)) \cup dropping
      /\ physical_offsets' = OffsetsAfter(hostIndex, physical_offsets, c.off, c.got, p)
      /\ merged' = (IF Continued(hostIndex, c.off, p) THEN merged \cup {p} ELSE merged)
      /\ ~Appended(t)'
      /\ \A u \in Thread \ {t} : (Appended(u)' <=> Appended(u)) /\ call'[u] = call[u]
      /\ UNCHANGED <<data, zeroed>>

LEMMA PlacementRecorded ==
  ASSUME TypeOK, UniquePids, PlacementInv, RoomInv, NEW t \in Thread, Appended(t), Recorded(t)
  PROVE  PlacementInv' /\ RoomInv'
<1> DEFINE p == PidOf[t]
           c == call[t]
           r == [id |-> p, log |-> c.off, len |-> c.got, phy |-> physical_offsets[p]]
<1>1. p \in Pid /\ c.off \in Nat /\ c.got \in Nat
  BY StateTypes
<1>2. /\ \A u \in Thread \ {t} : /\ PidOf[u] \in Pid \ {p}
                                /\ (Appended(u)' <=> Appended(u)) /\ call'[u] = call[u]
      /\ ~Appended(t)' /\ data' = data /\ zeroed' = zeroed
  BY PidOfThread DEF Recorded, UniquePids
<1>3. IsIndex(Pid, hostIndex, next_slot) /\ physical_offsets \in [Pid -> Nat]
  BY DEF TypeOK, IndexOK
<1>4. \A q \in Pid : physical_offsets'[q] =
         IF q = p /\ ~Continued(hostIndex, c.off, p) THEN physical_offsets[q] + c.got ELSE physical_offsets[q]
  <2>1. physical_offsets' = OffsetsAfter(hostIndex, physical_offsets, c.off, c.got, p)
    BY DEF Recorded
  <2> HIDE DEF p, c
  <2>2. \A q \in Pid : OffsetsAfter(hostIndex, physical_offsets, c.off, c.got, p)[q] =
          IF q = p /\ ~Continued(hostIndex, c.off, p) THEN physical_offsets[q] + c.got ELSE physical_offsets[q]
    BY <1>1, <1>3 DEF OffsetsAfter
  <2> QED BY <2>1, <2>2
(* Each record is an old one, the grown one, or the new one.                *)
<1>5. ASSUME NEW g \in Records', g \notin Records
      PROVE  /\ g \in Entry(Pid) /\ g.id = p
             /\ Continued(hostIndex, c.off, p) =>
                  \E e \in Records : e.id = p /\ g.phy = e.phy /\ g.len = e.len + c.got
             /\ ~Continued(hostIndex, c.off, p) => g = r
  <2>1. CASE Continued(hostIndex, c.off, p)
    <3>1. PICK e \in Entries(hostIndex) :
            /\ e.id = p
            /\ Entries(IndexAfter(hostIndex, physical_offsets, next_slot + 1, c.off, c.got, p))
                 \subseteq Entries(hostIndex) \cup {Longer(e, c.got)}
      BY <1>1, <1>3, <2>1, GrownIndex
    <3>2. g = Longer(e, c.got) /\ e \in Records
      BY <1>5, <3>1 DEF Recorded, Records
    <3>3. e \in Entry(Pid)
      BY <3>2, StateTypes
    <3>4. e.len + c.got \in Nat
      BY <1>1, <3>3
    <3>5. g \in Entry(Pid) /\ g.id = p /\ g.phy = e.phy /\ g.len = e.len + c.got
      BY <3>1, <3>2, <3>3, <3>4 DEF Longer
    <3> QED BY <2>1, <3>1, <3>2, <3>5
  <2>2. CASE ~Continued(hostIndex, c.off, p)
    <3>1. Entries(IndexAfter(hostIndex, physical_offsets, next_slot + 1, c.off, c.got, p)) = Entries(hostIndex) \cup {r}
      BY <1>1, <1>3, <2>2, PushedIndex
    <3>2. g = r
      BY <1>5, <3>1 DEF Recorded, Records
    <3>3. r \in Entry(Pid)
      BY <1>1, <1>3
    <3> QED BY <2>2, <3>2, <3>3
  <2> QED BY <2>1, <2>2
<1>6. \A q \in Pid : Clean(q)' => Clean(q) /\ (q = p => ~Continued(hostIndex, c.off, p))
  BY <1>2 DEF Clean, Recorded
<1>7. Clean(p) => /\ physical_offsets[p] + c.got = Len(data[p])
                  /\ \A i \in 0..(c.got - 1) : data[p][physical_offsets[p] + i + 1] = c.off + i
  BY DEF PlacementInv, InFlightPlaced
<1>8. p \notin zeroed => Below(p, c.got)
  BY DEF RoomInv
<1>9. RecordsPlaced'
  <2> SUFFICES ASSUME NEW g \in Records', Clean(g.id)'
               PROVE  PointsAtItsBytes(g)' /\ g.phy + g.len <= physical_offsets'[g.id]
    BY DEF RecordsPlaced
  <2>1. CASE g \in Records
    <3>1. g.id \in Pid /\ g.phy \in Nat /\ g.len \in Nat
      BY <2>1, StateTypes
    <3>2. PointsAtItsBytes(g) /\ g.phy + g.len <= physical_offsets[g.id]
      BY <1>6, <2>1, <3>1 DEF PlacementInv, RecordsPlaced
    <3>3. physical_offsets[g.id] \in Nat /\ physical_offsets'[g.id] >= physical_offsets[g.id]
      BY <1>1, <1>3, <1>4, <3>1
    <3>4. g.phy + g.len <= physical_offsets'[g.id]
      BY <1>1, <1>3, <1>4, <3>1, <3>2, <3>3
    <3> QED BY <1>2, <3>2, <3>4 DEF PointsAtItsBytes
  <2>2. CASE g \notin Records
    <3>1. g.id = p /\ ~Continued(hostIndex, c.off, p) /\ g = r /\ Clean(p)
      BY <1>1, <1>5, <1>6, <2>2
    <3>2. g.phy = physical_offsets[p] /\ g.len = c.got /\ g.log = c.off
      BY <3>1
    <3>3. g.phy + g.len = Len(data[p]) /\ g.phy + g.len = physical_offsets'[p]
      BY <1>1, <1>4, <1>7, <3>1, <3>2
    <3>4. physical_offsets'[p] \in Nat
      BY <1>1, <1>3, <1>4
    <3> QED BY <1>2, <1>7, <3>1, <3>2, <3>3, <3>4 DEF PointsAtItsBytes
  <2> QED BY <2>1, <2>2
<1>10. InFlightPlaced'
  <2> SUFFICES ASSUME NEW u \in Thread, Appended(u)', Clean(PidOf[u])'
               PROVE  /\ physical_offsets'[PidOf[u]] + call'[u].got = Len(data'[PidOf[u]])
                      /\ \A i \in 0..(call'[u].got - 1) :
                           data'[PidOf[u]][physical_offsets'[PidOf[u]] + i + 1] = call'[u].off + i
    BY DEF InFlightPlaced
  <2>1. u # t /\ PidOf[u] \in Pid \ {p} /\ Appended(u) /\ call'[u] = call[u] /\ Clean(PidOf[u])
    BY <1>2, <1>6
  <2>2. physical_offsets'[PidOf[u]] = physical_offsets[PidOf[u]]
    BY <1>4, <2>1
  <2> QED BY <1>2, <2>1, <2>2 DEF PlacementInv, InFlightPlaced
<1>11. SettledAtEnd'
  <2> SUFFICES ASSUME NEW q \in Pid, Clean(q)', \A u \in Thread : PidOf[u] = q => ~Appended(u)'
               PROVE  physical_offsets'[q] = Len(data'[q])
    BY DEF SettledAtEnd
  <2>1. CASE q = p
    BY <1>2, <1>4, <1>6, <1>7, <2>1
  <2>2. CASE q # p
    <3>1. \A u \in Thread : PidOf[u] = q => ~Appended(u)
      BY <1>2, <2>2
    <3> QED BY <1>2, <1>4, <1>6, <2>2, <3>1 DEF PlacementInv, SettledAtEnd
  <2> QED BY <2>1, <2>2
<1>12. RoomInv'
  <2>1. ASSUME NEW q \in Pid, q # p, NEW m \in Nat, Below(q, m) PROVE Below(q, m)'
    BY <1>2, <1>4, <1>5, <2>1 DEF Below
  <2>2. p \notin zeroed => Below(p, 0)'
    <3> SUFFICES ASSUME p \notin zeroed PROVE Below(p, 0)'
      OBVIOUS
    <3>1. physical_offsets[p] + c.got <= Len(data[p])
      BY <1>8 DEF Below
    <3>2. Len(data[p]) \in Nat /\ physical_offsets[p] \in Nat
      BY <1>1, StateTypes
    <3>3. physical_offsets'[p] + 0 <= Len(data'[p])
      BY <1>1, <1>2, <1>4, <3>1, <3>2
    <3>4. ASSUME NEW g \in Records', g.id = p PROVE g.phy + g.len + 0 <= Len(data'[p])
      <4>1. CASE g \in Records
        <5>1. g.phy \in Nat /\ g.len \in Nat /\ g.phy + g.len + c.got <= Len(data[p])
          BY <1>8, <3>4, <4>1, StateTypes DEF Below
        <5> QED BY <1>1, <1>2, <3>2, <5>1
      <4>2. CASE g \notin Records /\ Continued(hostIndex, c.off, p)
        <5>1. PICK e \in Records : e.id = p /\ g.phy = e.phy /\ g.len = e.len + c.got
          BY <1>5, <4>2
        <5>2. e.phy \in Nat /\ e.len \in Nat /\ e.phy + e.len + c.got <= Len(data[p])
          BY <1>8, <5>1, StateTypes DEF Below
        <5> QED BY <1>1, <1>2, <3>2, <5>1, <5>2
      <4>3. CASE g \notin Records /\ ~Continued(hostIndex, c.off, p)
        <5>1. g.phy = physical_offsets[p] /\ g.len = c.got
          BY <1>5, <4>3
        <5> QED BY <1>1, <1>2, <3>1, <3>2, <5>1
      <4> QED BY <4>1, <4>2, <4>3
    <3> QED BY <3>3, <3>4 DEF Below
  <2>3. \A q \in Pid : q \notin zeroed' => Below(q, 0)'
    BY <1>2, <2>1, <2>2 DEF RoomInv
  <2>4. ASSUME NEW u \in Thread, Appended(u)', PidOf[u] \notin zeroed'
        PROVE  Below(PidOf[u], call[u].got)'
    <3>1. /\ PidOf[u] \in Pid \ {p} /\ call'[u] = call[u] /\ call[u].got \in Nat
          /\ Below(PidOf[u], call[u].got)
      BY <1>2, <2>4, StateTypes DEF RoomInv
    <3>2. \A m \in Nat : Below(PidOf[u], m) => Below(PidOf[u], m)'
      BY <2>1, <3>1
    <3> QED BY <3>1, <3>2 DEF Below
  <2> QED BY <2>3, <2>4 DEF RoomInv
<1> QED
  BY <1>9, <1>10, <1>11, <1>12 DEF PlacementInv

(* extend(): a record of length 0 at the process's next physical offset.    *)
LEMMA PlacementExtended ==
  ASSUME TypeOK, PlacementInv, RoomInv, SameInFlight, NEW offset \in Nat, ExtendTo(offset)
  PROVE  PlacementInv' /\ RoomInv'
<1>1. PICK p \in Pid :
        /\ hostIndex' = IndexAfter(hostIndex, physical_offsets, next_slot + 1, offset, 0, p)
        /\ merged' = IF Continued(hostIndex, offset, p) THEN merged \cup {p} ELSE merged
  BY DEF ExtendTo
<1> DEFINE r == [id |-> p, log |-> offset, len |-> 0, phy |-> physical_offsets[p]]
<1>2. IsIndex(Pid, hostIndex, next_slot) /\ physical_offsets \in [Pid -> Nat]
  BY DEF TypeOK, IndexOK
<1>3. data' = data /\ zeroed' = zeroed /\ physical_offsets' = physical_offsets /\ dropping' = dropping
  BY DEF ExtendTo
<1>4. r \in Entry(Pid)
  BY <1>2
<1>5. ASSUME NEW g \in Records'
      PROVE  g = r \/ \E e \in Records : Shortened(g, e)
  <2>1. CASE g \in Records
    BY <2>1, StateTypes DEF Shortened
  <2>2. CASE g \notin Records /\ Continued(hostIndex, offset, p)
    <3>1. PICK e \in Entries(hostIndex) :
            Entries(IndexAfter(hostIndex, physical_offsets, next_slot + 1, offset, 0, p))
              \subseteq Entries(hostIndex) \cup {Longer(e, 0)}
      BY <1>2, <2>2, GrownIndex
    <3>2. g = Longer(e, 0) /\ e \in Records
      BY <1>1, <1>3, <1>5, <2>2, <3>1 DEF Records
    <3>3. e \in Entry(Pid)
      BY <3>2, StateTypes
    <3>4. e.len + 0 = e.len /\ e.len \in Nat
      BY <3>3
    <3> QED BY <3>2, <3>3, <3>4 DEF Longer, Shortened
  <2>3. CASE g \notin Records /\ ~Continued(hostIndex, offset, p)
    <3>1. Entries(IndexAfter(hostIndex, physical_offsets, next_slot + 1, offset, 0, p)) = Entries(hostIndex) \cup {r}
      BY <1>2, <2>3, PushedIndex
    <3> QED BY <1>1, <1>3, <1>5, <2>3, <3>1 DEF Records
  <2> QED BY <2>1, <2>2, <2>3
<1>6. \A q : Clean(q)' => Clean(q)
  BY <1>1, <1>3 DEF Clean
<1>7. p \notin zeroed => physical_offsets[p] + 0 <= Len(data[p])
  BY DEF RoomInv, Below
<1>8. p \in Pid /\ physical_offsets[p] \in Nat /\ Len(data[p]) \in Nat
  BY StateTypes
<1>9. RecordsPlaced'
  <2> SUFFICES ASSUME NEW g \in Records', Clean(g.id)'
               PROVE  PointsAtItsBytes(g)' /\ g.phy + g.len <= physical_offsets[g.id]
    BY <1>3 DEF RecordsPlaced
  <2>1. CASE g = r
    <3>1. g.id = p /\ g.len = 0 /\ g.phy = physical_offsets[p] /\ p \notin zeroed
      BY <1>3, <2>1 DEF Clean
    <3> QED BY <1>3, <1>7, <1>8, <3>1 DEF PointsAtItsBytes
  <2>2. CASE \E e \in Records : Shortened(g, e)
    <3>1. PICK e \in Records : Shortened(g, e)
      BY <2>2
    <3>2. /\ e.phy + e.len <= Len(data[e.id]) /\ e.phy + e.len <= physical_offsets[e.id]
          /\ \A i \in 0..(e.len - 1) : data[e.id][e.phy + i + 1] = e.log + i
      BY <1>6, <3>1 DEF Shortened, PlacementInv, RecordsPlaced, PointsAtItsBytes
    <3>3. /\ e.phy \in Nat /\ e.len \in Nat /\ g.len \in Nat /\ g.len <= e.len
          /\ g.id = e.id /\ g.log = e.log /\ g.phy = e.phy
      BY <3>1, StateTypes DEF Shortened
    <3>4. Len(data[e.id]) \in Nat /\ physical_offsets[e.id] \in Nat
      BY <3>1, StateTypes
    <3>5. /\ g.phy + g.len <= Len(data[g.id]) /\ g.phy + g.len <= physical_offsets[g.id]
          /\ \A i \in 0..(g.len - 1) : i \in 0..(e.len - 1)
      <4>1. PICK x, l, m, d, o \in Nat :
              x = e.phy /\ l = e.len /\ m = g.len /\ d = Len(data[e.id]) /\ o = physical_offsets[e.id]
        BY <3>3, <3>4
      <4>2. x + l <= d /\ x + l <= o /\ m <= l
        BY <3>2, <3>3, <4>1
      <4>3. x + m <= d /\ x + m <= o /\ \A i \in 0..(m - 1) : i \in 0..(l - 1)
        BY <4>2
      <4> QED BY <3>3, <4>1, <4>3
    <3>6. \A i \in 0..(g.len - 1) : data[g.id][g.phy + i + 1] = g.log + i
      BY <3>2, <3>3, <3>5
    <3>7. PointsAtItsBytes(g)
      BY <3>5, <3>6 DEF PointsAtItsBytes
    <3> QED BY <1>3, <3>5, <3>7 DEF PointsAtItsBytes
  <2> QED BY <1>5, <2>1, <2>2
<1>10. InFlightPlaced'
  BY <1>3, <1>6 DEF PlacementInv, InFlightPlaced, SameInFlight
<1>11. SettledAtEnd'
  BY <1>3, <1>6 DEF PlacementInv, SettledAtEnd, SameInFlight
<1>12. ASSUME NEW q \in Pid, NEW n \in Nat, Below(q, n) PROVE Below(q, n)'
  <2>1. ASSUME NEW g \in Records', g.id = q PROVE g.phy + g.len + n <= Len(data[q])
    <3>1. CASE g = r
      <4>1. g.len = 0 /\ g.phy = physical_offsets[q] /\ physical_offsets[q] + n <= Len(data[q])
        BY <1>12, <2>1, <3>1 DEF Below
      <4> QED BY <4>1, StateTypes
    <3>2. CASE \E e \in Records : Shortened(g, e)
      <4>1. PICK e \in Records : Shortened(g, e)
        BY <3>2
      <4>2. e.id = q /\ e.phy + e.len + n <= Len(data[q])
        BY <1>12, <2>1, <4>1 DEF Shortened, Below
      <4>3. e.phy \in Nat /\ e.len \in Nat /\ g.len \in Nat /\ g.len <= e.len /\ g.phy = e.phy
        BY <4>1, StateTypes DEF Shortened
      <4>4. Len(data[q]) \in Nat
        BY StateTypes
      <4> QED BY <4>2, <4>3, <4>4
    <3> QED BY <1>5, <3>1, <3>2
  <2> QED BY <1>3, <1>12, <2>1 DEF Below
<1>13. RoomInv'
  <2>1. \A q \in Pid : q \notin zeroed' => Below(q, 0)'
    BY <1>3, <1>12 DEF RoomInv
  <2>2. ASSUME NEW u \in Thread, Appended(u)', PidOf[u] \notin zeroed'
        PROVE  Below(PidOf[u], call[u].got)'
    <3>1. call'[u] = call[u] /\ PidOf[u] \in Pid /\ call[u].got \in Nat /\ Below(PidOf[u], call[u].got)
      BY <1>3, <2>2, StateTypes DEF RoomInv, SameInFlight
    <3>2. \A n \in Nat : Below(PidOf[u], n) => Below(PidOf[u], n)'
      BY <1>12, <3>1
    <3> QED BY <3>1, <3>2 DEF Below
  <2> QED BY <2>1, <2>2 DEF RoomInv
<1> QED
  BY <1>9, <1>10, <1>11, <1>13 DEF PlacementInv

(* The flushes: no record appears.                                          *)
LEMMA FlushKeepsRecords ==
  ASSUME TypeOK, \E ok \in FlushOutcomes : Flush(hostIndex, ok)
  PROVE  Records' \subseteq Records
<1>1. PICK ok \in FlushOutcomes : Flush(hostIndex, ok)
  OBVIOUS
<1>2. ok \in BOOLEAN /\ IsIndex(Pid, hostIndex, next_slot)
  BY DEF FlushOutcomes, TypeOK, IndexOK
<1> QED
  BY <1>1, <1>2, Flushed DEF Records

(* Moving a thread that has nothing in flight, to a place where it still    *)
(* has not.                                                                 *)
LEMMA MoveKeepsInFlight ==
  ASSUME TypeOK, NEW t \in Thread, ~Appended(t), NEW l, l # "appended",
         pc' = [pc EXCEPT ![t] = l],
         \A u \in Thread \ {t} : call'[u] = call[u]
  PROVE  SameInFlight
  BY DEF SameInFlight, Appended, TypeOK, CallsOK

LEMMA PlacementStep ==
  ASSUME UniquePids, TypeOK, PlacementInv, RoomInv, [Next]_vars
  PROVE  PlacementInv' /\ RoomInv'
<1>1. \A e \in Records : Shortened(e, e)
  BY StateTypes DEF Shortened
<1>2. UNCHANGED <<pc, call>> => SameInFlight
  BY DEF SameInFlight, Appended
<1>3. ASSUME Records' \subseteq Records, UNCHANGED <<data, physical_offsets, merged, zeroed>>, SameInFlight
      PROVE  PlacementInv' /\ RoomInv'
  BY <1>1, <1>3, PlacementFrame
<1>4. ASSUME NEW t \in Thread, AddWriter(t) \/ RemoveWriter(t) PROVE PlacementInv' /\ RoomInv'
  <2>1. Records' = Records /\ UNCHANGED <<data, physical_offsets, merged, zeroed, pc, call>>
    BY <1>4 DEF AddWriter, RemoveWriter, index, history, Records
  <2> QED BY <1>2, <1>3, <2>1
<1>5. ASSUME NEW t \in Thread, LastClose(t) \/ Sync(t) PROVE PlacementInv' /\ RoomInv'
  <2>1. Records' \subseteq Records
    BY <1>5, FlushKeepsRecords DEF LastClose, Sync
  <2>2. UNCHANGED <<data, physical_offsets, merged, zeroed, pc, call>>
    BY <1>5 DEF LastClose, Sync
  <2> QED BY <1>2, <1>3, <2>1, <2>2
<1>6. ASSUME NEW t \in Thread, BeginWrite(t) PROVE PlacementInv' /\ RoomInv'
  <2>1. Records' = Records /\ UNCHANGED <<data, physical_offsets, merged, zeroed>>
    BY <1>6 DEF BeginWrite, index, history, Records
  <2>2. SameInFlight
    <3>1. ~Appended(t) /\ pc' = [pc EXCEPT ![t] = "found"]
      BY <1>6 DEF BeginWrite, Goto, Appended
    <3>2. \A u \in Thread \ {t} : call'[u] = call[u]
      BY <1>6 DEF BeginWrite, TypeOK, CallsOK
    <3> QED BY <3>1, <3>2, MoveKeepsInFlight
  <2> QED BY <1>3, <2>1, <2>2
<1>7. ASSUME NEW t \in Thread, AppendData(t) PROVE PlacementInv' /\ RoomInv'
  BY <1>7, PlacementAppend
<1>8. ASSUME NEW t \in Thread, AppendFails(t) PROVE PlacementInv' /\ RoomInv'
  <2>1. Records' = Records /\ UNCHANGED <<data, physical_offsets, merged, zeroed>>
    BY <1>8 DEF AppendFails, index, history, Records
  <2>2. SameInFlight
    <3>1. ~Appended(t) /\ pc' = [pc EXCEPT ![t] = "idle"]
      BY <1>8 DEF AppendFails, Return, Goto, Appended
    <3>2. \A u \in Thread \ {t} : call'[u] = call[u]
      BY <1>8 DEF AppendFails, Return, TypeOK, CallsOK
    <3> QED BY <3>1, <3>2, MoveKeepsInFlight
  <2> QED BY <1>3, <2>1, <2>2
<1>9. ASSUME NEW t \in Thread, RecordWrite(t) \/ RecordAndFlush(t) PROVE PlacementInv' /\ RoomInv'
  <2> DEFINE H == IndexAfter(hostIndex, physical_offsets, next_slot + 1, call[t].off, call[t].got, PidOf[t])
  <2>1. Appended(t)
    BY <1>9 DEF RecordWrite, RecordAndFlush, Appended
  <2>2. Records' \subseteq Entries(H) \cup dropping
    <3>1. CASE RecordWrite(t)
      BY <3>1 DEF RecordWrite, Records
    <3>2. CASE RecordAndFlush(t)
      <4>1. PICK ok \in FlushOutcomes : Flush(H, ok)
        BY <3>2 DEF RecordAndFlush
      <4>2. ok \in BOOLEAN /\ IsIndex(Pid, H, SlotAfter(hostIndex, next_slot, call[t].off, PidOf[t]))
        BY RecordType DEF FlushOutcomes
      <4> HIDE DEF H
      <4> QED BY <4>1, <4>2, Flushed
    <3> QED BY <1>9, <3>1, <3>2
  <2>3. /\ physical_offsets' = OffsetsAfter(hostIndex, physical_offsets, call[t].off, call[t].got, PidOf[t])
        /\ merged' = (IF Continued(hostIndex, call[t].off, PidOf[t]) THEN merged \cup {PidOf[t]} ELSE merged)
        /\ UNCHANGED <<data, zeroed>>
    BY <1>9 DEF RecordWrite, RecordAndFlush
  <2>4. /\ ~Appended(t)'
        /\ \A u \in Thread \ {t} : (Appended(u)' <=> Appended(u)) /\ call'[u] = call[u]
    BY <1>9 DEF RecordWrite, RecordAndFlush, Return, Goto, Appended, TypeOK, CallsOK
  <2>5. Recorded(t)
    BY <2>2, <2>3, <2>4 DEF Recorded
  <2> QED BY <2>1, <2>5, PlacementRecorded
<1>10. ASSUME NEW t \in Thread, TruncContainer(t) PROVE PlacementInv' /\ RoomInv'
  <2>1. PICK offset \in TruncOffsets :
          /\ call' = [call EXCEPT ![t] = [off |-> offset, len |-> 0, got |-> 0]]
          /\ \/ offset = 0 /\ EmptyDroppings
             \/ offset > last_offset /\ ExtendTo(offset)
             \/ offset \in 1..last_offset /\ UNCHANGED <<index, data, last_offset, history>>
    BY <1>10 DEF TruncContainer
  <2>2. SameInFlight
    <3>1. ~Appended(t) /\ pc' = [pc EXCEPT ![t] = "shrunk"]
      BY <1>10 DEF TruncContainer, Goto, Appended
    <3>2. \A u \in Thread \ {t} : call'[u] = call[u]
      BY <2>1 DEF TypeOK, CallsOK
    <3> QED BY <3>1, <3>2, MoveKeepsInFlight
  <2>3. CASE EmptyDroppings
    BY <2>2, <2>3, PlacementEmptied
  <2>4. CASE ExtendTo(offset)
    BY <2>2, <2>4, RangeAssumption, PlacementExtended
  <2>5. CASE UNCHANGED <<index, data, last_offset, history>>
    <3>1. Records' = Records /\ UNCHANGED <<data, physical_offsets, merged, zeroed>>
      BY <2>5 DEF index, history, Records
    <3> QED BY <1>3, <2>2, <3>1
  <2> QED BY <2>1, <2>3, <2>4, <2>5
<1>11. ASSUME NEW t \in Thread, TruncHandle(t) PROVE PlacementInv' /\ RoomInv'
  <2>1. SameInFlight
    <3>1. ~Appended(t) /\ pc' = [pc EXCEPT ![t] = "adjusted"] /\ call' = call
      BY <1>11 DEF TruncHandle, Goto, Appended
    <3> QED BY <3>1, MoveKeepsInFlight
  <2>2. IsIndex(Pid, hostIndex, next_slot) /\ call[t].off \in Nat
    BY StateTypes DEF TypeOK, IndexOK
  <2>3. hostIndex' = IndexBelow(hostIndex, call[t].off) /\ dropping' = dropping
    BY <1>11 DEF TruncHandle
  <2>4. ASSUME NEW g \in Records' PROVE \E e \in Records : Shortened(g, e)
    <3>1. CASE g \in dropping
      BY <1>1, <3>1 DEF Records
    <3>2. CASE g \in Entries(IndexBelow(hostIndex, call[t].off))
      <4>1. PICK e \in Entries(hostIndex) : Remains(g, e, call[t].off)
        BY <2>2, <3>2, CutIndex
      <4>2. g \in Entry(Pid)
        BY <2>2, <3>2, CutIndex DEF IsIndex
      <4> QED BY <4>1, <4>2 DEF Remains, Shortened, Records
    <3> QED BY <2>3, <2>4, <3>1, <3>2 DEF Records
  <2>5. UNCHANGED <<data, physical_offsets, merged, zeroed>>
    BY <1>11 DEF TruncHandle
  <2> QED BY <2>1, <2>4, <2>5, PlacementFrame
<1>12. ASSUME NEW t \in Thread, RestoreFds(t) \/ RestoreFdsFails(t) PROVE PlacementInv' /\ RoomInv'
  <2>1. Records' \subseteq Records
    BY <1>12, FlushKeepsRecords DEF RestoreFds, RestoreFdsFails
  <2>2. UNCHANGED <<data, physical_offsets, merged, zeroed>>
    BY <1>12 DEF RestoreFds, RestoreFdsFails
  <2>3. SameInFlight
    <3>1. ~Appended(t) /\ pc' = [pc EXCEPT ![t] = "idle"]
      BY <1>12 DEF RestoreFds, RestoreFdsFails, Return, Goto, Appended
    <3>2. \A u \in Thread \ {t} : call'[u] = call[u]
      BY <1>12 DEF RestoreFds, RestoreFdsFails, Return, TypeOK, CallsOK
    <3> QED BY <3>1, <3>2, MoveKeepsInFlight
  <2> QED BY <1>3, <2>1, <2>2, <2>3
<1>13. CASE TruncByPath
  BY <1>2, <1>13, PlacementEmptied DEF TruncByPath
<1>14. CASE UNCHANGED vars
  <2>1. Records' = Records /\ UNCHANGED <<data, physical_offsets, merged, zeroed, pc, call>>
    BY <1>14 DEF vars, index, history, Records
  <2> QED BY <1>2, <1>3, <2>1
<1> QED
  BY <1>4, <1>5, <1>6, <1>7, <1>8, <1>9, <1>10, <1>11, <1>12, <1>13, <1>14
     DEF Next, Write, Truncate

(* The records of a process whose writes were never merged and whose        *)
(* dropping was never truncated under it point at the bytes of their own    *)
(* writes, however many processes write, in whatever order their appends    *)
(* and their insertions under index_mux interleave (Index::addWrite).       *)
THEOREM PlacedCorrect == Spec => []PlacedUnlessMerged
<1>1. CASE UniquePids
  <2>1. Init => TypeOK /\ OpensCounted /\ PlacementInv /\ RoomInv
    BY TypeInit, CountedInit, PlacementInit
  <2>2. TypeOK /\ OpensCounted /\ PlacementInv /\ RoomInv /\ [Next]_vars
          => (TypeOK /\ OpensCounted /\ PlacementInv /\ RoomInv)'
    BY <1>1, TypeStep, CountedStep, PlacementStep
  <2>3. PlacementInv => PlacedUnlessMerged
    BY DEF PlacementInv, RecordsPlaced, Clean, PlacedUnlessMerged
  <2> QED BY <2>1, <2>2, <2>3, PTL DEF Spec
<1>2. CASE ~UniquePids
  <2>1. PlacedUnlessMerged
    BY <1>2 DEF PlacedUnlessMerged
  <2> QED BY <2>1, PTL
<1> QED
  BY <1>1, <1>2

(* Even after merged writes no record of a process reaches past the end of  *)
(* its data dropping, unless the dropping was truncated under it.           *)
THEOREM InsideCorrect == ASSUME UniquePids PROVE Spec => []RecordsInsideDropping
<1>1. Init => TypeOK /\ OpensCounted /\ PlacementInv /\ RoomInv
  BY TypeInit, CountedInit, PlacementInit
<1>2. TypeOK /\ OpensCounted /\ PlacementInv /\ RoomInv /\ [Next]_vars
        => (TypeOK /\ OpensCounted /\ PlacementInv /\ RoomInv)'
  BY TypeStep, CountedStep, PlacementStep
<1>3. TypeOK /\ RoomInv => RecordsInsideDropping
  <2> SUFFICES ASSUME TypeOK, RoomInv, NEW e \in Records, e.id \notin zeroed
               PROVE  e.phy + e.len <= Len(data[e.id])
    BY DEF RecordsInsideDropping
  <2>1. e.id \in Pid /\ e.phy \in Nat /\ e.len \in Nat
    BY StateTypes
  <2>2. e.phy + e.len + 0 <= Len(data[e.id])
    BY <2>1 DEF RoomInv, Below
  <2> QED BY <2>1, <2>2
<1> QED
  BY <1>1, <1>2, <1>3, PTL DEF Spec

-----------------------------------------------------------------------------
(* What a successful write leaves behind. *)

(* addWrite covers the bytes of the write and uncovers none.                *)
LEMMA CoverRecorded ==
  ASSUME TypeOK, NEW p \in Pid, NEW off \in Nat, NEW n \in Nat
  PROVE  LET H == IndexAfter(hostIndex, physical_offsets, next_slot + 1, off, n, p) IN
         \A b \in Byte : Covered(Records, b) \/ b \in Written(p, off, n)
                           => Covered(Entries(H) \cup dropping, b)
<1> DEFINE H == IndexAfter(hostIndex, physical_offsets, next_slot + 1, off, n, p)
           r == [id |-> p, log |-> off, len |-> n, phy |-> physical_offsets[p]]
<1>1. IsIndex(Pid, hostIndex, next_slot) /\ physical_offsets \in [Pid -> Nat]
  BY DEF TypeOK, IndexOK
<1>2. \A b \in Written(p, off, n) : b[1] = p /\ off <= b[2] /\ b[2] < off + n
  BY DEF Written
<1>3. CASE Continued(hostIndex, off, p)
  <2>1. PICK e \in Entries(hostIndex) :
          /\ e.id = p /\ e.log + e.len = off
          /\ Longer(e, n) \in Entries(H)
          /\ Entries(hostIndex) \ {e} \subseteq Entries(H)
    BY <1>1, <1>3, GrownIndex
  <2>2. e \in Entry(Pid)
    BY <1>1 DEF IsIndex
  <2>3. /\ Longer(e, n).id = p /\ Longer(e, n).log = e.log
        /\ Longer(e, n).log + Longer(e, n).len = off + n
    BY <2>1, <2>2 DEF Longer
  <2> SUFFICES ASSUME NEW b \in Byte, Covered(Records, b) \/ b \in Written(p, off, n)
               PROVE  Covered(Entries(H) \cup dropping, b)
    BY DEF H
  <2> HIDE DEF H
  <2>4. CASE b \in Written(p, off, n)
    <3>1. e.log <= b[2] /\ b[2] < off + n /\ b[1] = p
      BY <1>2, <2>1, <2>2, <2>4
    <3> QED BY <2>1, <2>3, <3>1 DEF Covered
  <2>5. CASE Covered(Records, b)
    <3>1. PICK d \in Records : d.id = b[1] /\ d.log <= b[2] /\ b[2] < d.log + d.len
      BY <2>5 DEF Covered
    <3>2. CASE d = e
      <4>1. e.id = b[1] /\ e.log <= b[2] /\ b[2] < off /\ b[2] \in Nat
        BY <2>1, <3>1, <3>2
      <4>2. b[2] < off + n
        BY <4>1
      <4> QED BY <2>1, <2>3, <4>1, <4>2 DEF Covered
    <3>3. CASE d # e
      <4>1. d \in Entries(H) \cup dropping
        BY <2>1, <3>3 DEF Records
      <4> QED BY <3>1, <4>1 DEF Covered
    <3> QED BY <3>2, <3>3
  <2> QED BY <2>4, <2>5
<1>4. CASE ~Continued(hostIndex, off, p)
  <2>1. Entries(H) = Entries(hostIndex) \cup {r}
    BY <1>1, <1>4, PushedIndex
  <2>2. r.id = p /\ r.log = off /\ r.len = n
    OBVIOUS
  <2> HIDE DEF H, r
  <2>3. Records \subseteq Entries(H) \cup dropping /\ r \in Entries(H)
    BY <2>1 DEF Records
  <2> QED BY <1>2, <2>2, <2>3 DEF Covered, H
<1> QED
  BY <1>3, <1>4

(* A truncate of the buffered index uncovers no byte below the new end.     *)
LEMMA CoverCut ==
  ASSUME TypeOK, NEW offset \in Nat, NEW b \in Byte, b[2] < offset, Covered(Records, b)
  PROVE  Covered(Entries(IndexBelow(hostIndex, offset)) \cup dropping, b)
<1>1. PICK d \in Records : d.id = b[1] /\ d.log <= b[2] /\ b[2] < d.log + d.len
  BY DEF Covered
<1>2. CASE d \in dropping
  BY <1>1, <1>2 DEF Covered
<1>3. CASE d \in Entries(hostIndex)
  <2>1. IsIndex(Pid, hostIndex, next_slot)
    BY DEF TypeOK, IndexOK
  <2>2. d.log \in Nat /\ b[2] \in Nat /\ d.log < offset
    BY <1>1, StateTypes
  <2>3. PICK g \in Entries(IndexBelow(hostIndex, offset)) : Remains(g, d, offset)
    BY <1>3, <2>1, <2>2, CutIndex
  <2>4. g.id = b[1] /\ g.log <= b[2] /\ b[2] < g.log + g.len
    BY <1>1, <2>2, <2>3 DEF Remains
  <2> QED BY <2>4 DEF Covered
<1> QED
  BY <1>1, <1>2, <1>3 DEF Records

(* A flush that leaves flush_failed unset moved every record it held.       *)
LEMMA CoverFlushed ==
  ASSUME TypeOK, NEW h, NEW slot, IsIndex(Pid, h, slot),
         \E ok \in FlushOutcomes : Flush(h, ok), ~flush_failed'
  PROVE  /\ ~flush_failed
         /\ dropping' = dropping \cup Entries(h)
         /\ Records' = dropping \cup Entries(h)
<1>1. PICK ok \in FlushOutcomes : Flush(h, ok)
  OBVIOUS
<1>2. ok \in BOOLEAN
  BY DEF FlushOutcomes
<1> QED
  BY <1>1, <1>2, Flushed DEF Records

LEMMA HistoryInit == Init => HistoryInv
  BY DEF Init, HistoryInv, NoWriteForgotten, SyncedIsDurable, SizeCoversWrites, GotAtMostLen, Appended

(* A step that leaves the history, the records and the size alone.          *)
LEMMA HistoryFrame ==
  ASSUME HistoryInv, UNCHANGED <<index, history, last_offset>>
  PROVE  NoWriteForgotten' /\ SyncedIsDurable' /\ SizeCoversWrites'
  BY DEF HistoryInv, NoWriteForgotten, SyncedIsDurable, SizeCoversWrites, Records, Covered, index, history

(* A flush of the handle's own index changes nothing for acked and committed *)
LEMMA HistoryFlush ==
  ASSUME TypeOK, HistoryInv, \E ok \in FlushOutcomes : Flush(hostIndex, ok),
         UNCHANGED <<acked, last_offset>>
  PROVE  /\ NoWriteForgotten' /\ SizeCoversWrites'
         /\ \A c : c \subseteq committed \cup acked /\ committed' = c => SyncedIsDurable'
<1>1. IsIndex(Pid, hostIndex, next_slot)
  BY DEF TypeOK, IndexOK
<1>2. ~flush_failed' => ~flush_failed /\ dropping' = Records /\ Records' = Records
  BY <1>1, CoverFlushed DEF Records
<1>3. NoWriteForgotten' /\ SizeCoversWrites'
  BY <1>2 DEF HistoryInv, NoWriteForgotten, SizeCoversWrites
<1>4. ~flush_failed' => \A b \in committed \cup acked : Covered(Records, b)
  BY <1>2 DEF HistoryInv, NoWriteForgotten, SyncedIsDurable, Covered, Records
<1>5. ASSUME NEW c, c \subseteq committed \cup acked, committed' = c PROVE SyncedIsDurable'
  BY <1>2, <1>4, <1>5 DEF SyncedIsDurable
<1> QED
  BY <1>3, <1>5

LEMMA GotStep ==
  ASSUME TypeOK, GotAtMostLen, [Next]_vars
  PROVE  GotAtMostLen'
<1>1. ASSUME NEW t \in Thread, AppendData(t) PROVE GotAtMostLen'
  <2>1. PICK n \in 1..call[t].len : call' = [call EXCEPT ![t].got = n]
    BY <1>1 DEF AppendData
  <2>2. call[t].len \in Nat
    BY StateTypes
  <2>3. call'[t].got <= call'[t].len
    BY <2>1, <2>2 DEF TypeOK, CallsOK
  <2>4. \A u \in Thread \ {t} : (Appended(u)' <=> Appended(u)) /\ call'[u] = call[u]
    BY <1>1, <2>1 DEF AppendData, Goto, Appended, TypeOK, CallsOK
  <2> QED BY <2>3, <2>4 DEF GotAtMostLen
<1>2. ASSUME NEW t \in Thread, ~Appended(t)',
             \A u \in Thread \ {t} : (Appended(u)' <=> Appended(u)) /\ call'[u] = call[u]
      PROVE  GotAtMostLen'
  BY <1>2 DEF GotAtMostLen
<1>3. UNCHANGED <<pc, call>> => GotAtMostLen'
  BY DEF GotAtMostLen, Appended
<1>4. ASSUME NEW t \in Thread, BeginWrite(t) \/ AppendFails(t) \/ RecordWrite(t) \/ RecordAndFlush(t)
      PROVE  GotAtMostLen'
  <2>1. /\ ~Appended(t)'
        /\ \A u \in Thread \ {t} : (Appended(u)' <=> Appended(u)) /\ call'[u] = call[u]
    BY <1>4 DEF BeginWrite, AppendFails, RecordWrite, RecordAndFlush, Return, Goto, Appended, TypeOK, CallsOK
  <2> QED BY <1>2, <2>1
<1>5. ASSUME NEW t \in Thread, TruncContainer(t) \/ Truncate(t) PROVE GotAtMostLen'
  <2>1. /\ ~Appended(t)'
        /\ \A u \in Thread \ {t} : (Appended(u)' <=> Appended(u)) /\ call'[u] = call[u]
    BY <1>5 DEF TruncContainer, Truncate, TruncHandle, RestoreFds, RestoreFdsFails,
       Return, Goto, Appended, TypeOK, CallsOK
  <2> QED BY <1>2, <2>1
<1>6. ASSUME NEW t \in Thread, AddWriter(t) \/ RemoveWriter(t) \/ LastClose(t) \/ Sync(t) PROVE GotAtMostLen'
  BY <1>3, <1>6 DEF AddWriter, RemoveWriter, LastClose, Sync
<1>7. TruncByPath \/ UNCHANGED vars => GotAtMostLen'
  BY <1>3 DEF TruncByPath, vars
<1> QED
  BY <1>1, <1>4, <1>5, <1>6, <1>7 DEF Next, Write

LEMMA HistoryStep ==
  ASSUME TypeOK, HistoryInv, [Next]_vars
  PROVE  NoWriteForgotten' /\ SyncedIsDurable' /\ SizeCoversWrites'
<1> DEFINE Kept == NoWriteForgotten' /\ SyncedIsDurable' /\ SizeCoversWrites'
<1>0. /\ IsIndex(Pid, hostIndex, next_slot)
      /\ acked \subseteq Byte /\ committed \subseteq Byte /\ last_offset \in Nat
  BY DEF TypeOK, IndexOK, HistoryOK, FileOK
<1>1. ASSUME NEW t \in Thread, AddWriter(t) \/ RemoveWriter(t) \/ BeginWrite(t) \/ AppendData(t) \/ AppendFails(t)
      PROVE  Kept
  BY <1>1, HistoryFrame DEF AddWriter, RemoveWriter, BeginWrite, AppendData, AppendFails
<1>2. ASSUME NEW t \in Thread, LastClose(t) \/ Sync(t) \/ RestoreFds(t) \/ RestoreFdsFails(t)
      PROVE  Kept
  <2>1. /\ \E ok \in FlushOutcomes : Flush(hostIndex, ok)
        /\ UNCHANGED <<acked, last_offset>> /\ committed' \subseteq committed \cup acked
    BY <1>2 DEF LastClose, Sync, RestoreFds, RestoreFdsFails
  <2> QED BY <2>1, HistoryFlush
<1>3. ASSUME NEW t \in Thread, RecordWrite(t) \/ RecordAndFlush(t) PROVE Kept
  <2> DEFINE p == PidOf[t]
             c == call[t]
             H == IndexAfter(hostIndex, physical_offsets, next_slot + 1, c.off, c.got, p)
  <2>1. /\ p \in Pid /\ c.off \in Nat /\ c.got \in Nat /\ c.len \in Nat /\ c.got <= c.len
        /\ IsIndex(Pid, H, SlotAfter(hostIndex, next_slot, c.off, p))
    BY <1>3, RecordType DEF HistoryInv, GotAtMostLen, RecordWrite, RecordAndFlush, Appended
  <2>2. /\ committed' = committed
        /\ acked' = acked \/ (acked' = acked \cup Written(p, c.off, c.got)
                                /\ last_offset' = MaxOf(last_offset, c.off + c.len))
        /\ last_offset' = last_offset \/ last_offset' = MaxOf(last_offset, c.off + c.len)
    BY <1>3 DEF RecordWrite, RecordAndFlush
  <2>3. \A b \in Byte : Covered(Records, b) \/ b \in Written(p, c.off, c.got)
                          => Covered(Entries(H) \cup dropping, b)
    <3> HIDE DEF p, c
    <3> QED BY <2>1, CoverRecorded DEF H
  <2>4. ~flush_failed' => /\ ~flush_failed /\ dropping \subseteq dropping'
                          /\ Records' = Entries(H) \cup dropping
    <3>1. CASE RecordWrite(t)
      BY <3>1 DEF RecordWrite, Records
    <3>2. CASE RecordAndFlush(t)
      <4>1. \E ok \in FlushOutcomes : Flush(H, ok)
        BY <3>2 DEF RecordAndFlush
      <4> HIDE DEF H, p, c
      <4> QED BY <2>1, <4>1, CoverFlushed
    <3> QED BY <1>3, <3>1, <3>2
  <2>5. \A b \in Written(p, c.off, c.got) : b \in Byte /\ b[2] < c.off + c.len
    BY <2>1 DEF Written
  <2> HIDE DEF p, c, H
  <2>6. NoWriteForgotten'
    BY <1>0, <2>2, <2>3, <2>4, <2>5 DEF HistoryInv, NoWriteForgotten
  <2>7. SyncedIsDurable'
    BY <2>2, <2>4 DEF HistoryInv, SyncedIsDurable, Covered
  <2>8. SizeCoversWrites'
    <3>1. c.off + c.len \in Nat
      BY <2>1
    <3>2. last_offset <= MaxOf(last_offset, c.off + c.len) /\ c.off + c.len <= MaxOf(last_offset, c.off + c.len)
      BY <1>0, <3>1 DEF MaxOf
    <3>3. MaxOf(last_offset, c.off + c.len) \in Nat
      BY <1>0, <3>1 DEF MaxOf
    <3>4. \A b \in acked : b[2] < last_offset /\ b[2] \in Nat
      BY <1>0 DEF HistoryInv, SizeCoversWrites
    <3>5. \A b \in Written(p, c.off, c.got) : b[2] \in Nat
      BY <2>5
    <3>6. \A b \in acked : b[2] < last_offset'
      BY <1>0, <2>2, <3>2, <3>3, <3>4
    <3>7. ASSUME NEW b \in Written(p, c.off, c.got), last_offset' = MaxOf(last_offset, c.off + c.len)
          PROVE  b[2] < last_offset'
      BY <2>5, <3>1, <3>2, <3>3, <3>5, <3>7
    <3> QED BY <2>2, <3>6, <3>7 DEF SizeCoversWrites
  <2> QED BY <2>6, <2>7, <2>8
<1>4. EmptyDroppings => Kept
  BY DEF EmptyDroppings, NoWriteForgotten, SyncedIsDurable, SizeCoversWrites
<1>5. ASSUME NEW offset \in Nat, ExtendTo(offset) PROVE Kept
  <2>1. PICK p \in Pid : hostIndex' = IndexAfter(hostIndex, physical_offsets, next_slot + 1, offset, 0, p)
    BY <1>5 DEF ExtendTo
  <2>2. UNCHANGED <<dropping, acked, committed, flush_failed>> /\ last_offset' = MaxOf(last_offset, offset)
    BY <1>5 DEF ExtendTo
  <2>3. Records' = Entries(IndexAfter(hostIndex, physical_offsets, next_slot + 1, offset, 0, p)) \cup dropping
    BY <2>1, <2>2 DEF Records
  <2>4. \A b \in Byte : Covered(Records, b) => Covered(Records', b)
    BY <2>3, CoverRecorded
  <2>5. last_offset <= last_offset' /\ last_offset' \in Nat
    BY <1>0, <2>2 DEF MaxOf
  <2>6. NoWriteForgotten'
    BY <1>0, <2>2, <2>4 DEF HistoryInv, NoWriteForgotten
  <2>7. SyncedIsDurable'
    BY <2>2 DEF HistoryInv, SyncedIsDurable, Covered
  <2>8. SizeCoversWrites'
    <3>1. \A b \in acked : b[2] < last_offset /\ b[2] \in Nat
      BY <1>0 DEF HistoryInv, SizeCoversWrites
    <3> QED BY <1>0, <2>2, <2>5, <3>1 DEF SizeCoversWrites
  <2> QED BY <2>6, <2>7, <2>8
<1>6. ASSUME NEW t \in Thread, TruncContainer(t) PROVE Kept
  <2>1. PICK offset \in TruncOffsets :
          \/ offset = 0 /\ EmptyDroppings
          \/ offset > last_offset /\ ExtendTo(offset)
          \/ offset \in 1..last_offset /\ UNCHANGED <<index, data, last_offset, history>>
    BY <1>6 DEF TruncContainer
  <2> QED BY <1>4, <1>5, <2>1, RangeAssumption, HistoryFrame
<1>7. ASSUME NEW t \in Thread, TruncHandle(t) PROVE Kept
  <2> DEFINE offset == call[t].off
  <2>1. offset \in Nat
    BY StateTypes
  <2>2. /\ last_offset' = offset /\ dropping' = dropping /\ flush_failed' = flush_failed
        /\ Records' = Entries(IndexBelow(hostIndex, offset)) \cup dropping
        /\ acked' = {b \in acked : b[2] < offset}
        /\ committed' = {b \in committed : b[2] < offset}
    BY <1>7 DEF TruncHandle, Records
  <2> HIDE DEF offset
  <2>3. NoWriteForgotten'
    <3>1. \A b \in Byte : b[2] < offset /\ Covered(Records, b) => Covered(Records', b)
      BY <2>1, <2>2, CoverCut
    <3> QED BY <1>0, <2>2, <3>1 DEF HistoryInv, NoWriteForgotten
  <2>4. SyncedIsDurable' /\ SizeCoversWrites'
    BY <2>2 DEF HistoryInv, SyncedIsDurable, SizeCoversWrites, Covered
  <2> QED BY <2>3, <2>4
<1>8. CASE TruncByPath
  BY <1>4, <1>8 DEF TruncByPath
<1>9. CASE UNCHANGED vars
  BY <1>9, HistoryFrame DEF vars
<1> QED
  BY <1>1, <1>2, <1>3, <1>6, <1>7, <1>8, <1>9 DEF Next, Write, Truncate

LEMMA HistoryCorrect == Spec => [](TypeOK /\ HistoryInv)
<1>1. Init => TypeOK /\ OpensCounted /\ HistoryInv
  BY TypeInit, CountedInit, HistoryInit
<1>2. TypeOK /\ OpensCounted /\ HistoryInv /\ [Next]_vars => (TypeOK /\ OpensCounted /\ HistoryInv)'
  <2>1. TypeOK /\ HistoryInv /\ [Next]_vars => HistoryInv'
    BY GotStep, HistoryStep DEF HistoryInv
  <2> QED BY <2>1, TypeStep, CountedStep
<1> QED
  BY <1>1, <1>2, PTL DEF Spec

(* A write that returned success is described by a record, buffered or      *)
(* flushed, until a truncate removes it, unless a flush has failed: across  *)
(* merges, flushes, closes and truncates (Index::addWrite, Index::flush,    *)
(* Index::truncateHostIndex).                                               *)
THEOREM NoneForgotten == Spec => []NoWriteForgotten
<1>1. HistoryInv => NoWriteForgotten
  BY DEF HistoryInv
<1> QED
  BY <1>1, HistoryCorrect, PTL

(* The writes of a process that synced are in the index dropping, unless a  *)
(* flush has failed (WriteFile::sync).                                      *)
THEOREM SyncedCorrect == Spec => []SyncedIsDurable
<1>1. HistoryInv => SyncedIsDurable
  BY DEF HistoryInv
<1> QED
  BY <1>1, HistoryCorrect, PTL

(* The size the handle reports is past every byte it acknowledged, across   *)
(* short writes, extends and truncates (Metadata::addWrite and truncate).   *)
THEOREM SizeCorrect == Spec => []SizeCoversWrites
<1>1. HistoryInv => SizeCoversWrites
  BY DEF HistoryInv
<1> QED
  BY <1>1, HistoryCorrect, PTL

-----------------------------------------------------------------------------
(* Descriptors. *)

InWrite(t) == pc[t] \in {"found", "appended"}

WriterHasFd == \A t \in Thread : UniquePids /\ InWrite(t) => fds[PidOf[t]] > 0

LEMMA WriterFdStep ==
  ASSUME TypeOK, OpensCounted, WriterHasFd, [Next]_vars
  PROVE  WriterHasFd'
<1>0. fds \in [Pid -> Nat] /\ pc \in [Thread -> Where] /\ \A t \in Thread : PidOf[t] \in Pid
  BY PidOfThread DEF TypeOK, HandleOK, CallsOK
<1>1. ASSUME UNCHANGED fds, \A u \in Thread : InWrite(u)' => InWrite(u) PROVE WriterHasFd'
  BY <1>1 DEF WriterHasFd
<1>2. ASSUME NEW t \in Thread, AddWriter(t) PROVE WriterHasFd'
  BY <1>0, <1>2 DEF AddWriter, WriterHasFd, InWrite
<1>3. ASSUME NEW t \in Thread, RemoveWriter(t) PROVE WriterHasFd'
  <2>1. ~InWrite(t) /\ \A u \in Thread : InWrite(u)' <=> InWrite(u)
    BY <1>3 DEF RemoveWriter, InWrite
  <2>2. ASSUME NEW u \in Thread, UniquePids, InWrite(u) PROVE fds'[PidOf[u]] = fds[PidOf[u]]
    BY <1>0, <1>3, <2>1, <2>2 DEF RemoveWriter, UniquePids
  <2> QED BY <2>1, <2>2 DEF WriterHasFd
<1>4. ASSUME NEW t \in Thread, LastClose(t) PROVE WriterHasFd'
  BY <1>4 DEF LastClose, WriterHasFd, InWrite
<1>5. ASSUME NEW t \in Thread, BeginWrite(t) PROVE WriterHasFd'
  <2>1. \A u \in Thread : fds'[PidOf[u]] >= fds[PidOf[u]] /\ fds'[PidOf[u]] \in Nat
    BY <1>0, <1>5 DEF BeginWrite
  <2>2. fds'[PidOf[t]] > 0
    BY <1>0, <1>5 DEF BeginWrite
  <2>3. \A u \in Thread \ {t} : InWrite(u)' => InWrite(u)
    BY <1>0, <1>5 DEF BeginWrite, Goto, InWrite
  <2> QED BY <1>0, <2>1, <2>2, <2>3 DEF WriterHasFd
<1>6. ASSUME NEW t \in Thread, Write(t) \/ Sync(t) \/ TruncContainer(t) \/ Truncate(t) PROVE WriterHasFd'
  <2>1. UNCHANGED fds
    BY <1>6 DEF Write, AppendData, AppendFails, RecordWrite, RecordAndFlush, Sync,
       TruncContainer, Truncate, TruncHandle, RestoreFds, RestoreFdsFails, handle
  <2>2. \A u \in Thread : InWrite(u)' => InWrite(u)
    BY <1>0, <1>6 DEF Write, AppendData, AppendFails, RecordWrite, RecordAndFlush, Sync,
       TruncContainer, Truncate, TruncHandle, RestoreFds, RestoreFdsFails, Return, Goto, InWrite
  <2> QED BY <1>1, <2>1, <2>2
<1>7. CASE TruncByPath \/ UNCHANGED vars
  BY <1>1, <1>7 DEF TruncByPath, vars, handle, InWrite
<1> QED
  BY <1>2, <1>3, <1>4, <1>5, <1>6, <1>7 DEF Next

(* A process keeps its descriptor while a handle opened under its pid is    *)
(* open, and while one of its writes runs: no close by another process, and *)
(* no child writing through the handle, takes it away                       *)
(* (WriteFile::addWriter, removeWriter and the child case of write).        *)
THEOREM FdsKept == Spec => []OpenersKeepTheirFd
<1>1. Init => TypeOK /\ OpensCounted /\ WriterHasFd
  <2>1. Init => WriterHasFd
    BY DEF Init, WriterHasFd, InWrite
  <2> QED BY <2>1, TypeInit, CountedInit
<1>2. TypeOK /\ OpensCounted /\ WriterHasFd /\ [Next]_vars => (TypeOK /\ OpensCounted /\ WriterHasFd)'
  BY TypeStep, CountedStep, WriterFdStep
<1>3. TypeOK /\ OpensCounted /\ WriterHasFd => OpenersKeepTheirFd
  <2> SUFFICES ASSUME TypeOK, OpensCounted, WriterHasFd, NEW t \in Thread,
                      OpensOf(t) # {} \/ (UniquePids /\ pc[t] \in {"found", "appended"})
               PROVE  fds[PidOf[t]] > 0
    BY DEF OpenersKeepTheirFd
  <2>1. CASE OpensOf(t) # {}
    <3>1. PidOf[t] \in Pid /\ fds[PidOf[t]] \in Nat
      BY PidOfThread DEF TypeOK, HandleOK
    <3>2. OpensBy(PidOf[t]) # {} /\ OpensBy(PidOf[t]) \subseteq opens
      BY <2>1 DEF OpensOf, OpensBy
    <3>3. Cardinality(OpensBy(PidOf[t])) # 0 /\ Cardinality(OpensBy(PidOf[t])) \in Nat
      BY <3>2, FS_Subset, FS_EmptySet, FS_CardinalityType DEF OpensCounted
    <3>4. Cardinality(OpensBy(PidOf[t])) <= fds[PidOf[t]]
      BY <3>1 DEF OpensCounted
    <3> QED BY <3>1, <3>3, <3>4
  <2>2. CASE UniquePids /\ pc[t] \in {"found", "appended"}
    BY <2>2 DEF WriterHasFd, InWrite
  <2> QED BY <2>1, <2>2
<1> QED
  BY <1>1, <1>2, <1>3, PTL DEF Spec

-----------------------------------------------------------------------------
(* PatternDetect.                                                          *)

(* Every element ends at or before the demarcation point.  It follows from  *)
(* StackEncodesPrefix, but only by induction on the stack; as an invariant  *)
(* of its own it needs none.                                                *)
EndsBefore == \A j \in 1..Len(pat_stack) : EndOf(j) <= iter

(* build_ps_init's walk: it stands where the last element it served ends.   *)
WalkInv ==
  /\ Len(inits) <= Len(pat_stack)
  /\ it_2 = (IF Len(inits) = 0 THEN 0 ELSE EndOf(Len(inits)))
  /\ \A j \in 1..Len(inits) : inits[j] = vals[starts[j] + 1]
  /\ phase = "scan" => Len(inits) = 0
  /\ phase # "scan" => iter = Len(delta)
  /\ phase = "done" => Len(inits) = Len(pat_stack)

IInv == DetectTypeOK /\ StackEncodesPrefix /\ EndsBefore /\ WalkInv

(* Arithmetic of repetitions.                                               *)
LEMMA Product == \A a, b \in Nat : a * b \in Nat
  OBVIOUS

LEMMA NextTurn == \A a, b \in Nat : a * (b + 1) = a * b + a /\ (b + 1) * a = a * b + a
  OBVIOUS

LEMMA AndTurns == \A a, c, r \in Nat : (c + r) * a = a * c + r * a
  OBVIOUS

(* Turn q of b turns of length a, and a place s in it, lie within a * b.    *)
LEMMA WithinTurns ==
  ASSUME NEW a \in Nat, NEW b \in Nat, NEW q \in 0..(b - 1), NEW s \in 1..a
  PROVE  q * a + s \in 1..(a * b)
<1>1. q * a \in Nat /\ a * b \in Nat
  BY Product
<1>2. (q + 1) * a <= a * b
  <2>1. PICK d \in Nat : b = (q + 1) + d
    <3>1. b - (q + 1) \in Nat
      OBVIOUS
    <3> QED BY <3>1
  <2>2. a * b = a * (q + 1) + a * d
    BY <2>1
  <2>3. a * d \in Nat /\ a * (q + 1) = (q + 1) * a /\ (q + 1) * a \in Nat
    BY <2>1
  <2> QED BY <2>2, <2>3
<1>3. (q + 1) * a = q * a + a
  BY NextTurn
<1> QED
  BY <1>1, <1>2, <1>3

LEMMA TopOfStack ==
  ASSUME DetectTypeOK
  PROVE  /\ Len(pat_stack) \in Nat \ {0} /\ Len(starts) = Len(pat_stack)
         /\ Top \in Elem /\ Top.seq \in Seq(Int) /\ Top.cnt \in Nat \ {0}
         /\ Len(Top.seq) \in Nat \ {0}
         /\ Width(Top) \in Nat
         /\ \A j \in 1..Len(pat_stack) :
              /\ pat_stack[j] \in Elem /\ starts[j] \in Nat
              /\ Len(pat_stack[j].seq) \in Nat \ {0} /\ pat_stack[j].cnt \in Nat \ {0}
              /\ Width(pat_stack[j]) \in Nat /\ EndOf(j) \in Nat
<1>1. pat_stack \in Seq(Elem) /\ pat_stack # << >> /\ Len(starts) = Len(pat_stack) /\ starts \in Seq(Nat)
  BY DEF DetectTypeOK
<1>2. Len(pat_stack) \in Nat \ {0}
  BY <1>1, EmptySeq, LenProperties
<1>3. ASSUME NEW j \in 1..Len(pat_stack)
      PROVE  /\ pat_stack[j] \in Elem /\ starts[j] \in Nat
             /\ pat_stack[j].seq \in Seq(Int)
             /\ Len(pat_stack[j].seq) \in Nat \ {0} /\ pat_stack[j].cnt \in Nat \ {0}
             /\ Width(pat_stack[j]) \in Nat /\ EndOf(j) \in Nat
  <2>1. pat_stack[j] \in Elem /\ starts[j] \in Nat
    BY <1>1, <1>3, ElementOfSeq
  <2>2. pat_stack[j].seq \in Seq(Int) /\ pat_stack[j].seq # << >> /\ pat_stack[j].cnt \in Nat \ {0}
    BY <1>3, <2>1 DEF Elem, DetectTypeOK
  <2>3. Len(pat_stack[j].seq) \in Nat \ {0}
    BY <2>2, EmptySeq, LenProperties
  <2>4. Width(pat_stack[j]) \in Nat
    BY <2>2, <2>3, Product DEF Width
  <2> QED BY <2>1, <2>2, <2>3, <2>4 DEF EndOf
<1>4. Len(pat_stack) \in 1..Len(pat_stack)
  BY <1>2
<1> QED
  BY <1>1, <1>2, <1>3, <1>4 DEF Top

(* An element stands on the differences after the first st ones. *)
Stands(st, e) ==
  \A q \in 0..(e.cnt - 1) : \A s \in 1..Len(e.seq) :
    delta[st + q * Len(e.seq) + s] = e.seq[s]

Sound == DetectTypeOK /\ StackEncodesPrefix /\ EndsBefore

Good(e) == e \in Elem /\ e.seq # << >> /\ e.cnt # 0

LEMMA GoodElem ==
  ASSUME NEW e, Good(e)
  PROVE  /\ e.seq \in Seq(Int) /\ e.cnt \in Nat \ {0} /\ Len(e.seq) \in Nat \ {0}
         /\ Width(e) \in Nat
<1>1. e.seq \in Seq(Int) /\ e.cnt \in Nat \ {0}
  BY DEF Good, Elem
<1>2. Len(e.seq) \in Nat \ {0}
  BY <1>1, EmptySeq DEF Good
<1> QED
  BY <1>1, <1>2, Product DEF Width

(* The stack after a step that replaces its top: the new top stands on the  *)
(* differences between the start of the old one and the new point.          *)
LEMMA Replaced ==
  ASSUME Sound, NEW n, n = Len(pat_stack), NEW e, Good(e),
         pat_stack' = Replace(e), starts' = starts,
         UNCHANGED <<vals, delta, inits, it_2, phase>>,
         iter' \in iter..Len(delta),
         starts[Len(pat_stack)] + Width(e) = iter',
         Stands(starts[Len(pat_stack)], e)
  PROVE  Sound'
<1>1. n \in Nat \ {0} /\ Len(starts) = n /\ n \in 1..n
  BY TopOfStack DEF Sound
<1>2. /\ pat_stack' \in Seq(Elem) /\ Len(pat_stack') = n
      /\ \A j \in 1..n : pat_stack'[j] = IF j = n THEN e ELSE pat_stack[j]
  <2>1. pat_stack \in Seq(Elem) /\ e \in Elem /\ n \in 1..Len(pat_stack)
    BY <1>1 DEF Sound, DetectTypeOK, Good
  <2> QED BY <2>1, ExceptSeq DEF Replace
<1>3. pat_stack'[n] = e /\ \A j \in 1..n : j # n => pat_stack'[j] = pat_stack[j]
  BY <1>1, <1>2
<1>4. DetectTypeOK'
  <2>1. iter' \in 1..Len(delta)
    BY DEF Sound, DetectTypeOK
  <2>2. pat_stack' # << >>
    BY <1>1, <1>2, EmptySeq
  <2>3. \A j \in 1..n : pat_stack'[j].seq # << >> /\ pat_stack'[j].cnt # 0
    BY <1>1, <1>3 DEF Sound, DetectTypeOK, Good
  <2> QED BY <1>1, <1>2, <2>1, <2>2, <2>3 DEF Sound, DetectTypeOK
<1>5. EndOf(n)' = iter' /\ \A j \in 1..n : j # n => EndOf(j)' = EndOf(j)
  BY <1>1, <1>3 DEF EndOf
<1>6. StackEncodesPrefix'
  <2>1. \A j \in 1..n : Repeats(j)'
    <3>1. ASSUME NEW j \in 1..n, j # n PROVE Repeats(j)'
      <4>1. Repeats(j)
        BY <3>1 DEF Sound, StackEncodesPrefix
      <4>2. pat_stack'[j] = pat_stack[j] /\ starts'[j] = starts[j] /\ delta' = delta
        BY <1>3, <3>1
      <4> QED BY <4>1, <4>2, SMTT(30) DEF Repeats, At
    <3>2. Repeats(n)'
      BY <1>3 DEF Repeats, At, Stands
    <3> QED BY <3>1, <3>2
  <2>2. \A j \in 1..(n - 1) : EndOf(j)' = starts'[j + 1]
    BY <1>1, <1>5 DEF Sound, StackEncodesPrefix
  <2> QED BY <1>2, <1>5, <2>1, <2>2 DEF Sound, StackEncodesPrefix
<1>7. EndsBefore'
  <2>1. ASSUME NEW j \in 1..n PROVE EndOf(j)' <= iter'
    <3>1. CASE j = n
      <4>1. iter' \in Int
        BY DEF Sound, DetectTypeOK
      <4> QED BY <1>5, <3>1, <4>1
    <3>2. CASE j # n
      <4>1. EndOf(j) <= iter /\ EndOf(j) \in Nat /\ iter \in Int /\ iter' \in Int /\ iter <= iter'
        <5>1. iter \in Int /\ Len(delta) \in Int
          BY LenProperties DEF Sound, DetectTypeOK
        <5>2. iter' \in Int /\ iter <= iter'
          BY <5>1
        <5>3. EndOf(j) <= iter
          BY <1>1 DEF Sound, EndsBefore
        <5> QED BY <5>1, <5>2, <5>3, TopOfStack DEF Sound
      <4> QED BY <1>5, <3>2, <4>1
    <3> QED BY <3>1, <3>2
  <2> QED BY <1>2, <2>1 DEF EndsBefore
<1> QED
  BY <1>4, <1>6, <1>7 DEF Sound

(* The same for a step that changes the top into e and puts f above it.     *)
LEMMA Extended ==
  ASSUME Sound, NEW n, n = Len(pat_stack), NEW e, Good(e), NEW f, Good(f), NEW m \in Nat,
         pat_stack' = Append(Replace(e), f), starts' = Append(starts, m),
         UNCHANGED <<vals, delta, inits, it_2, phase>>,
         iter' \in iter..Len(delta),
         m <= iter',
         starts[Len(pat_stack)] + Width(e) = m,
         m + Width(f) = iter',
         Stands(starts[Len(pat_stack)], e),
         Stands(m, f)
  PROVE  Sound'
<1>1. n \in Nat \ {0} /\ Len(starts) = n /\ n \in 1..n
  BY TopOfStack DEF Sound
<1>2. /\ Replace(e) \in Seq(Elem) /\ Len(Replace(e)) = n
      /\ \A j \in 1..n : Replace(e)[j] = IF j = n THEN e ELSE pat_stack[j]
  <2>1. pat_stack \in Seq(Elem) /\ e \in Elem /\ n \in 1..Len(pat_stack)
    BY <1>1 DEF Sound, DetectTypeOK, Good
  <2> QED BY <2>1, ExceptSeq DEF Replace
<1>3. /\ pat_stack' \in Seq(Elem) /\ pat_stack' # << >> /\ Len(pat_stack') = n + 1
      /\ \A j \in 1..n : pat_stack'[j] = Replace(e)[j]
      /\ pat_stack'[n + 1] = f
  <2>1. Replace(e) \in Seq(Elem) /\ f \in Elem
    BY <1>2 DEF Good
  <2> HIDE DEF Replace
  <2> QED BY <1>1, <1>2, <2>1, AppendProperties
<1>4. pat_stack'[n] = e /\ \A j \in 1..n : j # n => pat_stack'[j] = pat_stack[j]
  BY <1>1, <1>2, <1>3
<1>5. /\ starts' \in Seq(Nat) /\ Len(starts') = n + 1
      /\ \A j \in 1..n : starts'[j] = starts[j]
      /\ starts'[n + 1] = m
  <2>1. starts \in Seq(Nat)
    BY DEF Sound, DetectTypeOK
  <2> QED BY <1>1, <2>1, AppendProperties
<1>6. \A j \in 1..(n + 1) : j \in 1..n \/ j = n + 1
  BY <1>1
<1>7. DetectTypeOK'
  <2>1. iter' \in 1..Len(delta)
    BY DEF Sound, DetectTypeOK
  <2>2. \A j \in 1..n : pat_stack'[j].seq # << >> /\ pat_stack'[j].cnt # 0
    BY <1>1, <1>4 DEF Sound, DetectTypeOK, Good
  <2>3. \A j \in 1..(n + 1) : pat_stack'[j].seq # << >> /\ pat_stack'[j].cnt # 0
    BY <1>3, <1>6, <2>2 DEF Good
  <2> QED BY <1>3, <1>5, <2>1, <2>3 DEF Sound, DetectTypeOK
<1>8. /\ EndOf(n)' = m /\ EndOf(n + 1)' = iter'
      /\ \A j \in 1..n : j # n => EndOf(j)' = EndOf(j)
  BY <1>1, <1>3, <1>4, <1>5 DEF EndOf
<1>9. StackEncodesPrefix'
  <2>1. \A j \in 1..(n + 1) : Repeats(j)'
    <3>1. ASSUME NEW j \in 1..n, j # n PROVE Repeats(j)'
      <4>1. Repeats(j)
        BY <3>1 DEF Sound, StackEncodesPrefix
      <4>2. pat_stack'[j] = pat_stack[j] /\ starts'[j] = starts[j] /\ delta' = delta
        BY <1>4, <1>5, <3>1
      <4> QED BY <4>1, <4>2, SMTT(30) DEF Repeats, At
    <3>2. Repeats(n)'
      <4>1. pat_stack'[n] = e /\ starts'[n] = starts[n] /\ delta' = delta
        BY <1>1, <1>4, <1>5
      <4>2. Stands(starts[n], e)
        OBVIOUS
      <4> QED BY <4>1, <4>2 DEF Repeats, At, Stands
    <3>3. Repeats(n + 1)'
      BY <1>3, <1>5 DEF Repeats, At, Stands
    <3> QED BY <1>6, <3>1, <3>2, <3>3
  <2>2. \A j \in 1..n : EndOf(j)' = starts'[j + 1]
    <3>1. ASSUME NEW j \in 1..n, j # n PROVE EndOf(j)' = starts'[j + 1]
      <4>1. j + 1 \in 1..n /\ j \in 1..(n - 1)
        BY <1>1, <3>1
      <4> QED BY <1>5, <1>8, <3>1, <4>1 DEF Sound, StackEncodesPrefix
    <3> QED BY <1>5, <1>8, <3>1
  <2>3. starts'[1] = 0
    BY <1>1, <1>5 DEF Sound, StackEncodesPrefix
  <2>4. (n + 1) - 1 = n
    BY <1>1
  <2> QED BY <1>3, <1>8, <2>1, <2>2, <2>3, <2>4 DEF StackEncodesPrefix
<1>10. EndsBefore'
  <2>1. iter' \in Int /\ iter \in Int /\ iter <= iter'
    BY DEF Sound, DetectTypeOK
  <2>2. ASSUME NEW j \in 1..n, j # n PROVE EndOf(j)' <= iter'
    <3>1. EndOf(j) <= iter /\ EndOf(j) \in Nat
      BY TopOfStack DEF Sound, EndsBefore
    <3> QED BY <1>8, <2>1, <2>2, <3>1
  <2>3. EndOf(n)' <= iter' /\ EndOf(n + 1)' <= iter'
    BY <1>8, <2>1
  <2> QED BY <1>3, <1>6, <2>2, <2>3 DEF EndsBefore
<1> QED
  BY <1>7, <1>9, <1>10 DEF Sound

(* What the scan knows of the top of the stack: it ends at the demarcation  *)
(* point and stands on the differences before it.                           *)
LEMMA TopFacts ==
  ASSUME Sound, NEW n, n = Len(pat_stack), NEW st, st = starts[n],
         NEW a, a = Len(Top.seq), NEW c, c = Top.cnt
  PROVE  /\ a \in Nat \ {0} /\ c \in Nat \ {0} /\ st \in Nat /\ n \in Nat \ {0}
         /\ Top \in Elem /\ Top.seq \in Seq(Int) /\ Top.seq # << >>
         /\ delta \in Seq(Int) /\ iter \in Nat \ {0} /\ Len(delta) \in Nat
         /\ a * c \in Nat /\ st + a * c = iter
         /\ Stands(st, Top)
<1>1. /\ n \in Nat \ {0} /\ n \in 1..n /\ Top = pat_stack[n]
      /\ Top \in Elem /\ Top.seq \in Seq(Int) /\ a \in Nat \ {0} /\ c \in Nat \ {0}
  BY TopOfStack DEF Sound, Top
<1>2. st \in Nat /\ delta \in Seq(Int) /\ iter \in Nat \ {0} /\ Len(delta) \in Nat
  <2>1. st \in Nat
    BY <1>1, TopOfStack DEF Sound
  <2>2. delta \in Seq(Int) /\ iter \in 1..Len(delta)
    BY DEF Sound, DetectTypeOK
  <2>3. Len(delta) \in Nat
    BY <2>2, LenProperties
  <2> QED BY <2>1, <2>2, <2>3
<1>3. st + a * c = iter
  BY <1>1 DEF Sound, StackEncodesPrefix, EndOf, Width
<1>4. Repeats(n)
  BY <1>1 DEF Sound, StackEncodesPrefix
<1>5. Top.seq # << >>
  BY <1>1 DEF Sound, DetectTypeOK
<1>6. Stands(st, Top)
  BY <1>1, <1>4 DEF Repeats, At, Stands
<1>7. a * c \in Nat
  BY <1>1, Product
<1> QED
  BY <1>1, <1>2, <1>3, <1>5, <1>6, <1>7

LEMMA WithCount ==
  ASSUME NEW t \in Elem, NEW m \in Nat
  PROVE  /\ [t EXCEPT !.cnt = m] \in Elem
         /\ [t EXCEPT !.cnt = m].seq = t.seq /\ [t EXCEPT !.cnt = m].cnt = m
  BY DEF Elem

LEMMA WithSeq ==
  ASSUME NEW t \in Elem, NEW q \in Seq(Int)
  PROVE  /\ [t EXCEPT !.seq = q] \in Elem
         /\ [t EXCEPT !.seq = q].seq = q /\ [t EXCEPT !.seq = q].cnt = t.cnt
  BY DEF Elem

LEMMA InWindow ==
  ASSUME DetectTypeOK, NEW k \in Windows
  PROVE  /\ k \in Nat \ {0} /\ k <= iter /\ iter \in Nat
         /\ iter + k \in iter..Len(delta) /\ Len(delta) \in Nat
<1>1. delta \in Seq(Int) /\ iter \in 1..Len(delta)
  BY DEF DetectTypeOK
<1>2. Len(delta) \in Nat
  BY <1>1, LenProperties
<1> QED
  BY <1>1, <1>2, WindowAssumption DEF Windows

(* Case 1 of pat_merge. *)
LEMMA OneMoreStep ==
  ASSUME Sound, NEW k \in Windows, equal_lw_sw(k), OneMore(k),
         pat_stack' = Replace([Top EXCEPT !.cnt = @ + 1]), UNCHANGED starts,
         iter' = iter + k, UNCHANGED <<vals, delta, inits, it_2, phase>>
  PROVE  Sound'
<1>1. PICK n, st, a, c : n = Len(pat_stack) /\ st = starts[n] /\ a = Len(Top.seq) /\ c = Top.cnt
  OBVIOUS
<1>2. /\ a \in Nat \ {0} /\ c \in Nat \ {0} /\ st \in Nat
      /\ Top \in Elem /\ Top.seq \in Seq(Int) /\ Top.seq # << >>
      /\ a * c \in Nat /\ st + a * c = iter
      /\ Stands(st, Top)
  BY <1>1, TopFacts
<1>3. a = k /\ k \in Nat \ {0} /\ iter' \in iter..Len(delta) /\ iter \in Nat
  BY <1>1, InWindow DEF OneMore, Sound
<1>4. PICK e : e = [Top EXCEPT !.cnt = @ + 1]
  OBVIOUS
<1>5. e \in Elem /\ e.seq = Top.seq /\ e.cnt = c + 1
  <2>1. c + 1 \in Nat /\ e = [Top EXCEPT !.cnt = c + 1]
    BY <1>1, <1>2, <1>4
  <2> QED BY <1>2, <2>1, WithCount
<1>6. Good(e)
  BY <1>2, <1>5 DEF Good
<1>7. st + Width(e) = iter'
  <2>1. Width(e) = a * (c + 1)
    BY <1>1, <1>5 DEF Width
  <2>2. a * (c + 1) = a * c + a
    BY <1>2, NextTurn
  <2> QED BY <1>2, <1>3, <2>1, <2>2
<1>8. \A q \in 0..(c - 1) : \A s \in 1..a : delta[st + q * a + s] = Top.seq[s]
  BY <1>1, <1>2, ZenonT(60) DEF Stands
<1>9. Stands(st, e)
  <2>1. ASSUME NEW s \in 1..a PROVE delta[st + c * a + s] = Top.seq[s]
    <3>1. (c - 1) * a = c * a - a /\ c * a = a * c
      BY <1>2
    <3>2. st + (c - 1) * a + s = iter - k + s /\ st + c * a + s = iter + s
      BY <1>2, <1>3, <3>1
    <3>3. delta[iter - k + s] = delta[iter + s]
      BY <1>3 DEF equal_lw_sw
    <3>4. delta[st + (c - 1) * a + s] = Top.seq[s]
      <4>1. c - 1 \in 0..(c - 1)
        BY <1>2
      <4> QED BY <1>8, <4>1, Zenon
    <3> QED BY <3>2, <3>3, <3>4
  <2>2. \A q \in 0..((c + 1) - 1) : q \in 0..(c - 1) \/ q = c
    BY <1>2
  <2>3. ASSUME NEW q \in 0..(e.cnt - 1), NEW s \in 1..Len(e.seq)
        PROVE  delta[st + q * a + s] = e.seq[s]
    <3>1. q \in 0..((c + 1) - 1) /\ s \in 1..a /\ e.seq[s] = Top.seq[s]
      BY <1>1, <1>5
    <3>2. CASE q \in 0..(c - 1)
      BY <1>8, <3>1, <3>2, Zenon
    <3>3. CASE q = c
      BY <2>1, <3>1, <3>3, Zenon
    <3> QED BY <2>2, <3>1, <3>2, <3>3
  <2> QED BY <1>1, <1>5, <2>3, Zenon DEF Stands
<1> QED
  BY <1>1, <1>3, <1>4, <1>6, <1>7, <1>9, Replaced

(* Case 2. *)
LEMMA DoubledStep ==
  ASSUME Sound, NEW k \in Windows, equal_lw_sw(k), Doubled(k),
         pat_stack' = Replace([Top EXCEPT !.cnt = @ * 2]), UNCHANGED starts,
         iter' = iter + k, UNCHANGED <<vals, delta, inits, it_2, phase>>
  PROVE  Sound'
<1>1. PICK n, st, a, c : n = Len(pat_stack) /\ st = starts[n] /\ a = Len(Top.seq) /\ c = Top.cnt
  OBVIOUS
<1>2. /\ a \in Nat \ {0} /\ c \in Nat \ {0} /\ st \in Nat
      /\ Top \in Elem /\ Top.seq \in Seq(Int) /\ Top.seq # << >>
      /\ a * c \in Nat /\ st + a * c = iter
      /\ Stands(st, Top)
  BY <1>1, TopFacts
<1>3. a * c = k /\ k \in Nat \ {0} /\ iter' \in iter..Len(delta) /\ iter \in Nat
  BY <1>1, InWindow DEF Doubled, Width, Sound
<1>4. PICK e : e = [Top EXCEPT !.cnt = @ * 2]
  OBVIOUS
<1>5. e \in Elem /\ e.seq = Top.seq /\ e.cnt = c * 2
  <2>1. c * 2 \in Nat /\ e = [Top EXCEPT !.cnt = c * 2]
    BY <1>1, <1>2, <1>4, SMTT(30)
  <2> QED BY <1>2, <2>1, WithCount
<1>6. Good(e)
  BY <1>2, <1>5 DEF Good
<1>7. st + Width(e) = iter'
  <2>1. Width(e) = a * (c * 2)
    BY <1>1, <1>5 DEF Width
  <2>2. a * (c * 2) = a * c + a * c
    BY <1>2
  <2> QED BY <1>2, <1>3, <2>1, <2>2
<1>8. \A q \in 0..(c - 1) : \A s \in 1..a : delta[st + q * a + s] = Top.seq[s]
  BY <1>1, <1>2, ZenonT(40) DEF Stands
<1>9. Stands(st, e)
  <2>1. ASSUME NEW q \in c..(c * 2 - 1), NEW s \in 1..a
        PROVE  delta[st + q * a + s] = Top.seq[s]
    <3>1. PICK r \in 0..(c - 1) : q = c + r
      <4>1. q - c \in 0..(c - 1)
        BY <1>2, SMTT(30)
      <4> QED BY <1>2, <4>1
    <3>2. r * a \in Nat /\ q * a = a * c + r * a
      BY <1>2, <3>1, Product, AndTurns
    <3>3. r * a + s \in 1..(a * c)
      BY <1>2, <3>1, WithinTurns
    <3>4. st + q * a + s = iter + (r * a + s) /\ st + r * a + s = iter - k + (r * a + s)
      <4>1. PICK x \in Int, y \in Int, w \in Int : x = a * c /\ y = r * a /\ w = q * a
        BY <1>2, <3>2
      <4>2. w = x + y /\ st + x = iter /\ x = k /\ iter \in Int /\ st \in Int /\ s \in Int
        BY <1>2, <1>3, <3>2, <4>1
      <4>3. st + w + s = iter + (y + s) /\ st + y + s = iter - k + (y + s)
        BY <4>2
      <4> QED BY <4>1, <4>3, Zenon
    <3>5. delta[iter - k + (r * a + s)] = delta[iter + (r * a + s)]
      BY <1>3, <3>3 DEF equal_lw_sw
    <3>6. delta[st + r * a + s] = Top.seq[s]
      BY <1>8, <3>1, Zenon
    <3> QED BY <3>4, <3>5, <3>6
  <2>2. \A q \in 0..(c * 2 - 1) : q \in 0..(c - 1) \/ q \in c..(c * 2 - 1)
    BY <1>2
  <2>3. ASSUME NEW q \in 0..(e.cnt - 1), NEW s \in 1..Len(e.seq)
        PROVE  delta[st + q * a + s] = e.seq[s]
    <3>1. q \in 0..(c * 2 - 1) /\ s \in 1..a /\ e.seq[s] = Top.seq[s]
      BY <1>1, <1>5
    <3>2. CASE q \in 0..(c - 1)
      BY <1>8, <3>1, <3>2, Zenon
    <3>3. CASE q \in c..(c * 2 - 1)
      BY <2>1, <3>1, <3>3, Zenon
    <3> QED BY <2>2, <3>1, <3>2, <3>3
  <2> QED BY <1>1, <1>5, <2>3, Zenon DEF Stands
<1> QED
  BY <1>1, <1>3, <1>4, <1>6, <1>7, <1>9, Replaced

(* Case 3. *)
LEMMA SplitOffStep ==
  ASSUME Sound, NEW k \in Windows, equal_lw_sw(k), SplitOff(k),
         pat_stack' = Append(Replace(Popped(Top, k)), [seq |-> Ahead(k), cnt |-> 2]),
         starts' = Append(starts, iter - k),
         iter' = iter + k, UNCHANGED <<vals, delta, inits, it_2, phase>>
  PROVE  Sound'
<1>1. PICK n, st, a : n = Len(pat_stack) /\ st = starts[n] /\ a = Len(Top.seq)
  OBVIOUS
<1>2. /\ a \in Nat \ {0} /\ st \in Nat /\ Top.cnt = 1
      /\ Top \in Elem /\ Top.seq \in Seq(Int) /\ Top.seq # << >>
      /\ delta \in Seq(Int)
      /\ st + a = iter /\ Stands(st, Top)
  <2>1. PICK c : c = Top.cnt
    OBVIOUS
  <2>2. c = 1
    BY <2>1 DEF SplitOff
  <2>3. /\ a \in Nat \ {0} /\ st \in Nat
        /\ Top \in Elem /\ Top.seq \in Seq(Int) /\ Top.seq # << >>
        /\ delta \in Seq(Int)
        /\ st + a * c = iter /\ Stands(st, Top)
    BY <1>1, <2>1, TopFacts
  <2> QED BY <2>1, <2>2, <2>3
<1>3. /\ a > k /\ k \in Nat \ {0} /\ iter' \in iter..Len(delta) /\ iter \in Nat /\ k <= iter
      /\ Len(delta) \in Nat
  BY <1>1, InWindow DEF SplitOff, Sound
<1>4. PICK e, f, m : e = Popped(Top, k) /\ f = [seq |-> Ahead(k), cnt |-> 2] /\ m = iter - k
  OBVIOUS
<1>5. m \in Nat /\ m <= iter' /\ m = st + (a - k)
  BY <1>2, <1>3, <1>4
<1>6. /\ SubSeq(Top.seq, 1, a - k) \in Seq(Int) /\ Len(SubSeq(Top.seq, 1, a - k)) = a - k
      /\ \A i \in 1..(a - k) : SubSeq(Top.seq, 1, a - k)[i] = Top.seq[i]
  <2>1. \A i \in 1..(a - k) : Top.seq[i] \in Int
    BY <1>1, <1>2, <1>3, ElementOfSeq, SMTT(30)
  <2>2. 1 \in Int /\ a - k \in Int /\ 1 <= a - k
    <3>1. a \in Int /\ k \in Int /\ a > k
      BY <1>2, <1>3
    <3> QED BY <3>1
  <2>3. \A i \in 1..(a - k - 1 + 1) : SubSeq(Top.seq, 1, a - k)[i] = Top.seq[1 + i - 1]
    BY <2>1, <2>2, SubSeqProperties
  <2>4. /\ SubSeq(Top.seq, 1, a - k) \in Seq(Int)
        /\ Len(SubSeq(Top.seq, 1, a - k)) = IF 1 <= a - k THEN a - k - 1 + 1 ELSE 0
    BY <2>1, <2>2, SubSeqProperties
  <2> QED BY <2>2, <2>3, <2>4
<1>7. /\ e \in Elem /\ e.cnt = 1 /\ e.seq = SubSeq(Top.seq, 1, a - k)
  <2>1. e = [Top EXCEPT !.seq = SubSeq(Top.seq, 1, a - k)]
    BY <1>1, <1>4 DEF Popped
  <2> QED BY <1>2, <1>6, <2>1, WithSeq
<1>8. /\ Ahead(k) \in Seq(Int) /\ Len(Ahead(k)) = k
      /\ \A i \in 1..k : Ahead(k)[i] = delta[iter + i]
  <2>1. \A i \in (iter + 1)..(iter + k) : delta[i] \in Int
    <3>1. iter + k <= Len(delta) /\ iter \in Nat /\ k \in Nat /\ Len(delta) \in Nat
      BY <1>3
    <3>2. \A i \in (iter + 1)..(iter + k) : i \in 1..Len(delta)
      BY <3>1
    <3> QED BY <1>2, <3>2, ElementOfSeq
  <2>2. PICK lo \in Int, hi \in Int : lo = iter + 1 /\ hi = iter + k
    BY <1>3
  <2>3. \A i \in lo..hi : delta[i] \in Int
    BY <2>1, <2>2
  <2>4. Ahead(k) = SubSeq(delta, lo, hi)
    BY <2>2 DEF Ahead
  <2>5. /\ SubSeq(delta, lo, hi) \in Seq(Int)
        /\ Len(SubSeq(delta, lo, hi)) = IF lo <= hi THEN hi - lo + 1 ELSE 0
        /\ \A i \in 1..(hi - lo + 1) : SubSeq(delta, lo, hi)[i] = delta[lo + i - 1]
    BY <2>3, SubSeqProperties
  <2>6. iter \in Int /\ k \in Int /\ k > 0
    BY <1>3
  <2>7. lo <= hi /\ hi - lo + 1 = k /\ \A i \in 1..k : lo + i - 1 = iter + i
    BY <2>2, <2>6
  <2> QED BY <2>4, <2>5, <2>7
<1>9. /\ f \in Elem /\ f.cnt = 2 /\ f.seq = Ahead(k)
  BY <1>4, <1>8 DEF Elem
<1>10. Good(e) /\ Good(f)
  <2>1. Len(e.seq) = a - k /\ Len(f.seq) = k /\ a - k > 0 /\ k > 0
    <3>1. a \in Nat /\ k \in Nat \ {0} /\ a > k
      BY <1>2, <1>3
    <3>2. Len(e.seq) = a - k /\ Len(f.seq) = k
      BY <1>6, <1>7, <1>8, <1>9
    <3> QED BY <3>1, <3>2
  <2>2. \A q : Len(q) > 0 => q # << >>
    BY EmptySeq
  <2>3. e.cnt # 0 /\ f.cnt # 0
    BY <1>7, <1>9
  <2>4. e.seq # << >> /\ f.seq # << >>
    BY <2>1, <2>2
  <2> QED BY <1>7, <1>9, <2>3, <2>4, Zenon DEF Good
<1>11. st + Width(e) = m /\ m + Width(f) = iter'
  <2>1. Width(e) = (a - k) * 1 /\ Width(f) = k * 2
    BY <1>6, <1>7, <1>8, <1>9 DEF Width
  <2>2. a \in Int /\ k \in Int /\ st \in Int /\ iter \in Int /\ st + a = iter /\ iter' = iter + k /\ m = iter - k
    BY <1>2, <1>3, <1>4
  <2> QED BY <2>1, <2>2
<1>12. Stands(st, e)
  <2>1. ASSUME NEW s \in 1..(a - k) PROVE delta[st + s] = Top.seq[s]
    <3>1. 0 \in 0..(Top.cnt - 1) /\ s \in 1..a
      BY <1>2, <1>3
    <3>2. delta[st + 0 * a + s] = Top.seq[s]
      BY <1>1, <1>2, <3>1, Zenon DEF Stands
    <3>3. st + 0 * a + s = st + s
      BY <1>2, <1>3
    <3> QED BY <3>2, <3>3
  <2>2. ASSUME NEW q \in 0..(e.cnt - 1), NEW s \in 1..Len(e.seq)
        PROVE  delta[st + q * Len(e.seq) + s] = e.seq[s]
    <3>1. s \in 1..(a - k) /\ q = 0 /\ Len(e.seq) = a - k /\ e.seq[s] = Top.seq[s]
      BY <1>6, <1>7
    <3>2. st + q * Len(e.seq) + s = st + s
      BY <1>2, <1>3, <3>1
    <3> QED BY <2>1, <3>1, <3>2
  <2> QED BY <2>2 DEF Stands
<1>13. Stands(m, f)
  <2>1. ASSUME NEW s \in 1..k
        PROVE  delta[m + 0 * k + s] = Ahead(k)[s] /\ delta[m + 1 * k + s] = Ahead(k)[s]
    <3>1. m + 0 * k + s = iter - k + s /\ m + 1 * k + s = iter + s
      BY <1>3, <1>4
    <3>2. delta[iter - k + s] = delta[iter + s]
      BY DEF equal_lw_sw
    <3> QED BY <1>8, <3>1, <3>2
  <2>2. ASSUME NEW q \in 0..(f.cnt - 1), NEW s \in 1..Len(f.seq)
        PROVE  delta[m + q * Len(f.seq) + s] = f.seq[s]
    <3>1. s \in 1..k /\ Len(f.seq) = k /\ (q = 0 \/ q = 1)
      BY <1>8, <1>9
    <3> QED BY <1>9, <2>1, <3>1
  <2> QED BY <2>2 DEF Stands
<1> QED
  BY <1>1, <1>3, <1>4, <1>5, <1>10, <1>11, <1>12, <1>13, Extended

LEMMA ScanStep ==
  ASSUME Sound, Scan
  PROVE  Sound'
<1>1. PICK k \in Windows : Widest(k) /\ Merge(k) /\ iter' = iter + k
  BY DEF Scan
<1>2. equal_lw_sw(k) /\ UNCHANGED <<vals, delta, inits, it_2, phase>>
  BY <1>1 DEF Scan, Widest, Mergeable
<1>3. CASE OneMore(k) /\ pat_stack' = Replace([Top EXCEPT !.cnt = @ + 1]) /\ UNCHANGED starts
  BY <1>1, <1>2, <1>3, OneMoreStep
<1>4. CASE Doubled(k) /\ pat_stack' = Replace([Top EXCEPT !.cnt = @ * 2]) /\ UNCHANGED starts
  BY <1>1, <1>2, <1>4, DoubledStep
<1>5. CASE /\ SplitOff(k)
           /\ pat_stack' = Append(Replace(Popped(Top, k)), [seq |-> Ahead(k), cnt |-> 2])
           /\ starts' = Append(starts, iter - k)
  BY <1>1, <1>2, <1>5, SplitOffStep
<1> QED
  BY <1>1, <1>3, <1>4, <1>5 DEF Merge

(* No window merges. *)
LEMMA PushOneStep ==
  ASSUME Sound, PushOne
  PROVE  Sound'
<1>1. PICK n, st, a, c, x :
        /\ n = Len(pat_stack) /\ st = starts[n] /\ a = Len(Top.seq) /\ c = Top.cnt
        /\ x = delta[iter + 1]
  OBVIOUS
<1>2. /\ a \in Nat \ {0} /\ c \in Nat \ {0} /\ st \in Nat /\ n \in 1..n
      /\ Top \in Elem /\ Top.seq \in Seq(Int) /\ Top.seq # << >>
      /\ delta \in Seq(Int) /\ iter \in Nat \ {0} /\ Len(delta) \in Nat
      /\ a * c \in Nat /\ st + a * c = iter
      /\ Stands(st, Top)
  <2>1. /\ a \in Nat \ {0} /\ c \in Nat \ {0} /\ st \in Nat /\ n \in Nat \ {0}
        /\ Top \in Elem /\ Top.seq \in Seq(Int) /\ Top.seq # << >>
        /\ delta \in Seq(Int) /\ iter \in Nat \ {0} /\ Len(delta) \in Nat
        /\ a * c \in Nat /\ st + a * c = iter
        /\ Stands(st, Top)
    BY <1>1, TopFacts
  <2>2. n \in 1..n
    BY <2>1
  <2> QED BY <2>1, <2>2
<1>3. /\ iter' = iter + 1 /\ iter' \in iter..Len(delta) /\ x \in Int
      /\ UNCHANGED <<vals, delta, inits, it_2, phase>>
  <2>1. iter < Len(delta) /\ iter' = iter + 1 /\ UNCHANGED <<vals, delta, inits, it_2, phase>>
    BY DEF PushOne
  <2>2. iter + 1 \in 1..Len(delta) /\ iter' \in iter..Len(delta)
    BY <1>2, <2>1
  <2> QED BY <1>1, <1>2, <2>1, <2>2, ElementOfSeq
<1>4. CASE c # 1
  <2>1. /\ pat_stack' = Append(pat_stack, [seq |-> <<x>>, cnt |-> 1])
        /\ starts' = Append(starts, iter)
    BY <1>1, <1>4 DEF PushOne
  <2>2. Replace(Top) = pat_stack
    <3>1. pat_stack \in Seq(Elem) /\ Top \in Elem /\ n \in 1..Len(pat_stack)
      BY <1>1, <1>2 DEF Sound, DetectTypeOK
    <3>2. /\ [pat_stack EXCEPT ![n] = Top] \in Seq(Elem)
          /\ Len([pat_stack EXCEPT ![n] = Top]) = Len(pat_stack)
          /\ \A j \in 1..Len(pat_stack) :
               [pat_stack EXCEPT ![n] = Top][j] = IF j = n THEN Top ELSE pat_stack[j]
      BY <3>1, ExceptSeq
    <3>4. Replace(Top) = [pat_stack EXCEPT ![n] = Top]
      BY <1>1 DEF Replace
    <3>3. \A j \in 1..Len(pat_stack) : Replace(Top)[j] = pat_stack[j]
      BY <1>1, <3>2, <3>4 DEF Top
    <3> HIDE DEF Replace
    <3> QED BY <3>1, <3>2, <3>3, <3>4, SeqEqual
  <2>3. PICK f : f = [seq |-> <<x>>, cnt |-> 1]
    OBVIOUS
  <2>4. f \in Elem /\ f.seq = <<x>> /\ f.cnt = 1 /\ Len(f.seq) = 1 /\ f.seq[1] = x
    BY <1>3, <2>3 DEF Elem
  <2>5. Good(Top) /\ Good(f)
    BY <1>1, <1>2, <2>4 DEF Good
  <2>6. st + Width(Top) = iter /\ iter + Width(f) = iter' /\ iter <= iter' /\ iter \in Nat
    BY <1>1, <1>2, <1>3, <2>4 DEF Width
  <2>7. Stands(iter, f)
    <3>1. ASSUME NEW q \in 0..(f.cnt - 1), NEW s \in 1..Len(f.seq)
          PROVE  delta[iter + q * Len(f.seq) + s] = f.seq[s]
      <4>1. q = 0 /\ s = 1
        BY <2>4
      <4>2. iter + q * Len(f.seq) + s = iter + 1
        BY <1>2, <2>4, <4>1
      <4> QED BY <1>1, <2>4, <4>1, <4>2
    <3> QED BY <3>1 DEF Stands
  <2>8. pat_stack' = Append(Replace(Top), f)
    BY <2>1, <2>2, <2>3
  <2> QED BY <1>1, <1>2, <1>3, <2>1, <2>5, <2>6, <2>7, <2>8, Extended
<1>5. CASE c = 1
  <2>1. /\ pat_stack' = Replace([Top EXCEPT !.seq = Append(@, x)])
        /\ starts' = starts
    BY <1>1, <1>5 DEF PushOne
  <2>2. PICK e : e = [Top EXCEPT !.seq = Append(@, x)]
    OBVIOUS
  <2>3. /\ Append(Top.seq, x) \in Seq(Int) /\ Append(Top.seq, x) # << >>
        /\ Len(Append(Top.seq, x)) = a + 1
        /\ \A i \in 1..a : Append(Top.seq, x)[i] = Top.seq[i]
        /\ Append(Top.seq, x)[a + 1] = x
    <3>1. PICK q \in Seq(Int) : q = Top.seq /\ Len(q) = a
      BY <1>1, <1>2
    <3>2. /\ Append(q, x) \in Seq(Int) /\ Append(q, x) # << >>
          /\ Len(Append(q, x)) = Len(q) + 1
          /\ \A i \in 1..Len(q) : Append(q, x)[i] = q[i]
          /\ Append(q, x)[Len(q) + 1] = x
      BY <1>3, AppendProperties
    <3> QED BY <3>1, <3>2
  <2>4. e \in Elem /\ e.seq = Append(Top.seq, x) /\ e.cnt = 1
    <3>1. e = [Top EXCEPT !.seq = Append(Top.seq, x)]
      BY <2>2
    <3> QED BY <1>1, <1>2, <1>5, <2>3, <3>1, WithSeq
  <2>5. Good(e)
    BY <2>3, <2>4 DEF Good
  <2>6. st + Width(e) = iter'
    <3>1. Width(e) = (a + 1) * 1
      BY <2>3, <2>4 DEF Width
    <3>2. a \in Int /\ st \in Int /\ st + a = iter /\ iter' = iter + 1
      BY <1>2, <1>3, <1>5
    <3> QED BY <3>1, <3>2
  <2>7. Stands(st, e)
    <3>1. ASSUME NEW s \in 1..(a + 1) PROVE delta[st + s] = Append(Top.seq, x)[s]
      <4>1. CASE s = a + 1
        <5>1. st + s = iter + 1
          BY <1>2, <1>5, <4>1
        <5> QED BY <1>1, <2>3, <4>1, <5>1
      <4>2. CASE s # a + 1
        <5>1. s \in 1..a /\ 0 \in 0..(Top.cnt - 1)
          <6>1. a \in Nat /\ Top.cnt = 1
            BY <1>1, <1>2, <1>5
          <6> QED BY <4>2, <6>1
        <5>2. delta[st + 0 * a + s] = Top.seq[s]
          BY <1>1, <1>2, <5>1, Zenon DEF Stands
        <5>3. st + 0 * a + s = st + s
          BY <1>2, <5>1
        <5> QED BY <2>3, <5>1, <5>2, <5>3
      <4> QED BY <4>1, <4>2
    <3>2. ASSUME NEW q \in 0..(e.cnt - 1), NEW s \in 1..Len(e.seq)
          PROVE  delta[st + q * Len(e.seq) + s] = e.seq[s]
      <4>1. q = 0 /\ s \in 1..(a + 1) /\ Len(e.seq) = a + 1
        BY <2>3, <2>4
      <4>2. st + q * Len(e.seq) + s = st + s
        BY <1>2, <4>1
      <4> QED BY <2>4, <3>1, <4>1, <4>2
    <3> QED BY <3>2 DEF Stands
  <2> QED BY <1>1, <1>3, <2>1, <2>2, <2>5, <2>6, <2>7, Replaced
<1> QED
  BY <1>4, <1>5

-----------------------------------------------------------------------------
(* The walk of build_ps_init has not begun while the scan runs. *)
LEMMA NotYetWalking ==
  ASSUME DetectTypeOK', WalkInv, phase = "scan", UNCHANGED <<vals, inits, it_2, phase>>
  PROVE  WalkInv'
<1>1. Len(inits) = 0 /\ it_2 = 0
  BY DEF WalkInv
<1>2. Len(pat_stack') \in Nat
  BY LenProperties DEF DetectTypeOK
<1> QED
  BY <1>1, <1>2 DEF WalkInv

LEMMA EndScanStep ==
  ASSUME IInv, EndScan
  PROVE  IInv'
<1>1. /\ DetectTypeOK' /\ StackEncodesPrefix' /\ EndsBefore'
  BY DEF IInv, EndScan, DetectTypeOK, StackEncodesPrefix, EndsBefore, EndOf, Width, Repeats, At
<1>2. WalkInv'
  BY DEF IInv, EndScan, WalkInv, EndOf, Width
<1> QED
  BY <1>1, <1>2 DEF IInv

(* The walk never reaches the end of the values, so the test in its loop    *)
(* never stops it, and never lets it past.                                  *)
LEMMA WithinValues ==
  ASSUME IInv, phase = "init"
  PROVE  it_2 < Len(vals)
<1>1. Len(vals) = Len(delta) + 1 /\ Len(delta) \in Nat
  <2>1. delta \in Seq(Int)
    BY DEF IInv, DetectTypeOK
  <2> QED BY <2>1, LenProperties DEF IInv, DetectTypeOK
<1>2. iter = Len(delta)
  BY DEF IInv, WalkInv
<1>3. Len(inits) \in Nat /\ Len(pat_stack) \in Nat /\ Len(inits) <= Len(pat_stack)
  <2>1. inits \in Seq(Int) /\ Len(inits) <= Len(pat_stack)
    BY DEF IInv, DetectTypeOK, WalkInv
  <2> QED BY <2>1, LenProperties, TopOfStack DEF IInv
<1>4. CASE Len(inits) = 0
  <2>1. it_2 = 0
    BY <1>4 DEF IInv, WalkInv
  <2> QED BY <1>1, <2>1
<1>5. CASE Len(inits) # 0
  <2>1. Len(inits) \in 1..Len(pat_stack)
    BY <1>3, <1>5
  <2>2. it_2 <= iter
    BY <1>5, <2>1 DEF IInv, WalkInv, EndsBefore
  <2>3. it_2 \in Nat
    BY DEF IInv, DetectTypeOK
  <2> QED BY <1>1, <1>2, <2>2, <2>3
<1> QED
  BY <1>4, <1>5

(* The walk over the stack leaves it, and what it encodes, alone.           *)
LEMMA StackKept ==
  ASSUME StackEncodesPrefix, EndsBefore,
         UNCHANGED <<delta, iter, pat_stack, starts>>
  PROVE  StackEncodesPrefix' /\ EndsBefore'
<1>1. UNCHANGED delta /\ UNCHANGED iter /\ UNCHANGED pat_stack /\ UNCHANGED starts
  OBVIOUS
<1>2. EndsBefore'
  BY <1>1 DEF EndsBefore, EndOf, Width
<1>3. StackEncodesPrefix'
  BY <1>1 DEF StackEncodesPrefix, EndOf, Width, Repeats, At
<1> QED BY <1>2, <1>3

LEMMA AssignInitStep ==
  ASSUME IInv, AssignInit
  PROVE  IInv'
<1>1. PICK n, m : n = Len(pat_stack) /\ m = Len(inits)
  OBVIOUS
<1>2. /\ n \in Nat \ {0} /\ m \in Nat /\ m < n /\ inits \in Seq(Int)
      /\ it_2 \in Nat /\ vals \in Seq(Int) /\ Len(vals) \in Nat
      /\ inits' = Append(inits, vals[it_2 + 1])
      /\ it_2' = it_2 + Width(pat_stack[m + 1])
      /\ UNCHANGED <<vals, delta, iter, pat_stack, phase, starts>>
  <2>1. inits \in Seq(Int) /\ vals \in Seq(Int) /\ it_2 \in Nat
    BY DEF IInv, DetectTypeOK
  <2>2. n \in Nat \ {0}
    BY <1>1, TopOfStack DEF IInv
  <2> QED BY <1>1, <2>1, <2>2, LenProperties DEF AssignInit
<1>3. vals[it_2 + 1] \in Int
  <2>1. it_2 < Len(vals)
    BY WithinValues DEF AssignInit
  <2>2. it_2 + 1 \in 1..Len(vals)
    BY <1>2, <2>1
  <2> QED BY <1>2, <2>2, ElementOfSeq
<1>4. /\ inits' \in Seq(Int) /\ Len(inits') = m + 1
      /\ \A j \in 1..m : inits'[j] = inits[j]
      /\ inits'[m + 1] = vals[it_2 + 1]
  BY <1>1, <1>2, <1>3, AppendProperties
<1>5. m + 1 \in 1..n /\ Width(pat_stack[m + 1]) \in Nat /\ starts[m + 1] \in Nat
  <2>1. m + 1 \in 1..n
    BY <1>2
  <2> QED BY <1>1, <2>1, TopOfStack DEF IInv
<1>6. it_2 = starts[m + 1]
  <2>1. CASE m = 0
    BY <1>1, <2>1 DEF IInv, WalkInv, StackEncodesPrefix
  <2>2. CASE m # 0
    <3>1. m \in 1..(n - 1)
      BY <1>2, <2>2
    <3> QED BY <1>1, <2>2, <3>1 DEF IInv, WalkInv, StackEncodesPrefix
  <2> QED BY <2>1, <2>2
<1>7. it_2' = EndOf(m + 1)
  BY <1>2, <1>6 DEF EndOf
<1>8. DetectTypeOK'
  <2>1. it_2' \in Nat
    BY <1>2, <1>5
  <2> QED BY <1>2, <1>4, <2>1 DEF IInv, DetectTypeOK
<1>9. StackEncodesPrefix' /\ EndsBefore'
  BY <1>2, StackKept DEF IInv
<1>10. WalkInv'
  <2>1. it_2' = (IF Len(inits') = 0 THEN 0 ELSE EndOf(Len(inits))')
    <3>1. EndOf(Len(inits))' = EndOf(m + 1)
      BY <1>2, <1>4 DEF EndOf, Width
    <3>2. m + 1 # 0
      BY <1>2
    <3> QED BY <1>4, <1>7, <3>1, <3>2
  <2>2. \A j \in 1..Len(inits') : inits'[j] = vals'[starts'[j] + 1]
    <3>1. \A j \in 1..(m + 1) : j \in 1..m \/ j = m + 1
      BY <1>2
    <3>2. \A j \in 1..m : inits[j] = vals[starts[j] + 1]
      BY <1>1 DEF IInv, WalkInv
    <3> QED BY <1>2, <1>4, <1>6, <3>1, <3>2
  <2>3. Len(inits') <= Len(pat_stack')
    BY <1>1, <1>2, <1>4
  <2>4. phase = "init" /\ iter = Len(delta)
    BY DEF AssignInit, IInv, WalkInv
  <2> QED BY <1>2, <2>1, <2>2, <2>3, <2>4 DEF WalkInv
<1> QED
  BY <1>8, <1>9, <1>10 DEF IInv

LEMMA FinishStep ==
  ASSUME IInv, Finish
  PROVE  IInv'
<1>1. DetectTypeOK' /\ StackEncodesPrefix' /\ EndsBefore'
  <2>1. DetectTypeOK'
    BY DEF IInv, Finish, DetectTypeOK
  <2>2. UNCHANGED <<delta, iter, pat_stack, starts>>
    BY DEF Finish
  <2> QED BY <2>1, <2>2, StackKept DEF IInv
<1>2. Len(inits) = Len(pat_stack)
  <2>1. it_2 < Len(vals) /\ it_2 \in Nat
    BY WithinValues DEF Finish, IInv, DetectTypeOK
  <2>2. it_2 # Len(vals)
    BY <2>1
  <2> QED BY <2>2 DEF Finish
<1>3. WalkInv'
  BY <1>2 DEF IInv, Finish, WalkInv, EndOf, Width
<1> QED
  BY <1>1, <1>3 DEF IInv

LEMMA InitOK ==
  ASSUME DetectInit
  PROVE  IInv
<1>1. vals \in Seq(Int) /\ Len(vals) >= 2 /\ Len(vals) \in Nat
  BY InputsAssumption, LenProperties DEF DetectInit
<1>2. PICK m \in Nat : m = Len(vals) - 1 /\ m >= 1
  BY <1>1
<1>3. delta \in [1..m -> Int]
  <2>1. delta = [i \in 1..m |-> vals[i + 1] - vals[i]]
    BY <1>2 DEF DetectInit, build_delta
  <2>2. \A i \in 1..m : i \in 1..Len(vals) /\ i + 1 \in 1..Len(vals)
    BY <1>1, <1>2
  <2>3. \A i \in 1..m : vals[i + 1] \in Int /\ vals[i] \in Int
    BY <1>1, <2>2, ElementOfSeq
  <2> QED BY <2>1, <2>3
<1>4. delta \in Seq(Int) /\ Len(delta) = m
  <2>1. delta \in Seq(Int)
    BY <1>2, <1>3, SeqDef
  <2>2. Len(delta) \in Nat /\ DOMAIN delta = 1..Len(delta) /\ DOMAIN delta = 1..m
    BY <1>3, <2>1, LenProperties
  <2> QED BY <1>2, <2>1, <2>2
<1>5. delta[1] \in Int
  <2>1. 1 \in 1..Len(delta)
    BY <1>2, <1>4
  <2> QED BY <1>4, <2>1, ElementOfSeq
<1>6. PICK e : e = [seq |-> <<delta[1]>>, cnt |-> 1]
  OBVIOUS
<1>7. e \in Elem /\ e.seq = <<delta[1]>> /\ e.cnt = 1 /\ Len(e.seq) = 1 /\ e.seq[1] = delta[1]
  BY <1>5, <1>6 DEF Elem
<1>8. Width(e) = 1
  BY <1>7 DEF Width
<1>9. pat_stack = <<e>> /\ starts = <<0>> /\ iter = 1 /\ inits = << >> /\ it_2 = 0 /\ phase = "scan"
  BY <1>6 DEF DetectInit
<1>10. /\ pat_stack \in Seq(Elem) /\ Len(pat_stack) = 1 /\ pat_stack[1] = e /\ pat_stack # << >>
       /\ starts \in Seq(Nat) /\ Len(starts) = 1 /\ starts[1] = 0
       /\ inits \in Seq(Int) /\ Len(inits) = 0
  BY <1>7, <1>9
<1>11. \A j \in 1..Len(pat_stack) : j = 1
  BY <1>10
<1>12. DetectTypeOK
  <2>1. Len(vals) = Len(delta) + 1 /\ iter \in 1..Len(delta)
    BY <1>1, <1>2, <1>4, <1>9
  <2>2. \A j \in 1..Len(pat_stack) : pat_stack[j].seq # << >> /\ pat_stack[j].cnt # 0
    BY <1>7, <1>10, <1>11
  <2>3. it_2 \in Nat /\ phase \in {"scan", "init", "done"} /\ Len(starts) = Len(pat_stack)
    BY <1>9, <1>10
  <2> QED BY <1>1, <1>4, <1>10, <2>1, <2>2, <2>3 DEF DetectTypeOK
<1>13. EndOf(1) = 1
  BY <1>8, <1>10 DEF EndOf
<1>14. Repeats(1)
  BY <1>7, <1>10 DEF Repeats, At
<1>15. StackEncodesPrefix /\ EndsBefore
  BY <1>9, <1>10, <1>11, <1>13, <1>14 DEF StackEncodesPrefix, EndsBefore
<1>16. WalkInv
  BY <1>9, <1>10 DEF WalkInv
<1> QED
  BY <1>12, <1>15, <1>16 DEF IInv

LEMMA NextOK ==
  ASSUME IInv, [DetectNext]_detectVars
  PROVE  IInv'
<1>1. Sound /\ WalkInv
  BY DEF IInv, Sound
<1>2. CASE Scan
  <2>1. Sound'
    BY <1>1, <1>2, ScanStep
  <2>2. WalkInv'
    BY <1>1, <1>2, <2>1, NotYetWalking DEF Scan, Sound
  <2> QED BY <2>1, <2>2 DEF IInv, Sound
<1>3. CASE PushOne
  <2>1. Sound'
    BY <1>1, <1>3, PushOneStep
  <2>2. WalkInv'
    BY <1>1, <1>3, <2>1, NotYetWalking DEF PushOne, Sound
  <2> QED BY <2>1, <2>2 DEF IInv, Sound
<1>4. CASE EndScan
  BY <1>4, EndScanStep
<1>5. CASE AssignInit
  BY <1>5, AssignInitStep
<1>6. CASE Finish
  BY <1>6, FinishStep
<1>7. CASE UNCHANGED detectVars
  BY <1>7 DEF detectVars, IInv, DetectTypeOK, StackEncodesPrefix, EndsBefore, WalkInv, EndOf, Width, Repeats, At
<1> QED
  BY <1>2, <1>3, <1>4, <1>5, <1>6, <1>7 DEF DetectNext

-----------------------------------------------------------------------------
(* The types of the state: no element of the stack ever has an empty        *)
(* sequence or the count 0, and there is always an element to merge with.   *)
THEOREM DetectTypeCorrect == DetectSpec => []DetectTypeOK
<1>1. DetectInit => IInv
  BY InitOK
<1>2. IInv /\ [DetectNext]_detectVars => IInv'
  BY NextOK
<1>3. IInv => DetectTypeOK
  BY DEF IInv
<1> QED
  BY <1>1, <1>2, <1>3, PTL DEF DetectSpec

(* Whatever the values and however wide the window, the stack encodes the   *)
(* differences consumed so far, all of them and nothing else: no sequence   *)
(* of merges, splits and pushes of build_off_pat loses or invents one.      *)
THEOREM NothingLost == DetectSpec => []StackEncodesPrefix
<1>1. DetectInit => IInv
  BY InitOK
<1>2. IInv /\ [DetectNext]_detectVars => IInv'
  BY NextOK
<1>3. IInv => StackEncodesPrefix
  BY DEF IInv
<1> QED
  BY <1>1, <1>2, <1>3, PTL DEF DetectSpec

(* The walk of build_ps_init serves every element, with the value its       *)
(* differences are counted from, and the last element ends at the last      *)
(* value: the early stop of its loop (it_2 at the end of the values) never  *)
(* leaves an element without its init.                                      *)
THEOREM InitsCorrect == DetectSpec => []EveryElemHasItsInit
<1>1. DetectInit => IInv
  BY InitOK
<1>2. IInv /\ [DetectNext]_detectVars => IInv'
  BY NextOK
<1>3. IInv => EveryElemHasItsInit
  <2>1. SUFFICES ASSUME IInv, phase = "done"
                 PROVE  /\ Len(inits) = Len(pat_stack)
                        /\ \A j \in 1..Len(pat_stack) : inits[j] = vals[starts[j] + 1]
                        /\ EndOf(Len(pat_stack)) = Len(vals) - 1
    BY DEF EveryElemHasItsInit
  <2>2. Len(inits) = Len(pat_stack) /\ \A j \in 1..Len(pat_stack) : inits[j] = vals[starts[j] + 1]
    BY <2>1 DEF IInv, WalkInv
  <2>3. EndOf(Len(pat_stack)) = Len(delta)
    BY <2>1 DEF IInv, WalkInv, StackEncodesPrefix
  <2>4. Len(vals) = Len(delta) + 1 /\ Len(delta) \in Nat
    BY <2>1, LenProperties DEF IInv, DetectTypeOK
  <2> QED BY <2>2, <2>3, <2>4
<1> QED
  BY <1>1, <1>2, <1>3, PTL DEF DetectSpec

-----------------------------------------------------------------------------
(* A set of naturals that is not empty has a least one.                     *)
LEMMA LeastNatural ==
  ASSUME NEW S \in SUBSET Nat, S # {}
  PROVE  \E m \in S : \A x \in S : m <= x
<1>1. PICK m \in S : \A x \in S : ~(<<x, m>> \in OpToRel(<, Nat))
  BY WFMin, NatLessThanWellFounded
<1>2. ASSUME NEW x \in S, ~(m <= x) PROVE FALSE
  <2>1. x \in Nat /\ m \in Nat /\ x < m
    BY <1>2
  <2>2. <<x, m>> \in OpToRel(<, Nat)
    BY <2>1 DEF OpToRel
  <2> QED BY <1>1, <2>2
<1> QED BY <1>2

(* Decoding.  The values of an element are those of a recursive function:   *)
(* there is one for every number of steps, or there were a least without.   *)
NextValue(e, y, r) == y + e.seq[((r - 1) % Len(e.seq)) + 1]

Values(f, n, e, first) == f = [r \in 0..n |-> IF r = 0 THEN first ELSE NextValue(e, f[r - 1], r)]

LEMMA ValuesAt ==
  ASSUME NEW f, NEW n \in Nat, NEW e, NEW first, Values(f, n, e, first)
  PROVE  \A r \in 0..n : f[r] = IF r = 0 THEN first ELSE NextValue(e, f[r - 1], r)
<1> DEFINE h(r) == IF r = 0 THEN first ELSE NextValue(e, f[r - 1], r)
<1>1. f = [r \in 0..n |-> h(r)]
  BY DEF Values
<1> HIDE DEF h
<1>2. \A r \in 0..n : f[r] = h(r)
  BY <1>1
<1> QED BY <1>2 DEF h

LEMMA ValuesExist ==
  ASSUME NEW e, NEW first, NEW n \in Nat
  PROVE  \E f : Values(f, n, e, first)
<1> DEFINE Bad == {m \in Nat : ~\E f : Values(f, m, e, first)}
<1> SUFFICES ASSUME Bad # {} PROVE FALSE
  OBVIOUS
<1>1. PICK m \in Bad : \A x \in Bad : m <= x
  <2>1. Bad \in SUBSET Nat
    OBVIOUS
  <2> HIDE DEF Bad
  <2> QED BY <2>1, LeastNatural
<1>2. m # 0
  <2> DEFINE f == [r \in 0..0 |-> first]
  <2>1. f = [r \in 0..0 |-> IF r = 0 THEN first ELSE NextValue(e, f[r - 1], r)]
    OBVIOUS
  <2>2. Values(f, 0, e, first)
    BY <2>1 DEF Values
  <2> QED BY <2>2
<1>3. m - 1 \in Nat /\ m - 1 \notin Bad
  BY <1>1, <1>2
<1>4. PICK f : Values(f, m - 1, e, first)
  BY <1>3
<1> DEFINE g == [r \in 0..m |-> IF r = m THEN NextValue(e, f[m - 1], m) ELSE f[r]]
<1>5. \A r \in 0..(m - 1) : f[r] = IF r = 0 THEN first ELSE NextValue(e, f[r - 1], r)
  BY <1>3, <1>4, ValuesAt
<1>6. \A r \in 0..m : g[r] = IF r = 0 THEN first ELSE NextValue(e, g[r - 1], r)
  <2> TAKE r \in 0..m
  <2>1. CASE r = m
    <3>1. g[r] = NextValue(e, f[m - 1], m) /\ m - 1 \in 0..m /\ m - 1 # m
      BY <1>1, <1>2, <2>1
    <3>2. g[m - 1] = f[m - 1]
      BY <3>1
    <3> QED BY <1>2, <2>1, <3>1, <3>2
  <2>2. CASE r # m /\ r # 0
    <3>1. r \in 0..(m - 1) /\ r - 1 \in 0..m /\ r - 1 # m
      BY <1>1, <2>2
    <3>2. g[r] = f[r] /\ g[r - 1] = f[r - 1]
      BY <2>2, <3>1
    <3> QED BY <1>5, <2>2, <3>1, <3>2
  <2>3. CASE r # m /\ r = 0
    <3>1. g[0] = f[0] /\ 0 \in 0..(m - 1)
      BY <1>1, <1>2, <2>3
    <3> QED BY <1>5, <2>3, <3>1
  <2> QED BY <2>1, <2>2, <2>3
<1>7. g = [r \in 0..m |-> g[r]]
  OBVIOUS
<1> HIDE DEF g
<1>8. Values(g, m, e, first)
  BY <1>6, <1>7 DEF Values
<1> QED BY <1>1, <1>8

LEMMA DecodedValues ==
  ASSUME NEW e, NEW first, Width(e) \in Nat
  PROVE  /\ Decoded(e, first)[0] = first
         /\ \A r \in 1..Width(e) : Decoded(e, first)[r] = NextValue(e, Decoded(e, first)[r - 1], r)
<1> DEFINE n == Width(e)
           f == CHOOSE g : Values(g, n, e, first)
<1>1. Values(f, n, e, first)
  BY ValuesExist
<1>2. Decoded(e, first) = f
  BY DEF Decoded, Values, NextValue
<1> HIDE DEF f
<1>3. \A r \in 0..n : f[r] = IF r = 0 THEN first ELSE NextValue(e, f[r - 1], r)
  BY <1>1, ValuesAt
<1> QED BY <1>2, <1>3

(* Step r of an element stands in one of its turns.                         *)
LEMMA TurnOf ==
  ASSUME NEW a \in Nat \ {0}, NEW c \in Nat \ {0}, NEW r \in 1..(a * c)
  PROVE  \E q \in 0..(c - 1) : ((r - 1) % a) + 1 \in 1..a /\ r = q * a + (((r - 1) % a) + 1)
<1>1. PICK x \in Nat : x = r - 1
  OBVIOUS
<1>2. PICK q \in Nat, s \in 0..(a - 1) : x = q * a + s /\ s = x % a
  OBVIOUS
<1>3. q < c
  <2> SUFFICES ASSUME ~(q < c) PROVE FALSE
    OBVIOUS
  <2>1. PICK d \in Nat : q = c + d
    <3>1. q - c \in Nat
      OBVIOUS
    <3> QED BY <3>1
  <2>2. q * a = a * c + d * a
    BY <2>1, AndTurns
  <2>3. d * a \in Nat /\ a * c \in Nat
    BY Product
  <2>4. r <= a * c
    BY <2>3
  <2> QED BY <1>1, <1>2, <2>2, <2>3, <2>4
<1>4. PICK p \in Nat : p = q * a
  BY Product
<1>5. (r - 1) % a = s /\ s + 1 \in 1..a /\ x = p + s
  <2>1. (r - 1) % a = x % a
    BY <1>1
  <2>2. x % a = s /\ s \in 0..(a - 1) /\ x = p + s
    BY <1>2, <1>4
  <2> QED BY <2>1, <2>2
<1>6. q \in 0..(c - 1)
  BY <1>3
<1>7. r = q * a + (s + 1)
  BY <1>1, <1>4, <1>5
<1> QED BY <1>5, <1>6, <1>7

(* The differences are those of the values throughout.                      *)
DeltaOK == delta = build_delta(vals)

LEMMA DeltaAt ==
  ASSUME DeltaOK, DetectTypeOK, NEW i \in 1..Len(delta)
  PROVE  vals[i] \in Int /\ vals[i + 1] \in Int /\ vals[i + 1] = vals[i] + delta[i]
<1>1. PICK m \in Nat : m = Len(delta) /\ Len(vals) = m + 1
  BY LenProperties DEF DetectTypeOK
<1>2. i \in 1..(Len(vals) - 1) /\ i \in 1..Len(vals) /\ i + 1 \in 1..Len(vals)
  BY <1>1
<1>3. vals[i] \in Int /\ vals[i + 1] \in Int
  BY <1>2, ElementOfSeq DEF DetectTypeOK
<1>4. delta[i] = vals[i + 1] - vals[i]
  BY <1>2 DEF DeltaOK, build_delta
<1> QED BY <1>3, <1>4

(* Read from its init, an element of the finished stack gives back the      *)
(* values of its stretch, or there were a first that it does not.           *)
LEMMA ElementDecodes ==
  ASSUME IInv, DeltaOK, phase = "done", NEW j \in 1..Len(pat_stack)
  PROVE  \A r \in 0..Width(pat_stack[j]) :
           Decoded(pat_stack[j], inits[j])[r] = vals[starts[j] + r + 1]
<1>1. PICK e : e = pat_stack[j]
  OBVIOUS
<1>2. PICK st \in Nat, a \in Nat \ {0}, c \in Nat \ {0} :
        st = starts[j] /\ a = Len(e.seq) /\ c = e.cnt
  BY <1>1, TopOfStack DEF IInv
<1>3. PICK w \in Nat : w = Width(e) /\ w = a * c
  BY <1>2, Product DEF Width
<1>4. st + w <= Len(delta) /\ Len(delta) \in Nat /\ DetectTypeOK
  <2>1. st + w = EndOf(j)
    BY <1>1, <1>2, <1>3 DEF EndOf
  <2>2. EndOf(j) <= iter /\ iter = Len(delta) /\ DetectTypeOK
    BY DEF IInv, EndsBefore, WalkInv
  <2> QED BY <2>1, <2>2, LenProperties DEF DetectTypeOK
<1>5. inits[j] = vals[st + 1]
  BY <1>2 DEF IInv, WalkInv
<1>6. \A q \in 0..(c - 1) : \A s \in 1..a : delta[st + q * a + s] = e.seq[s]
  <2>1. Repeats(j)
    BY DEF IInv, StackEncodesPrefix
  <2> QED BY <1>1, <1>2, <2>1 DEF Repeats, At
<1> DEFINE value == Decoded(e, inits[j])
<1>7. value[0] = vals[st + 1] /\ \A r \in 1..w : value[r] = NextValue(e, value[r - 1], r)
  <2>1. Width(e) \in Nat
    BY <1>3
  <2>2. /\ Decoded(e, inits[j])[0] = inits[j]
        /\ \A r \in 1..Width(e) :
             Decoded(e, inits[j])[r] = NextValue(e, Decoded(e, inits[j])[r - 1], r)
    BY <2>1, DecodedValues, ZenonT(60)
  <2> QED BY <1>3, <1>5, <2>2
<1> HIDE DEF value
<1>8. ASSUME NEW r \in 1..w, value[r - 1] = vals[st + r]
      PROVE  value[r] = vals[st + r + 1]
  <2>1. PICK s \in 1..a, q \in 0..(c - 1) : s = ((r - 1) % a) + 1 /\ r = q * a + s
    <3>1. r \in 1..(a * c)
      BY <1>3
    <3>2. \E q \in 0..(c - 1) : ((r - 1) % a) + 1 \in 1..a /\ r = q * a + (((r - 1) % a) + 1)
      BY <3>1, TurnOf
    <3> QED BY <3>2
  <2>2. q * a \in Nat
    BY Product
  <2>3. delta[st + r] = e.seq[s]
    <3>1. st + r = st + q * a + s
      BY <2>1, <2>2
    <3> QED BY <1>6, <3>1
  <2>4. st + r \in 1..Len(delta)
    BY <1>3, <1>4
  <2>5. vals[(st + r) + 1] = vals[st + r] + delta[st + r]
    BY <1>4, <2>4, DeltaAt
  <2>6. value[r] = value[r - 1] + e.seq[s]
    BY <1>2, <1>7, <2>1 DEF NextValue
  <2> QED BY <1>8, <2>3, <2>5, <2>6
<1> DEFINE Bad == {r \in 0..w : value[r] # vals[st + r + 1]}
<1>9. Bad = {}
  <2> SUFFICES ASSUME Bad # {} PROVE FALSE
    OBVIOUS
  <2>1. PICK m \in Bad : \A x \in Bad : m <= x
    <3>1. Bad \in SUBSET Nat
      OBVIOUS
    <3> HIDE DEF Bad
    <3> QED BY <3>1, LeastNatural
  <2>2. m # 0
    BY <1>7, <2>1
  <2>3. m \in 1..w /\ m - 1 \in 0..w /\ m - 1 \notin Bad
    BY <2>1, <2>2, SMTT(30)
  <2>4. value[m - 1] = vals[st + (m - 1) + 1] /\ st + (m - 1) + 1 = st + m
    BY <2>3
  <2> QED BY <1>8, <2>1, <2>3, <2>4
<1>10. \A r \in 0..w : value[r] = vals[st + r + 1]
  BY <1>9
<1> QED BY <1>1, <1>2, <1>3, <1>10 DEF value

(* What build_off_pat returns is enough to reconstruct its input: whatever  *)
(* the values and however wide the window, reading the elements of the      *)
(* finished stack one after another, each from its init, gives back every   *)
(* value.                                                                   *)
THEOREM DecodesBack == DetectSpec => []DecodesToInput
<1>1. DetectInit => IInv /\ DeltaOK
  BY InitOK DEF DetectInit, DeltaOK
<1>2. IInv /\ DeltaOK /\ [DetectNext]_detectVars => (IInv /\ DeltaOK)'
  <2>1. IInv /\ [DetectNext]_detectVars => IInv'
    BY NextOK
  <2>2. DeltaOK /\ [DetectNext]_detectVars => DeltaOK'
    BY DEF DeltaOK, DetectNext, Scan, PushOne, EndScan, AssignInit, Finish, detectVars
  <2> QED BY <2>1, <2>2
<1>3. IInv /\ DeltaOK => DecodesToInput
  BY ElementDecodes DEF DecodesToInput
<1> QED
  BY <1>1, <1>2, <1>3, PTL DEF DetectSpec

-----------------------------------------------------------------------------
(* The global index.                                                        *)
Record == [id : Nat, ts : Nat, log : Nat, len : Nat \ {0}, phy : Nat]

Span(r) == r.log..(r.log + r.len - 1)

(* The index g is a map from offsets to the records there, no two of which  *)
(* have a byte in common.                                                   *)
IsGlobalIndex(g) == DOMAIN g \subseteq Nat /\ \A k \in DOMAIN g : g[k] \in Record /\ g[k].log = k

Disjoint(g) == \A j, k \in DOMAIN g : j < k => j + g[j].len <= k

(* It has a record for every byte of the records ws, and each of its        *)
(* records is a piece of one that none of ws is newer than on these bytes.  *)
CoversAll(g, ws) == \A w \in ws : \A q \in Span(w) : \E k \in DOMAIN g : contains(g[k], q)

PieceOf(p, w) ==
  /\ p.id = w.id /\ p.ts = w.ts /\ p.phy = w.phy + (p.log - w.log)
  /\ w.log <= p.log /\ p.log + p.len <= w.log + w.len

Newer(ws, p) == {v \in ws : v.ts > p.ts /\ \E q \in Span(p) : contains(v, q)}

Current(p, ws) == Newer(ws, p) = {} /\ \E w \in ws : PieceOf(p, w)

IndexOf(g, ws) == IsGlobalIndex(g) /\ Disjoint(g) /\ CoversAll(g, ws) /\ \A k \in DOMAIN g : Current(g[k], ws)

GlobalInv == pending \subseteq Record /\ inserted \subseteq Record /\ IndexOf(global_index, inserted)

-----------------------------------------------------------------------------
LEMMA RecordParts ==
  \A r \in Record : /\ r.id \in Nat /\ r.ts \in Nat /\ r.log \in Nat /\ r.phy \in Nat
                    /\ r.len \in Nat /\ r.len > 0 /\ r.log + r.len \in Nat /\ r.log + r.len > r.log
BY DEF Record

LEMMA Overlap ==
  ASSUME NEW e \in Record, NEW f \in Record
  PROVE  /\ overlap(e, f) <=> e.log < f.log + f.len /\ f.log < e.log + e.len
         /\ overlap(e, f) <=> overlap(f, e)
         /\ \A q \in Int : contains(e, q) /\ contains(f, q) => overlap(e, f)
         /\ contains(e, e.log) /\ overlap(e, e)
BY RecordParts DEF overlap, contains

LEMMA BytesOf ==
  ASSUME NEW r \in Record
  PROVE  \A q : q \in Span(r) <=> q \in Nat /\ contains(r, q)
BY RecordParts DEF Span, contains

LEMMA SplitParts ==
  ASSUME NEW e \in Record, NEW c \in Nat, NEW d \in Nat, e.log <= c, c < d
  PROVE  LET p == split(e, c, d)
         IN  /\ p \in Record /\ p.id = e.id /\ p.ts = e.ts /\ p.log = c /\ p.len = d - c
             /\ p.phy = e.phy + (c - e.log) /\ p.log + p.len = d
<1>1. e = [id |-> e.id, ts |-> e.ts, log |-> e.log, len |-> e.len, phy |-> e.phy]
  BY DEF Record
<1>2. PICK l, y : l = d - c /\ y = e.phy + (c - e.log)
  OBVIOUS
<1>3. split(e, c, d) = [id |-> e.id, ts |-> e.ts, log |-> c, len |-> l, phy |-> y]
  <2>1. PICK u : u = [e EXCEPT !.log = c]
    OBVIOUS
  <2>2. u = [id |-> e.id, ts |-> e.ts, log |-> c, len |-> e.len, phy |-> e.phy]
    BY <1>1, <2>1
  <2>3. PICK v : v = [u EXCEPT !.len = l]
    OBVIOUS
  <2>4. v = [id |-> e.id, ts |-> e.ts, log |-> c, len |-> l, phy |-> e.phy]
    BY <2>2, <2>3
  <2>5. split(e, c, d) = [v EXCEPT !.phy = y]
    BY <1>2, <2>1, <2>3, <2>4 DEF split
  <2> QED BY <2>4, <2>5
<1>4. l \in Nat \ {0} /\ y \in Nat /\ c + l = d
  BY <1>2, RecordParts
<1> QED BY <1>2, <1>3, <1>4, RecordParts DEF Record

(* The next point to cut at.                                                *)
IsNext(S, c, d) == d \in S /\ c < d /\ \A x \in S : c < x => d <= x

LEMMA NextExists ==
  ASSUME NEW S \in SUBSET Nat, NEW c \in Nat, NEW z \in S, c < z
  PROVE  \E d \in S : IsNext(S, c, d)
<1> DEFINE T == {x \in S : c < x}
<1>1. T \in SUBSET Nat /\ T # {}
  OBVIOUS
<1>2. PICK d \in T : \A x \in T : d <= x
  <2> HIDE DEF T
  <2> QED BY <1>1, LeastNatural
<1> QED BY <1>2 DEF IsNext

LEMMA OneNext ==
  ASSUME NEW S \in SUBSET Nat, NEW c, NEW d, NEW f, IsNext(S, c, d), IsNext(S, c, f)
  PROVE  d = f
BY DEF IsNext

(* splitEntry, when the ends of the record are among the points: a piece    *)
(* from every point in it to the next.                                      *)
LEMMA Pieces ==
  ASSUME NEW o \in Record, NEW S \in SUBSET Nat, o.log \in S, o.log + o.len \in S
  PROVE  \A p : p \in splitEntry(o, S) <=>
           \E c, d \in S : contains(o, c) /\ IsNext(S, c, d) /\ p = split(o, c, d)
<1> DEFINE cuts == {o.log, o.log + o.len} \cup {s \in S : splittable(o, s)}
           next(c) == CHOOSE d \in cuts : c < d /\ \A x \in cuts : c < x => d <= x
<1>1. /\ cuts \in SUBSET S /\ \A s \in S : s \in cuts <=> o.log <= s /\ s <= o.log + o.len
      /\ \A s \in S : s \in cuts \ {o.log + o.len} <=> contains(o, s)
  BY RecordParts DEF splittable, contains
<1>2. splitEntry(o, S) = {split(o, c, next(c)) : c \in cuts \ {o.log + o.len}}
  BY DEF splitEntry
<1>3. ASSUME NEW c \in S, contains(o, c) PROVE next(c) \in S /\ IsNext(S, c, next(c))
  <2>1. c < o.log + o.len
    BY <1>3 DEF contains
  <2>2. PICK d \in S : IsNext(S, c, d)
    BY <2>1, NextExists
  <2>3. d \in cuts /\ c < d /\ \A x \in cuts : c < x => d <= x
    <3> HIDE DEF cuts
    <3>1. c \in Nat /\ d \in Nat /\ o.log \in Nat /\ o.log + o.len \in Nat /\ o.log <= c
      BY <1>3, RecordParts DEF contains
    <3>2. c < d /\ d <= o.log + o.len /\ \A x \in S : c < x => d <= x
      BY <2>1, <2>2 DEF IsNext
    <3>3. d \in cuts
      BY <1>1, <3>1, <3>2
    <3> QED BY <1>1, <3>2, <3>3
  <2>4. next(c) \in cuts /\ c < next(c) /\ \A x \in cuts : c < x => next(c) <= x
    <3> HIDE DEF cuts
    <3> QED BY <2>3
  <2> HIDE DEF cuts, next
  <2>5. next(c) = d
    <3>1. PICK n : n = next(c)
      OBVIOUS
    <3>2. n \in cuts /\ c < n /\ \A x \in cuts : c < x => n <= x
      BY <2>4, <3>1
    <3>3. n <= d /\ d <= n /\ n \in Nat /\ d \in Nat
      BY <1>1, <2>3, <3>2
    <3> QED BY <3>1, <3>3
  <2> QED BY <2>2, <2>5
<1>4. \A c : c \in cuts \ {o.log + o.len} <=> c \in S /\ contains(o, c)
  BY <1>1
<1> HIDE DEF cuts, next
<1> QED BY <1>2, <1>3, <1>4, OneNext

-----------------------------------------------------------------------------
(* The records of g that the record e is at odds with, and what becomes of  *)
(* them: all are cut at the ends of each.                                   *)
Olds(g, e) == {k \in DOMAIN g : overlap(g[k], e)}

Involved(g, e) == {g[k] : k \in Olds(g, e)} \cup {e}

Points(g, e) == findSplits(Involved(g, e))

Starts(g, e) == {c \in Points(g, e) : \E o \in Involved(g, e) : contains(o, c)}

Resolved(g, e, h) ==
  /\ DOMAIN h = (DOMAIN g \ Olds(g, e)) \cup Starts(g, e)
  /\ \A k \in DOMAIN g \ Olds(g, e) : k \notin Starts(g, e) => h[k] = g[k]
  /\ \A k \in Starts(g, e) : \E o \in Involved(g, e) : \E d \in Points(g, e) :
       /\ contains(o, k) /\ IsNext(Points(g, e), k, d) /\ h[k] = split(o, k, d)
       /\ \A p \in Involved(g, e) : contains(p, k) => p.ts <= o.ts

LEMMA InvolvedParts ==
  ASSUME NEW g, NEW e \in Record, IsGlobalIndex(g)
  PROVE  /\ Involved(g, e) \in SUBSET Record /\ e \in Involved(g, e)
         /\ Points(g, e) \in SUBSET Nat
         /\ \A o \in Involved(g, e) : o.log \in Points(g, e) /\ o.log + o.len \in Points(g, e)
<1>1. Involved(g, e) \in SUBSET Record /\ e \in Involved(g, e)
  BY DEF Involved, Olds, IsGlobalIndex
<1>2. \A o \in Involved(g, e) : o.log \in Points(g, e) /\ o.log + o.len \in Points(g, e)
  BY DEF Points, findSplits
<1>3. ASSUME NEW s \in Points(g, e) PROVE s \in Nat
  <2>1. PICK o \in Involved(g, e) : s \in {o.log, o.log + o.len}
    BY DEF Points, findSplits
  <2> QED BY <1>1, <2>1, RecordParts
<1> QED BY <1>1, <1>2, <1>3

LEMMA InsertParts ==
  ASSUME NEW g, NEW e \in Record, IsGlobalIndex(g)
  PROVE  /\ DOMAIN Insert(g, e) = DOMAIN g \cup {e.log}
         /\ \A k \in DOMAIN g : Insert(g, e)[k] = g[k]
         /\ e.log \notin DOMAIN g => Insert(g, e)[e.log] = e
         /\ IsGlobalIndex(Insert(g, e))
<1>1. CASE e.log \in DOMAIN g
  BY <1>1 DEF Insert
<1>2. CASE e.log \notin DOMAIN g
  <2>1. Insert(g, e) = [k \in DOMAIN g \cup {e.log} |-> IF k = e.log THEN e ELSE g[k]]
    BY <1>2 DEF Insert
  <2>2. /\ DOMAIN Insert(g, e) = DOMAIN g \cup {e.log}
        /\ \A k \in DOMAIN g : Insert(g, e)[k] = g[k]
        /\ Insert(g, e)[e.log] = e
    BY <1>2, <2>1
  <2>3. e.log \in Nat
    BY RecordParts
  <2> QED BY <2>2, <2>3 DEF IsGlobalIndex
<1> QED BY <1>1, <1>2

(* The walk finds all: those that overlap e are next to one another.        *)
LEMMA WholeRange ==
  ASSUME NEW g, NEW e \in Record, IsGlobalIndex(g), Disjoint(g)
  PROVE  \A k : k \in Overlapping(Insert(g, e), e.log, e)
                  <=> k \in DOMAIN Insert(g, e) /\ overlap(Insert(g, e)[k], e)
<1> DEFINE grown == Insert(g, e)
<1>1. /\ DOMAIN grown = DOMAIN g \cup {e.log} /\ IsGlobalIndex(grown)
      /\ \A k \in DOMAIN g : grown[k] = g[k]
  BY InsertParts
<1> HIDE DEF grown
<1>2. e.log \in DOMAIN grown /\ e.log \in Nat /\ e.log + e.len \in Nat
  BY <1>1, RecordParts
<1>3. \A k \in DOMAIN grown : /\ k \in Nat /\ grown[k] \in Record /\ grown[k].log = k
                              /\ grown[k].len \in Nat /\ grown[k].len > 0
  BY <1>1, RecordParts DEF IsGlobalIndex
<1>4. \A k \in DOMAIN grown : overlap(grown[k], e) <=> k < e.log + e.len /\ e.log < k + grown[k].len
  <2> TAKE k \in DOMAIN grown
  <2>1. grown[k] \in Record /\ grown[k].log = k
    BY <1>3
  <2> QED BY <2>1, Overlap
<1>5. ASSUME NEW k \in DOMAIN grown, overlap(grown[k], e),
             NEW m \in Between(grown, e.log, k) \cup {e.log, k}
      PROVE  overlap(grown[m], e)
  <2>1. m \in DOMAIN grown
    BY <1>2 DEF Between
  <2>2. CASE m = e.log \/ m = k
    BY <1>2, <1>3, <1>4, <1>5, <2>2, RecordParts
  <2>3. CASE e.log < m /\ m < k
    <3>1. k < e.log + e.len
      BY <1>4, <1>5
    <3>2. m < e.log + e.len /\ e.log < m + grown[m].len
      BY <1>2, <1>3, <2>1, <2>3, <3>1
    <3> QED BY <1>4, <2>1, <3>2
  <2>4. CASE k < m /\ m < e.log
    <3>1. k \in DOMAIN g /\ m \in DOMAIN g /\ grown[k] = g[k]
      BY <1>1, <1>2, <1>3, <2>1, <2>4
    <3>2. k + grown[k].len <= m
      BY <2>4, <3>1 DEF Disjoint
    <3>3. e.log < k + grown[k].len
      BY <1>4, <1>5
    <3> QED BY <1>2, <1>3, <2>1, <2>4, <3>2, <3>3
  <2> QED BY <1>5, <2>2, <2>3, <2>4 DEF Between
<1> QED BY <1>5 DEF Overlapping, grown

(* Of the record e and of one other, there is a newest.                     *)
LEMMA NewestIsNewest ==
  ASSUME NEW X, X # {}, NEW e, \A x \in X : x.of \in Record,
         \A x, y \in X : (x.of = e <=> y.of = e) => x = y
  PROVE  Newest(X, e) \in X /\ \A y \in X : y.of.ts <= Newest(X, e).of.ts
<1> DEFINE Wins(x, y) == \/ x.of.ts > y.of.ts
                         \/ x.of.ts = y.of.ts /\ (x.of.log < y.of.log \/ (x.of.log = y.of.log /\ x.of = e))
<1>1. \A x \in X : x.of.ts \in Nat /\ x.of.log \in Nat
  BY RecordParts
<1>2. \E x \in X : \A y \in X \ {x} : Wins(x, y)
  <2>1. CASE \A x, y \in X : x = y
    BY <2>1
  <2>2. CASE \E x, y \in X : x # y
    <3>1. PICK x, y \in X : x.of = e /\ y.of # e
      BY <2>2
    <3>2. X = {x, y}
      BY <3>1
    <3>3. Wins(x, y) \/ Wins(y, x)
      BY <1>1, <3>1
    <3> HIDE DEF Wins
    <3> QED BY <3>2, <3>3
  <2> QED BY <2>1, <2>2
<1>3. PICK n : n = Newest(X, e)
  OBVIOUS
<1>4. n \in X /\ \A y \in X \ {n} : Wins(n, y)
  <2>1. n = CHOOSE x \in X : \A y \in X \ {x} : Wins(x, y)
    BY <1>3 DEF Newest
  <2> HIDE DEF Wins
  <2> QED BY <1>2, <2>1
<1>5. ASSUME NEW y \in X PROVE y.of.ts <= n.of.ts
  BY <1>1, <1>4
<1> QED BY <1>3, <1>4, <1>5

(* What handleOverlap goes through: the pieces, and the winners.            *)
Chunks(O, S) == UNION {{[of |-> o, piece |-> p] : p \in splitEntry(o, S)} : o \in O}

Winners(grown, range, chunks, e) ==
  [k \in (DOMAIN grown \ range) \cup {c.piece.log : c \in chunks} |->
     IF k \in {c.piece.log : c \in chunks}
     THEN Newest({c \in chunks : c.piece.log = k}, e).piece ELSE grown[k]]

LEMMA Resolves ==
  ASSUME NEW g, NEW e \in Record, IsGlobalIndex(g), Disjoint(g)
  PROVE  Resolved(g, e, handleOverlap(Insert(g, e), e.log, e))
<1> DEFINE grown == Insert(g, e)
           range == Overlapping(grown, e.log, e)
           O == Involved(g, e)
           S == Points(g, e)
           chunks == UNION {{[of |-> o, piece |-> p] : p \in splitEntry(o, S)} : o \in O}
           h == handleOverlap(grown, e.log, e)
<1>1. /\ DOMAIN grown = DOMAIN g \cup {e.log} /\ IsGlobalIndex(grown)
      /\ \A k \in DOMAIN g : grown[k] = g[k]
      /\ e.log \notin DOMAIN g => grown[e.log] = e
  BY InsertParts
<1>2. \A k : k \in range <=> k \in DOMAIN grown /\ overlap(grown[k], e)
  BY WholeRange
<1>3. e.log \in range
  <2>1. grown[e.log] \in Record /\ grown[e.log].log = e.log
    BY <1>1 DEF IsGlobalIndex
  <2>2. overlap(grown[e.log], e)
    BY <2>1, Overlap, RecordParts
  <2> QED BY <1>1, <1>2, <2>2
<1>4. O \in SUBSET Record /\ S \in SUBSET Nat /\ \A o \in O : o.log \in S /\ o.log + o.len \in S
  BY InvolvedParts
<1> HIDE DEF grown, range
<1>5. {grown[k] : k \in range} \cup {e} = O
  BY <1>1, <1>2 DEF Involved, Olds
<1>6. DOMAIN grown \ range = DOMAIN g \ Olds(g, e)
  BY <1>1, <1>2, <1>3 DEF Olds
<1>7. h = [k \in (DOMAIN grown \ range) \cup {c.piece.log : c \in chunks} |->
             IF k \in {c.piece.log : c \in chunks}
             THEN Newest({c \in chunks : c.piece.log = k}, e).piece ELSE grown[k]]
  <2> HIDE DEF chunks, O, S, h
  <2>1. S = findSplits(O)
    BY DEF Points, O, S
  <2>2. h = Winners(grown, range, Chunks({grown[k] : k \in range} \cup {e},
                                         findSplits({grown[k] : k \in range} \cup {e})), e)
    BY DEF handleOverlap, Winners, Chunks, range, h
  <2>3. h = Winners(grown, range, Chunks(O, S), e)
    BY <1>5, <2>1, <2>2
  <2> QED BY <2>3 DEF Winners, Chunks, chunks
<1> HIDE DEF O, S, h
<1>8. \A c : c \in chunks <=> \E o \in O : \E f, d \in S :
               contains(o, f) /\ IsNext(S, f, d) /\ c = [of |-> o, piece |-> split(o, f, d)]
  <2>1. \A o \in O : \A p : p \in splitEntry(o, S) <=>
          \E f, d \in S : contains(o, f) /\ IsNext(S, f, d) /\ p = split(o, f, d)
    BY <1>4, Pieces
  <2>2. \A c : c \in chunks <=> \E o \in O : \E p \in splitEntry(o, S) : c = [of |-> o, piece |-> p]
    OBVIOUS
  <2> HIDE DEF chunks
  <2> QED BY <2>1, <2>2
<1>9. ASSUME NEW o \in O, NEW f \in S, NEW d \in S, contains(o, f), IsNext(S, f, d)
      PROVE  split(o, f, d).log = f
  BY <1>4, <1>9, SplitParts DEF contains, IsNext
<1>10. \A o \in O : \A f \in S : contains(o, f) => \E d \in S : IsNext(S, f, d)
  <2> TAKE o \in O
  <2> TAKE f \in S
  <2> HAVE contains(o, f)
  <2>1. f < o.log + o.len
    BY DEF contains
  <2> QED BY <1>4, <2>1, NextExists
<1> HIDE DEF chunks
<1>11. {c.piece.log : c \in chunks} = Starts(g, e)
  <2>1. \A c \in chunks : c.piece.log \in Starts(g, e)
    BY <1>8, <1>9 DEF Starts, O, S
  <2>2. \A k \in Starts(g, e) : \E c \in chunks : c.piece.log = k
    <3> TAKE k \in Starts(g, e)
    <3>1. PICK o \in O : k \in S /\ contains(o, k)
      BY DEF Starts, O, S
    <3>2. PICK d \in S : IsNext(S, k, d)
      BY <1>10, <3>1
    <3>3. PICK c : c = [of |-> o, piece |-> split(o, k, d)]
      OBVIOUS
    <3> QED BY <1>8, <1>9, <3>1, <3>2, <3>3
  <2> QED BY <2>1, <2>2
<1>12. ASSUME NEW k \in Starts(g, e)
       PROVE  \E o \in O : \E d \in S :
                /\ contains(o, k) /\ IsNext(S, k, d) /\ h[k] = split(o, k, d)
                /\ \A p \in O : contains(p, k) => p.ts <= o.ts
  <2> DEFINE X == {c \in chunks : c.piece.log = k}
  <2>1. k \in S /\ k \in Nat
    BY <1>4 DEF Starts, S
  <2>2. \A c \in X : \E o \in O : \E d \in S :
          contains(o, k) /\ IsNext(S, k, d) /\ c = [of |-> o, piece |-> split(o, k, d)]
    BY <1>8, <1>9
  <2>3. \A o \in O : contains(o, k) => \E c \in X : c.of = o
    <3> TAKE o \in O
    <3> HAVE contains(o, k)
    <3>1. PICK d \in S : IsNext(S, k, d)
      BY <1>10, <2>1
    <3>2. PICK c : c = [of |-> o, piece |-> split(o, k, d)]
      OBVIOUS
    <3>3. c \in chunks /\ c.piece.log = k /\ c.of = o
      BY <1>8, <1>9, <2>1, <3>1, <3>2
    <3> QED BY <3>3
  <2> HIDE DEF X
  <2>4. X # {}
    BY <2>3 DEF Starts, O
  <2>5. \A x \in X : x.of \in Record
    BY <1>4, <2>2
  <2>6. ASSUME NEW x \in X, NEW y \in X, x.of = e <=> y.of = e PROVE x = y
    <3>1. PICK o \in O, d \in S : /\ contains(o, k) /\ IsNext(S, k, d)
                                  /\ x = [of |-> o, piece |-> split(o, k, d)]
      BY <2>2
    <3>2. PICK p \in O, f \in S : /\ contains(p, k) /\ IsNext(S, k, f)
                                  /\ y = [of |-> p, piece |-> split(p, k, f)]
      BY <2>2
    <3>3. d = f
      BY <1>4, <3>1, <3>2, OneNext
    <3>4. o = p
      <4>1. x.of = o /\ y.of = p
        BY <3>1, <3>2
      <4>2. CASE o = e
        BY <2>6, <4>1, <4>2
      <4>3. CASE o # e
        <5>1. p # e
          BY <2>6, <4>1, <4>3
        <5>2. PICK i \in DOMAIN g, j \in DOMAIN g : o = g[i] /\ p = g[j]
          BY <4>3, <5>1 DEF O, Involved, Olds
        <5>3. /\ i \in Nat /\ j \in Nat /\ o.log = i /\ p.log = j
              /\ o.len \in Nat /\ p.len \in Nat
          BY <5>2, RecordParts DEF IsGlobalIndex
        <5>4. i <= k /\ k < i + o.len /\ j <= k /\ k < j + p.len
          BY <3>1, <3>2, <5>3 DEF contains
        <5>5. ~(i < j) /\ ~(j < i)
          BY <2>1, <5>2, <5>3, <5>4 DEF Disjoint
        <5> QED BY <5>2, <5>3, <5>5
      <4> QED BY <4>2, <4>3
    <3> QED BY <3>1, <3>2, <3>3, <3>4
  <2>7. Newest(X, e) \in X /\ \A y \in X : y.of.ts <= Newest(X, e).of.ts
    BY <2>4, <2>5, <2>6, NewestIsNewest
  <2>8. h[k] = Newest(X, e).piece
    BY <1>7, <1>11 DEF X
  <2>9. PICK o \in O, d \in S : /\ contains(o, k) /\ IsNext(S, k, d)
                                /\ Newest(X, e) = [of |-> o, piece |-> split(o, k, d)]
    BY <2>2, <2>7
  <2>10. h[k] = split(o, k, d) /\ Newest(X, e).of = o
    BY <2>8, <2>9
  <2>11. \A p \in O : contains(p, k) => p.ts <= o.ts
    BY <2>3, <2>7, <2>10
  <2> QED BY <2>9, <2>10, <2>11
<1>13. /\ DOMAIN h = (DOMAIN g \ Olds(g, e)) \cup Starts(g, e)
       /\ \A k \in DOMAIN g \ Olds(g, e) : k \notin Starts(g, e) => h[k] = g[k]
  BY <1>1, <1>6, <1>7, <1>11
<1>14. Resolved(g, e, h)
  BY <1>12, <1>13 DEF Resolved, O, S
<1> QED BY <1>14 DEF h, grown

-----------------------------------------------------------------------------
(* What is not at odds with e has no byte in common with what is.           *)
LEMMA UntouchedApart ==
  ASSUME NEW g, NEW e \in Record, IsGlobalIndex(g), Disjoint(g),
         NEW j \in DOMAIN g \ Olds(g, e), NEW o \in Involved(g, e)
  PROVE  j + g[j].len <= o.log \/ o.log + o.len <= j
<1>1. g[j] \in Record /\ g[j].log = j /\ ~overlap(g[j], e) /\ j \in Nat /\ g[j].len \in Nat
  BY RecordParts DEF Olds, IsGlobalIndex
<1>2. CASE o = e
  <2>1. ~(j < e.log + e.len /\ e.log < j + g[j].len)
    BY <1>1, Overlap
  <2> QED BY <1>1, <1>2, <2>1, RecordParts
<1>3. CASE o # e
  <2>1. PICK m \in Olds(g, e) : o = g[m]
    BY <1>3 DEF Involved
  <2>2. m \in DOMAIN g /\ m # j /\ m \in Nat /\ o.log = m
    BY <2>1 DEF Olds, IsGlobalIndex
  <2> QED BY <1>1, <2>1, <2>2 DEF Disjoint
<1> QED BY <1>2, <1>3

(* A piece: it starts at a point and ends at the next, inside of what it is *)
(* a piece of, and what has a byte of it has all of it.                     *)
LEMMA PieceParts ==
  ASSUME NEW g, NEW e \in Record, IsGlobalIndex(g), NEW o \in Involved(g, e),
         NEW c \in Points(g, e), NEW d \in Points(g, e), contains(o, c), IsNext(Points(g, e), c, d)
  PROVE  /\ split(o, c, d) \in Record /\ split(o, c, d).log = c /\ c + split(o, c, d).len = d
         /\ split(o, c, d).id = o.id /\ split(o, c, d).ts = o.ts
         /\ split(o, c, d).phy = o.phy + (c - o.log)
         /\ c \in Nat /\ d \in Nat /\ o.log <= c /\ c < d /\ d <= o.log + o.len
         /\ \A q : q \in Span(split(o, c, d)) <=> q \in Nat /\ c <= q /\ q < d
         /\ \A p \in Involved(g, e) : \A q \in Span(split(o, c, d)) : contains(p, q) => contains(p, c)
<1>1. /\ o \in Record /\ o.log \in Nat /\ o.len \in Nat /\ o.log + o.len \in Points(g, e)
      /\ c \in Nat /\ d \in Nat
  BY InvolvedParts, RecordParts
<1>2. o.log <= c /\ c < o.log + o.len /\ c < d /\ d <= o.log + o.len
  BY <1>1 DEF contains, IsNext
<1>3. PICK p : p = split(o, c, d)
  OBVIOUS
<1>4. /\ p \in Record /\ p.id = o.id /\ p.ts = o.ts /\ p.log = c /\ p.len = d - c
      /\ p.phy = o.phy + (c - o.log) /\ p.log + p.len = d
  BY <1>1, <1>2, <1>3, SplitParts
<1>5. \A q : q \in Span(p) <=> q \in Nat /\ c <= q /\ q < d
  BY <1>1, <1>4, BytesOf DEF contains
<1>6. ASSUME NEW i \in Involved(g, e), NEW q \in Span(p), contains(i, q) PROVE contains(i, c)
  <2>1. i.log \in Points(g, e) /\ i.log \in Nat /\ i.len \in Nat /\ i.log <= q /\ q < i.log + i.len
    BY <1>6, InvolvedParts, RecordParts DEF contains
  <2>2. q \in Nat /\ c <= q /\ q < d
    BY <1>5
  <2>3. i.log <= c
    BY <1>1, <2>1, <2>2 DEF IsNext
  <2> QED BY <1>1, <2>1, <2>2, <2>3 DEF contains
<1> QED BY <1>1, <1>2, <1>3, <1>4, <1>5, <1>6

(* Every byte of what is cut is in a piece.                                 *)
LEMMA PieceAt ==
  ASSUME NEW g, NEW e \in Record, IsGlobalIndex(g), NEW o \in Involved(g, e), NEW q \in Span(o)
  PROVE  \E c \in Starts(g, e) : c <= q /\ \A d \in Points(g, e) : IsNext(Points(g, e), c, d) => q < d
<1>1. /\ o \in Record /\ o.log \in Points(g, e) /\ o.log \in Nat /\ o.len \in Nat
      /\ q \in Nat /\ o.log <= q /\ q < o.log + o.len /\ Points(g, e) \in SUBSET Nat
  BY InvolvedParts, RecordParts, BytesOf DEF contains
<1> DEFINE T == {n \in Nat : \E s \in Points(g, e) : s <= q /\ n = q - s}
<1>2. T \in SUBSET Nat /\ T # {}
  <2>1. q - o.log \in T
    BY <1>1
  <2> QED BY <2>1
<1>3. PICK n \in T : \A x \in T : n <= x
  <2> HIDE DEF T
  <2> QED BY <1>2, LeastNatural
<1>4. PICK c \in Points(g, e) : c <= q /\ n = q - c
  BY <1>3
<1>5. \A s \in Points(g, e) : s <= q => s <= c
  <2> TAKE s \in Points(g, e)
  <2> HAVE s <= q
  <2>1. s \in Nat /\ q - s \in T
    BY <1>1
  <2>2. n <= q - s
    BY <1>3, <2>1
  <2> QED BY <1>1, <1>4, <2>1, <2>2
<1>6. contains(o, c)
  BY <1>1, <1>4, <1>5 DEF contains
<1>7. \A d \in Points(g, e) : IsNext(Points(g, e), c, d) => q < d
  BY <1>1, <1>4, <1>5 DEF IsNext
<1> QED BY <1>4, <1>6, <1>7 DEF Starts

LEMMA ResolvedIsIndex ==
  ASSUME NEW g, NEW e \in Record, NEW ws \in SUBSET Record, NEW h,
         IndexOf(g, ws), Resolved(g, e, h)
  PROVE  IndexOf(h, ws \cup {e})
<1> DEFINE O == Involved(g, e)
           S == Points(g, e)
           Untouched == DOMAIN g \ Olds(g, e)
<1>1. IsGlobalIndex(g) /\ Disjoint(g) /\ CoversAll(g, ws) /\ \A k \in DOMAIN g : Current(g[k], ws)
  BY DEF IndexOf
<1>2. O \in SUBSET Record /\ e \in O /\ S \in SUBSET Nat
  BY <1>1, InvolvedParts
<1>3. /\ DOMAIN h = Untouched \cup Starts(g, e)
      /\ \A k \in Starts(g, e) : \E o \in O : \E d \in S :
           /\ k \in S /\ contains(o, k) /\ IsNext(S, k, d) /\ h[k] = split(o, k, d)
           /\ \A p \in O : contains(p, k) => p.ts <= o.ts
  BY DEF Resolved, Starts
<1>4. \A j \in Untouched : \A o \in O : j + g[j].len <= o.log \/ o.log + o.len <= j
  BY <1>1, UntouchedApart
<1>5. \A j \in Untouched : /\ g[j] \in Record /\ g[j].log = j /\ j \in Nat /\ g[j].len \in Nat /\ g[j].len > 0
  BY <1>1, RecordParts DEF IsGlobalIndex
<1>6. Untouched \cap Starts(g, e) = {}
  <2> SUFFICES ASSUME NEW j \in Untouched, j \in Starts(g, e) PROVE FALSE
    OBVIOUS
  <2>1. PICK o \in O : contains(o, j)
    BY DEF Starts
  <2>2. o.log <= j /\ j < o.log + o.len /\ o.log \in Nat /\ o.len \in Nat
    BY <1>2, <2>1, RecordParts DEF contains
  <2> QED BY <1>4, <1>5, <2>2
<1>7. \A j \in Untouched : h[j] = g[j]
  BY <1>6 DEF Resolved
<1>8. ASSUME NEW k \in Starts(g, e)
      PROVE  \E o \in O : \E d \in S :
               /\ o.log <= k /\ k < d /\ d <= o.log + o.len /\ k \in Nat /\ d \in Nat /\ IsNext(S, k, d)
               /\ h[k] \in Record /\ h[k].log = k /\ k + h[k].len = d /\ h[k].ts = o.ts
               /\ h[k].id = o.id /\ h[k].phy = o.phy + (k - o.log)
               /\ \A q : q \in Span(h[k]) <=> q \in Nat /\ k <= q /\ q < d
               /\ \A p \in O : \A q \in Span(h[k]) : contains(p, q) => p.ts <= o.ts
  <2>1. PICK o \in O, d \in S : /\ k \in S /\ contains(o, k) /\ IsNext(S, k, d) /\ h[k] = split(o, k, d)
                                /\ \A p \in O : contains(p, k) => p.ts <= o.ts
    BY <1>3
  <2> HIDE DEF O, S
  <2>2. /\ h[k] \in Record /\ h[k].log = k /\ k + h[k].len = d
        /\ h[k].id = o.id /\ h[k].ts = o.ts /\ h[k].phy = o.phy + (k - o.log)
        /\ k \in Nat /\ d \in Nat /\ o.log <= k /\ k < d /\ d <= o.log + o.len
        /\ \A q : q \in Span(h[k]) <=> q \in Nat /\ k <= q /\ q < d
        /\ \A p \in O : \A q \in Span(h[k]) : contains(p, q) => contains(p, k)
    BY <1>1, <2>1, PieceParts DEF O, S
  <2> QED BY <2>1, <2>2
<1> HIDE DEF O, S, Untouched
<1>9. IsGlobalIndex(h)
  BY <1>3, <1>5, <1>7, <1>8 DEF IsGlobalIndex
<1>10. Disjoint(h)
  <2> SUFFICES ASSUME NEW j \in DOMAIN h, NEW k \in DOMAIN h, j < k PROVE j + h[j].len <= k
    BY DEF Disjoint
  <2>1. CASE j \in Starts(g, e) /\ k \in Starts(g, e)
    <3>1. k \in S
      BY <2>1 DEF Starts, S
    <3> QED BY <1>8, <2>1, <3>1 DEF IsNext
  <2>2. CASE j \in Starts(g, e) /\ k \in Untouched
    <3>1. PICK o \in O, d \in S : o.log <= j /\ j < d /\ d <= o.log + o.len /\ j \in Nat /\ d \in Nat /\ j + h[j].len = d
      BY <1>8, <2>2
    <3>2. o.log \in Nat /\ o.len \in Nat
      BY <1>2, RecordParts
    <3> QED BY <1>4, <1>5, <2>2, <3>1, <3>2
  <2>3. CASE j \in Untouched /\ k \in Starts(g, e)
    <3>1. PICK o \in O, d \in S : o.log <= k /\ k < d /\ d <= o.log + o.len /\ k \in Nat /\ d \in Nat
      BY <1>8, <2>3
    <3>2. o.log \in Nat /\ o.len \in Nat
      BY <1>2, RecordParts
    <3> QED BY <1>4, <1>5, <1>7, <2>3, <3>1, <3>2
  <2>4. CASE j \in Untouched /\ k \in Untouched
    <3>1. j \in DOMAIN g /\ k \in DOMAIN g /\ h[j] = g[j]
      BY <1>7, <2>4 DEF Untouched
    <3> QED BY <1>1, <3>1 DEF Disjoint
  <2> QED BY <1>3, <2>1, <2>2, <2>3, <2>4
<1>11. CoversAll(h, ws \cup {e})
  <2> SUFFICES ASSUME NEW w \in ws \cup {e}, NEW q \in Span(w) PROVE \E k \in DOMAIN h : contains(h[k], q)
    BY DEF CoversAll
  <2>1. w \in Record /\ q \in Nat /\ contains(w, q)
    BY BytesOf
  <2>2. ASSUME NEW o \in O, contains(o, q) PROVE \E k \in DOMAIN h : contains(h[k], q)
    <3>1. q \in Span(o)
      BY <1>2, <2>1, <2>2, BytesOf
    <3>2. PICK k \in Starts(g, e) : k <= q /\ \A d \in S : IsNext(S, k, d) => q < d
      BY <1>1, <3>1, PieceAt DEF O, S
    <3>3. k \in DOMAIN h /\ h[k].log = k /\ q < k + h[k].len
      BY <1>3, <1>8, <3>2
    <3> QED BY <3>2, <3>3 DEF contains
  <2>3. CASE w = e
    BY <1>2, <2>1, <2>2, <2>3
  <2>4. CASE w \in ws
    <3>1. PICK k \in DOMAIN g : contains(g[k], q)
      BY <1>1, <2>4 DEF CoversAll
    <3>2. CASE k \in Olds(g, e)
      <4>1. g[k] \in O
        BY <3>2 DEF O, Involved
      <4> QED BY <2>2, <3>1, <4>1
    <3>3. CASE k \in Untouched
      BY <1>3, <1>7, <3>1, <3>3
    <3> QED BY <3>2, <3>3 DEF Untouched
  <2> QED BY <2>3, <2>4
<1>12. ASSUME NEW k \in Untouched PROVE Current(h[k], ws \cup {e})
  <2>1. PICK r : r = g[k]
    OBVIOUS
  <2>2. h[k] = r /\ r \in Record /\ k \in DOMAIN g /\ Current(r, ws) /\ ~overlap(r, e)
    BY <1>1, <1>5, <1>7, <2>1 DEF Untouched, Olds
  <2>3. \A q \in Span(r) : ~contains(e, q)
    BY <2>2, Overlap, BytesOf
  <2> QED BY <2>2, <2>3 DEF Current, Newer
<1>13. ASSUME NEW k \in Starts(g, e) PROVE Current(h[k], ws \cup {e})
  <2>1. PICK o \in O, d \in S :
          /\ o.log <= k /\ k < d /\ d <= o.log + o.len /\ k \in Nat /\ d \in Nat
          /\ h[k] \in Record /\ h[k].log = k /\ k + h[k].len = d /\ h[k].ts = o.ts
          /\ h[k].id = o.id /\ h[k].phy = o.phy + (k - o.log)
          /\ \A p \in O : \A q \in Span(h[k]) : contains(p, q) => p.ts <= o.ts
    BY <1>8
  <2>2. PICK r : r = h[k]
    OBVIOUS
  <2>3. o \in Record /\ o.log \in Nat /\ o.len \in Nat /\ o.phy \in Nat /\ o.ts \in Nat
    BY <1>2, RecordParts
  <2>4. ASSUME NEW v \in ws \cup {e}, NEW q \in Span(r), contains(v, q) PROVE v.ts <= o.ts
    <3>1. q \in Nat /\ v \in Record /\ v.ts \in Nat
      BY <2>1, <2>2, BytesOf, RecordParts
    <3>2. CASE v = e
      BY <1>2, <2>1, <2>2, <2>4, <3>2
    <3>3. CASE v \in ws
      <4>1. PICK m \in DOMAIN g : contains(g[m], q)
        BY <1>1, <2>4, <3>1, <3>3, BytesOf DEF CoversAll
      <4>2. g[m] \in Record /\ g[m].ts \in Nat /\ Current(g[m], ws)
        BY <1>1, RecordParts DEF IsGlobalIndex
      <4>3. v.ts <= g[m].ts
        <5>1. q \in Span(g[m])
          BY <3>1, <4>1, <4>2, BytesOf
        <5>2. v \notin Newer(ws, g[m])
          BY <4>2 DEF Current
        <5> QED BY <2>4, <3>1, <3>3, <4>2, <5>1, <5>2 DEF Newer
      <4>4. m \in Olds(g, e)
        <5> SUFFICES ASSUME m \in Untouched PROVE FALSE
          BY DEF Untouched
        <5>1. m + g[m].len <= o.log \/ o.log + o.len <= m
          BY <1>4
        <5>2. m <= q /\ q < m + g[m].len /\ o.log <= q /\ q < o.log + o.len
          <6>1. k <= q /\ q < d
            BY <2>1, <2>2, BytesOf DEF contains
          <6> QED BY <1>5, <2>1, <2>3, <3>1, <4>1, <6>1 DEF contains
        <5> QED BY <1>5, <2>3, <3>1, <5>1, <5>2
      <4>5. g[m] \in O
        BY <4>4 DEF O, Involved
      <4>6. g[m].ts <= o.ts
        BY <2>1, <2>2, <4>1, <4>5
      <4> QED BY <2>3, <3>1, <4>2, <4>3, <4>6
    <3> QED BY <3>2, <3>3
  <2>5. Newer(ws \cup {e}, r) = {}
    <3> SUFFICES ASSUME NEW v \in Newer(ws \cup {e}, r) PROVE FALSE
      OBVIOUS
    <3>1. v \in ws \cup {e} /\ v.ts > o.ts /\ \E q \in Span(r) : contains(v, q)
      BY <2>1, <2>2 DEF Newer
    <3> QED BY <2>3, <2>4, <3>1, RecordParts
  <2>6. \E w \in ws \cup {e} : PieceOf(o, w)
    <3>1. CASE o = e
      BY <2>3, <3>1 DEF PieceOf
    <3>2. CASE o # e
      <4>1. PICK m \in DOMAIN g : o = g[m]
        BY <3>2 DEF O, Involved, Olds
      <4> QED BY <1>1, <4>1 DEF Current
    <3> QED BY <3>1, <3>2
  <2>7. PICK w \in ws \cup {e} : PieceOf(o, w)
    BY <2>6
  <2>8. PieceOf(r, w)
    <3>1. w.log \in Nat /\ w.len \in Nat /\ w.phy \in Nat
      BY RecordParts
    <3>2. o.id = w.id /\ o.ts = w.ts /\ o.phy = w.phy + (o.log - w.log)
          /\ w.log <= o.log /\ o.log + o.len <= w.log + w.len
      BY <2>7 DEF PieceOf
    <3>3. r.log + r.len = d /\ r.log = k /\ r.phy = o.phy + (k - o.log) /\ r.id = o.id /\ r.ts = o.ts
      BY <2>1, <2>2
    <3>4. r.phy = w.phy + (k - w.log)
      BY <2>1, <2>3, <3>1, <3>2, <3>3
    <3> QED BY <2>1, <2>3, <3>1, <3>2, <3>3, <3>4 DEF PieceOf
  <2> QED BY <2>2, <2>5, <2>8 DEF Current
<1> QED BY <1>3, <1>9, <1>10, <1>11, <1>12, <1>13 DEF IndexOf

LEMMA MinIs ==
  ASSUME NEW S \in SUBSET Nat, S # {}
  PROVE  Min(S) \in S /\ \A x \in S : Min(S) <= x
<1>1. \E m \in S : \A x \in S : m <= x
  BY LeastNatural
<1> QED BY <1>1 DEF Min

LEMMA MaxIs ==
  ASSUME NEW S \in SUBSET Nat, S # {}, NEW b \in Nat, \A x \in S : x <= b
  PROVE  Max(S) \in S /\ \A x \in S : x <= Max(S)
<1> DEFINE T == {n \in Nat : \E s \in S : n = b - s}
<1>1. T \in SUBSET Nat /\ T # {}
  <2>1. PICK s \in S : TRUE
    OBVIOUS
  <2>2. b - s \in T
    BY <2>1
  <2> QED BY <2>2
<1>2. PICK n \in T : \A x \in T : n <= x
  <2> HIDE DEF T
  <2> QED BY <1>1, LeastNatural
<1>3. PICK m \in S : n = b - m
  BY <1>2
<1>4. \A s \in S : s <= m
  <2> TAKE s \in S
  <2>1. b - s \in T /\ s \in Nat /\ m \in Nat /\ b \in Nat
    OBVIOUS
  <2>2. n <= b - s
    <3> HIDE DEF T
    <3> QED BY <1>2, <2>1
  <2> HIDE DEF T
  <2> QED BY <1>3, <2>1, <2>2
<1> QED BY <1>3, <1>4 DEF Max

(* A record that is not at odds with its neighbours is with none.           *)
LEMMA NotAtOdds ==
  ASSUME NEW g, NEW e \in Record, IsGlobalIndex(g), Disjoint(g), ~AtOdds(g, e)
  PROVE  e.log \notin DOMAIN g /\ \A k \in DOMAIN g : ~overlap(g[k], e)
<1> DEFINE later == {k \in DOMAIN g : k > e.log}
           earlier == {k \in DOMAIN g : k < e.log}
<1>1. /\ e.log \notin DOMAIN g
      /\ later # {} => ~overlap(e, g[Min(later)])
      /\ earlier # {} => ~overlap(g[Max(earlier)], e)
  BY DEF AtOdds
<1>2. e.log \in Nat /\ e.len \in Nat /\ later \in SUBSET Nat /\ earlier \in SUBSET Nat
  BY RecordParts DEF IsGlobalIndex
<1>3. \A k \in DOMAIN g : g[k] \in Record /\ g[k].log = k /\ k \in Nat /\ g[k].len \in Nat /\ g[k].len > 0
  BY RecordParts DEF IsGlobalIndex
<1>4. \A k \in DOMAIN g : overlap(g[k], e) <=> k < e.log + e.len /\ e.log < k + g[k].len
  <2> TAKE k \in DOMAIN g
  <2> QED BY <1>3, Overlap
<1>5. ASSUME NEW k \in later PROVE ~overlap(g[k], e)
  <2>1. PICK m : m = Min(later)
    OBVIOUS
  <2>2. m \in later /\ m <= k
    BY <1>2, <2>1, MinIs
  <2>3. ~overlap(g[m], e)
    BY <1>1, <1>3, <2>1, <2>2, Overlap
  <2> QED BY <1>2, <1>3, <1>4, <2>2, <2>3
<1>6. ASSUME NEW k \in earlier PROVE ~overlap(g[k], e)
  <2>1. PICK m : m = Max(earlier)
    OBVIOUS
  <2>2. \A x \in earlier : x <= e.log
    BY <1>2
  <2>3. m \in earlier /\ k <= m
    <3> HIDE DEF earlier
    <3> QED BY <1>2, <2>1, <2>2, MaxIs
  <2>4. ~overlap(g[m], e)
    BY <1>1, <2>1
  <2>5. m + g[m].len <= e.log
    BY <1>2, <1>3, <1>4, <2>3, <2>4
  <2>6. k = m \/ k + g[k].len <= m
    BY <1>3, <2>3 DEF Disjoint
  <2> QED BY <1>2, <1>3, <1>4, <2>3, <2>4, <2>5, <2>6
<1> QED BY <1>1, <1>2, <1>3, <1>5, <1>6

LEMMA InsertedIsIndex ==
  ASSUME NEW g, NEW e \in Record, NEW ws \in SUBSET Record, IndexOf(g, ws), ~AtOdds(g, e)
  PROVE  IndexOf(Insert(g, e), ws \cup {e})
<1> DEFINE h == Insert(g, e)
<1>1. IsGlobalIndex(g) /\ Disjoint(g) /\ CoversAll(g, ws) /\ \A k \in DOMAIN g : Current(g[k], ws)
  BY DEF IndexOf
<1>2. e.log \notin DOMAIN g /\ \A k \in DOMAIN g : ~overlap(g[k], e)
  BY <1>1, NotAtOdds
<1>3. DOMAIN h = DOMAIN g \cup {e.log} /\ (\A k \in DOMAIN g : h[k] = g[k]) /\ h[e.log] = e /\ IsGlobalIndex(h)
  BY <1>1, <1>2, InsertParts
<1> HIDE DEF h
<1>4. \A k \in DOMAIN g : /\ g[k] \in Record /\ g[k].log = k /\ k \in Nat /\ g[k].len \in Nat
                          /\ k + g[k].len <= e.log \/ e.log + e.len <= k
  <2> TAKE k \in DOMAIN g
  <2>1. g[k] \in Record /\ g[k].log = k /\ k \in Nat /\ g[k].len \in Nat
    BY <1>1, RecordParts DEF IsGlobalIndex
  <2>2. ~(k < e.log + e.len /\ e.log < k + g[k].len)
    BY <1>2, <2>1, Overlap
  <2> QED BY <2>1, <2>2, RecordParts
<1>5. Disjoint(h)
  <2> SUFFICES ASSUME NEW j \in DOMAIN h, NEW k \in DOMAIN h, j < k PROVE j + h[j].len <= k
    BY DEF Disjoint
  <2>1. CASE j \in DOMAIN g /\ k \in DOMAIN g
    BY <1>1, <1>3, <2>1 DEF Disjoint
  <2>2. CASE j \in DOMAIN g /\ k = e.log
    BY <1>3, <1>4, <2>2, RecordParts
  <2>3. CASE j = e.log /\ k \in DOMAIN g
    BY <1>3, <1>4, <2>3, RecordParts
  <2>4. ~(j = e.log /\ k = e.log)
    BY RecordParts
  <2> QED BY <1>3, <2>1, <2>2, <2>3, <2>4
<1>6. CoversAll(h, ws \cup {e})
  <2> SUFFICES ASSUME NEW w \in ws \cup {e}, NEW q \in Span(w) PROVE \E k \in DOMAIN h : contains(h[k], q)
    BY DEF CoversAll
  <2>1. CASE w \in ws
    BY <1>1, <1>3, <2>1 DEF CoversAll
  <2>2. CASE w = e
    BY <1>3, <2>2, BytesOf
  <2> QED BY <2>1, <2>2
<1>7. ASSUME NEW k \in DOMAIN g PROVE Current(h[k], ws \cup {e})
  <2>1. PICK r : r = g[k]
    OBVIOUS
  <2>2. h[k] = r /\ r \in Record /\ Current(r, ws) /\ ~overlap(r, e)
    BY <1>1, <1>2, <1>3, <1>4, <2>1
  <2>3. \A q \in Span(r) : ~contains(e, q)
    BY <2>2, Overlap, BytesOf
  <2> QED BY <2>2, <2>3 DEF Current, Newer
<1>8. Current(e, ws \cup {e})
  <2>1. PieceOf(e, e)
    BY RecordParts DEF PieceOf
  <2>2. ASSUME NEW v \in ws, NEW q \in Span(e), contains(v, q) PROVE FALSE
    <3>1. q \in Nat /\ contains(e, q) /\ q \in Span(v)
      BY <2>2, BytesOf
    <3>2. PICK k \in DOMAIN g : contains(g[k], q)
      BY <1>1, <3>1 DEF CoversAll
    <3> QED BY <1>2, <1>4, <3>1, <3>2, Overlap
  <2> QED BY <2>1, <2>2, RecordParts DEF Current, Newer
<1>9. \A k \in DOMAIN h : Current(h[k], ws \cup {e})
  BY <1>3, <1>7, <1>8
<1> QED BY <1>3, <1>5, <1>6, <1>9 DEF IndexOf, h

LEMMA InsertGlobalIsIndex ==
  ASSUME NEW g, NEW e \in Record, NEW ws \in SUBSET Record, IndexOf(g, ws)
  PROVE  IndexOf(insertGlobal(g, e), ws \cup {e})
<1>1. CASE AtOdds(g, e)
  <2>1. Resolved(g, e, handleOverlap(Insert(g, e), e.log, e))
    BY Resolves DEF IndexOf
  <2>2. IndexOf(handleOverlap(Insert(g, e), e.log, e), ws \cup {e})
    BY <2>1, ResolvedIsIndex
  <2> QED BY <1>1, <2>2 DEF insertGlobal
<1>2. CASE ~AtOdds(g, e)
  BY <1>2, InsertedIsIndex DEF insertGlobal
<1> QED BY <1>1, <1>2

-----------------------------------------------------------------------------
(* The lookup in such an index.                                             *)
LEMMA LookupRight ==
  ASSUME GlobalInv, NEW q \in Nat
  PROVE  Right(q, orig_globalLookup(global_index, q))
<1> DEFINE g == global_index
           notBefore == {k \in DOMAIN g : k >= q}
           at == IF notBefore = {} THEN Max(DOMAIN g) ELSE Min(notBefore)
           earlier == {k \in DOMAIN g : k < at}
           a == orig_globalLookup(g, q)
<1>1. /\ inserted \in SUBSET Record /\ IsGlobalIndex(g) /\ Disjoint(g) /\ CoversAll(g, inserted)
      /\ \A k \in DOMAIN g : Current(g[k], inserted)
  BY DEF GlobalInv, IndexOf
<1>2. \A k \in DOMAIN g : g[k] \in Record /\ g[k].log = k /\ k \in Nat /\ g[k].len \in Nat /\ g[k].len > 0
  BY <1>1, RecordParts DEF IsGlobalIndex
<1>3. a = IF DOMAIN g = {} THEN Nothing(FALSE, 0)
          ELSE IF contains(g[at], q) THEN Found(g[at], q)
          ELSE IF earlier # {} /\ contains(g[Max(earlier)], q) THEN Found(g[Max(earlier)], q)
          ELSE IF q < at THEN Nothing(TRUE, at - q) ELSE Nothing(FALSE, 0)
  BY DEF orig_globalLookup
<1> HIDE DEF a, g
<1>4. notBefore # {} => at \in DOMAIN g /\ at \in Nat /\ q <= at /\ \A k \in DOMAIN g : q <= k => at <= k
  <2> HAVE notBefore # {}
  <2>1. notBefore \in SUBSET Nat
    BY <1>2
  <2>2. Min(notBefore) \in notBefore /\ \A k \in notBefore : Min(notBefore) <= k
    BY <2>1, MinIs
  <2> QED BY <2>1, <2>2
<1>5. notBefore = {} /\ DOMAIN g # {} => at \in DOMAIN g /\ at \in Nat /\ at < q /\ \A k \in DOMAIN g : k <= at
  <2> HAVE notBefore = {} /\ DOMAIN g # {}
  <2>1. DOMAIN g \in SUBSET Nat /\ \A k \in DOMAIN g : k < q /\ k <= q
    BY <1>2
  <2>2. Max(DOMAIN g) \in DOMAIN g /\ \A k \in DOMAIN g : k <= Max(DOMAIN g)
    BY <2>1, MaxIs
  <2> QED BY <2>1, <2>2
<1>6. ASSUME earlier # {}, at \in Nat
      PROVE  Max(earlier) \in earlier /\ \A k \in earlier : k <= Max(earlier)
  <2>1. earlier \in SUBSET Nat /\ \A k \in earlier : k <= at
    BY <1>2, <1>6
  <2> HIDE DEF earlier, at
  <2> QED BY <1>6, <2>1, MaxIs
<1>7. \A w \in inserted : \A x \in Nat : contains(w, x) => \E k \in DOMAIN g : contains(g[k], x)
  BY <1>1, BytesOf DEF CoversAll
<1>8. ASSUME NEW k \in DOMAIN g, NEW x \in Nat, contains(g[k], x)
      PROVE  \E w \in LastTo(x) : w \in inserted /\ PieceOf(g[k], w)
  <2>1. PICK r : r = g[k]
    OBVIOUS
  <2>2. r \in Record /\ Newer(inserted, r) = {} /\ contains(r, x) /\ x \in Span(r)
    BY <1>1, <1>2, <1>8, <2>1, BytesOf DEF Current
  <2>3. PICK w \in inserted : PieceOf(r, w)
    BY <1>1, <2>1 DEF Current
  <2>4. r.ts = w.ts /\ contains(w, x)
    BY <1>1, <2>2, <2>3, RecordParts DEF PieceOf, contains
  <2>5. ASSUME NEW v \in WritesTo(x) PROVE v.ts <= w.ts
    <3>1. v \in inserted /\ contains(v, x) /\ v.ts \in Nat /\ w.ts \in Nat
      BY <1>1, <2>5, RecordParts DEF WritesTo
    <3>2. ~(v.ts > r.ts)
      BY <2>2, <3>1 DEF Newer
    <3> QED BY <2>4, <3>1, <3>2
  <2>6. w \in LastTo(x)
    BY <2>4, <2>5 DEF LastTo, WritesTo
  <2> QED BY <2>1, <2>3, <2>6
<1>9. ASSUME NEW k \in DOMAIN g, contains(g[k], q)
      PROVE  a = Found(g[k], q)
  <2>1. k \in Nat /\ k <= q /\ q < k + g[k].len /\ g[k].len \in Nat
    BY <1>2, <1>9 DEF contains
  <2>2. \A j \in DOMAIN g : k < j => q < j
    BY <1>1, <1>2, <2>1 DEF Disjoint
  <2>3. CASE at = k
    BY <1>3, <1>9, <2>3
  <2>4. CASE at # k
    <3>1. notBefore # {}
      <4>1. ASSUME notBefore = {} PROVE FALSE
        <5>1. at \in DOMAIN g /\ at \in Nat /\ at < q /\ k <= at
          BY <1>5, <4>1
        <5> QED BY <2>1, <2>2, <2>4, <5>1
      <4> QED BY <4>1
    <3>2. at \in DOMAIN g /\ at \in Nat /\ q <= at /\ \A j \in DOMAIN g : q <= j => at <= j
      BY <1>4, <3>1
    <3>3. k < q /\ k < at
      BY <2>1, <2>4, <3>2
    <3>4. ~contains(g[at], q)
      BY <1>2, <2>2, <3>2, <3>3 DEF contains
    <3>5. k \in earlier
      BY <3>3
    <3>6. PICK m : m = Max(earlier)
      OBVIOUS
    <3>7. m \in earlier /\ k <= m
      <4> HIDE DEF earlier, at
      <4> QED BY <1>6, <3>2, <3>5, <3>6
    <3>8. m \in DOMAIN g /\ m < at /\ m \in Nat
      BY <1>2, <3>7
    <3>9. m = k
      <4> HIDE DEF earlier, at
      <4> QED BY <2>1, <2>2, <3>2, <3>7, <3>8
    <3> HIDE DEF earlier, at, notBefore
    <3> QED BY <1>3, <1>9, <3>4, <3>5, <3>6, <3>9
  <2> QED BY <2>3, <2>4
<1>10. ASSUME NEW k \in DOMAIN g, contains(g[k], q)
       PROVE  Right(q, a)
  <2>1. PICK r : r = g[k]
    OBVIOUS
  <2>2. r \in Record /\ contains(r, q) /\ a = Found(r, q)
    BY <1>2, <1>9, <1>10, <2>1
  <2>3. PICK off, len : off = r.phy + (q - r.log) /\ len = r.len - (q - r.log)
    OBVIOUS
  <2>4. a.found /\ a.id = r.id /\ a.off = off /\ a.len = len
    BY <2>2, <2>3 DEF Found
  <2>5. len \in Nat /\ len > 0
    BY <2>2, <2>3, RecordParts DEF contains
  <2>6. WritesTo(q) # {}
    BY <1>8, <1>10 DEF LastTo
  <2>7. ASSUME NEW d \in 0..(len - 1)
        PROVE  \E w \in LastTo(q + d) : a.id = w.id /\ a.off + d = w.phy + (q + d - w.log)
    <3>1. q + d \in Nat /\ contains(r, q + d)
      BY <2>2, <2>3, <2>5, RecordParts DEF contains
    <3>2. PICK w \in LastTo(q + d) : w \in inserted /\ PieceOf(r, w)
      BY <1>8, <2>1, <3>1
    <3>3. w.id = r.id /\ r.phy = w.phy + (r.log - w.log)
      BY <3>2 DEF PieceOf
    <3>4. w.phy \in Nat /\ w.log \in Nat /\ r.log \in Nat /\ r.phy \in Nat
      BY <1>1, <2>2, <3>2, RecordParts
    <3>5. off + d = w.phy + (q + d - w.log)
      BY <2>3, <2>5, <3>3, <3>4
    <3> QED BY <2>4, <3>2, <3>3, <3>5
  <2> QED BY <2>4, <2>5, <2>6, <2>7 DEF Right
<1>11. ASSUME \A k \in DOMAIN g : ~contains(g[k], q)
       PROVE  Right(q, a)
  <2>1. WritesTo(q) = {}
    BY <1>7, <1>11 DEF WritesTo
  <2>2. ASSUME NEW w \in inserted, w.log > q
        PROVE  \E k \in DOMAIN g : q < k /\ k <= w.log
    <3>1. w.log \in Nat /\ contains(w, w.log)
      BY <1>1, RecordParts, Overlap
    <3>2. PICK k \in DOMAIN g : contains(g[k], w.log)
      BY <1>7, <3>1
    <3>3. PICK n : n = g[k].len
      OBVIOUS
    <3>4. k \in Nat /\ n \in Nat /\ k <= w.log /\ w.log < k + n /\ ~(k <= q /\ q < k + n)
      BY <1>2, <1>11, <3>2, <3>3 DEF contains
    <3> QED BY <2>2, <3>1, <3>4
  <2>3. CASE notBefore = {}
    <3>1. \A k \in DOMAIN g : ~(q < k)
      BY <1>2, <2>3
    <3>2. NextWritten(q) = {}
      BY <2>2, <3>1 DEF NextWritten
    <3>3. a = Nothing(FALSE, 0)
      <4>1. CASE DOMAIN g = {}
        BY <1>3, <4>1
      <4>2. CASE DOMAIN g # {}
        <5>1. at \in DOMAIN g /\ at \in Nat /\ at < q
          BY <1>5, <2>3, <4>2
        <5> HIDE DEF at, notBefore
        <5>2. earlier # {} => Max(earlier) \in DOMAIN g
          BY <1>6, <5>1
        <5> HIDE DEF earlier
        <5>3. ~(q < at)
          BY <5>1
        <5> QED BY <1>3, <1>11, <4>2, <5>1, <5>2, <5>3
      <4> QED BY <4>1, <4>2
    <3> QED BY <2>1, <3>2, <3>3 DEF Right
  <2>4. CASE notBefore # {}
    <3>1. at \in DOMAIN g /\ at \in Nat /\ q <= at /\ \A k \in DOMAIN g : q <= k => at <= k
      BY <1>4, <2>4
    <3> HIDE DEF at, notBefore
    <3>2. contains(g[at], at) /\ q < at
      BY <1>2, <1>11, <3>1 DEF contains
    <3>3. PICK w \in LastTo(at) : w \in inserted /\ PieceOf(g[at], w)
      BY <1>8, <3>1, <3>2
    <3>4. w.log \in Nat /\ w.len \in Nat /\ w.log <= at /\ at < w.log + w.len
      BY <1>1, <3>3, RecordParts DEF LastTo, WritesTo, contains
    <3>5. w.log > q
      <4>1. ~contains(w, q)
        BY <2>1, <3>3 DEF WritesTo
      <4> QED BY <3>1, <3>2, <3>4, <4>1 DEF contains
    <3>6. ASSUME NEW v \in inserted, v.log > q PROVE v.log \in Nat /\ at <= v.log
      <4>1. PICK k \in DOMAIN g : q < k /\ k <= v.log
        BY <2>2, <3>6
      <4>2. v.log \in Nat /\ k \in Nat /\ at <= k
        BY <1>1, <1>2, <3>1, <4>1, RecordParts
      <4> QED BY <3>1, <4>1, <4>2
    <3>7. w.log = at
      BY <3>1, <3>3, <3>4, <3>5, <3>6
    <3>8. at \in NextWritten(q) /\ NextWritten(q) \in SUBSET Nat /\ \A x \in NextWritten(q) : at <= x
      BY <3>3, <3>5, <3>6, <3>7 DEF NextWritten
    <3>9. Min(NextWritten(q)) = at
      <4>1. PICK m : m = Min(NextWritten(q))
        OBVIOUS
      <4>2. m \in NextWritten(q) /\ m <= at
        BY <3>8, <4>1, MinIs
      <4> QED BY <3>1, <3>8, <4>1, <4>2
    <3>10. a = Nothing(TRUE, at - q)
      <4>1. earlier # {} => Max(earlier) \in DOMAIN g
        BY <1>6, <3>1
      <4> HIDE DEF earlier
      <4> QED BY <1>3, <1>11, <3>1, <3>2, <4>1
    <3> QED BY <2>1, <3>8, <3>9, <3>10 DEF Right
  <2> QED BY <2>3, <2>4
<1> QED BY <1>10, <1>11 DEF a, g

-----------------------------------------------------------------------------
(* The index of the records inserted is one at every step.                  *)
THEOREM GlobalIndexCorrect == GlobalSpec => []GlobalInv
<1>1. GlobalInit => GlobalInv
  <2> SUFFICES ASSUME GlobalInit PROVE GlobalInv
    OBVIOUS
  <2>1. pending \subseteq Record /\ inserted = {} /\ global_index = <<>>
    BY WorkloadsAssumption DEF GlobalInit, Record
  <2>2. DOMAIN global_index = {}
    BY <2>1
  <2> QED BY <2>1, <2>2 DEF GlobalInv, IndexOf, IsGlobalIndex, Disjoint, CoversAll
<1>2. GlobalInv /\ [GlobalNext]_globalVars => GlobalInv'
  <2> SUFFICES ASSUME GlobalInv, [GlobalNext]_globalVars PROVE GlobalInv'
    OBVIOUS
  <2>1. ASSUME NEW e \in pending, InsertOne(e) PROVE GlobalInv'
    <3>1. e \in Record /\ inserted \in SUBSET Record /\ IndexOf(global_index, inserted)
      BY DEF GlobalInv
    <3>2. IndexOf(insertGlobal(global_index, e), inserted \cup {e})
      BY <3>1, InsertGlobalIsIndex
    <3>3. /\ global_index' = insertGlobal(global_index, e)
          /\ pending' = pending \ {e} /\ inserted' = inserted \cup {e}
      BY <2>1 DEF InsertOne
    <3>4. IndexOf(global_index', inserted')
      BY <3>2, <3>3
    <3> QED BY <3>1, <3>3, <3>4 DEF GlobalInv
  <2>2. CASE UNCHANGED globalVars
    BY <2>2 DEF GlobalInv, globalVars
  <2> QED BY <2>1, <2>2 DEF GlobalNext
<1> QED BY <1>1, <1>2, PTL DEF GlobalSpec

THEOREM LookupsFindTheLastWrite == GlobalSpec => []LookupFindsTheLastWrite
<1>1. GlobalInv => LookupFindsTheLastWrite
  <2> SUFFICES ASSUME GlobalInv, NEW q \in 0..Max({w.log + w.len : w \in inserted} \cup {0})
               PROVE  Right(q, orig_globalLookup(global_index, q))
    BY DEF LookupFindsTheLastWrite
  <2>1. q \in Nat
    OBVIOUS
  <2> QED BY <2>1, LookupRight
<1> QED BY <1>1, GlobalIndexCorrect, PTL

=============================================================================
