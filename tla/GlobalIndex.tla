---------------------------- MODULE GlobalIndex -----------------------------
(***************************************************************************)
(* The global index of a container (src/Index.cpp): a map from logical     *)
(* offsets to records, into which the records of all writers are inserted  *)
(* in whatever order the index droppings are read.  Records that overlap   *)
(* are split, and of the pieces of a range the one written last is kept    *)
(* (handleOverlap), so that a lookup finds one record for a byte.          *)
(*                                                                         *)
(* The code keeps this beside the map of patterns that PatternUnits        *)
(* models, which readIndex fills instead: nothing inserts records here     *)
(* since, except global_from_stream, which inserts without looking.        *)
(***************************************************************************)
EXTENDS Integers, FiniteSetsExt

CONSTANT Workloads    \* sets of records [id, ts, log, len, phy], ts being end_timestamp

(* A record of no bytes overlaps nothing, not even one at its own offset:  *)
(* handleOverlap then walks an empty range backwards.  Not modelled.       *)
ASSUME WorkloadsAssumption ==
  \A ws \in Workloads : \A w \in ws :
    w \in [id : Nat, ts : Nat, log : Nat, len : Nat \ {0}, phy : Nat]

VARIABLES
  pending,        \* the records not yet inserted
  inserted,       \* history: those that are
  global_index    \* logical offset -> record

globalVars == <<pending, inserted, global_index>>

-----------------------------------------------------------------------------
contains(e, offset) == e.log <= offset /\ offset < e.log + e.len
overlap(e, f) == contains(e, f.log) \/ contains(f, e.log)
splittable(e, offset) == contains(e, offset) /\ offset # e.log

(* The part of a record from one offset to another.                        *)
split(e, from, to) ==
  [e EXCEPT !.log = from, !.len = to - from, !.phy = @ + (from - e.log)]

(* The pieces of a record, cut at all the points that are inside of it.    *)
splitEntry(e, splits) ==
  LET cuts == {e.log, e.log + e.len} \cup {s \in splits : splittable(e, s)}
      next(c) == CHOOSE d \in cuts : c < d /\ \A x \in cuts : c < x => d <= x
  IN  {split(e, c, next(c)) : c \in cuts \ {e.log + e.len}}

findSplits(es) == UNION {{e.log, e.log + e.len} : e \in es}

Between(index, j, k) == {m \in DOMAIN index : (j < m /\ m < k) \/ (k < m /\ m < j)}

\* Mutant: the neighbours are looked at, and no further.
Overlapping_Neighbours(index, at, e) ==
  {k \in DOMAIN index : overlap(index[k], e) /\ Between(index, at, k) = {}}

(* The walk from where the record is, or the one that is there instead of  *)
(* it: backward as long as records overlap it, and forward.                *)
Overlapping(index, at, e) ==
  {k \in DOMAIN index : \A m \in Between(index, at, k) \cup {at, k} : overlap(index[m], e)}

(* Of the pieces at an offset the newest; of equally new ones the first,   *)
(* in the order of the records they are from, the incoming one first.      *)
Newest(pieces, e) ==
  CHOOSE x \in pieces :
    \A y \in pieces \ {x} :
      \/ x.of.ts > y.of.ts
      \/ x.of.ts = y.of.ts /\ (x.of.log < y.of.log \/ (x.of.log = y.of.log /\ x.of = e))

handleOverlap(index, at, e) ==
  LET range == Overlapping(index, at, e)
      overlaps == {index[k] : k \in range} \cup {e}
      splits == findSplits(overlaps)
      chunks == UNION {{[of |-> o, piece |-> p] : p \in splitEntry(o, splits)} : o \in overlaps}
      starts == {c.piece.log : c \in chunks}
  IN  [k \in (DOMAIN index \ range) \cup starts |->
        IF k \in starts THEN Newest({c \in chunks : c.piece.log = k}, e).piece ELSE index[k]]

(* The record is inserted unless there is one at its offset.  It is at     *)
(* odds with that one, with the next or with the one before.               *)
Insert(index, e) ==
  IF e.log \in DOMAIN index THEN index
  ELSE [k \in DOMAIN index \cup {e.log} |-> IF k = e.log THEN e ELSE index[k]]

AtOdds(index, e) ==
  LET later == {k \in DOMAIN index : k > e.log}
      earlier == {k \in DOMAIN index : k < e.log}
  IN  \/ e.log \in DOMAIN index
      \/ later # {} /\ overlap(e, index[Min(later)])
      \/ earlier # {} /\ overlap(index[Max(earlier)], e)

insertGlobal(index, e) ==
  IF AtOdds(index, e) THEN handleOverlap(Insert(index, e), e.log, e) ELSE Insert(index, e)

-----------------------------------------------------------------------------
(* A lookup: the first record that does not start before the offset, or    *)
(* the last of all, and the one before that.                               *)
Found(e, logical) == [found |-> TRUE, hole |-> FALSE, id |-> e.id, ts |-> e.ts,
                      off |-> e.phy + (logical - e.log), len |-> e.len - (logical - e.log)]
Nothing(hole, len) == [found |-> FALSE, hole |-> hole, len |-> len]

orig_globalLookup(index, logical) ==
  LET notBefore == {k \in DOMAIN index : k >= logical}
      at == IF notBefore = {} THEN Max(DOMAIN index) ELSE Min(notBefore)
      earlier == {k \in DOMAIN index : k < at}
  IN  IF DOMAIN index = {} THEN Nothing(FALSE, 0)
      ELSE IF contains(index[at], logical) THEN Found(index[at], logical)
      ELSE IF earlier # {} /\ contains(index[Max(earlier)], logical)
           THEN Found(index[Max(earlier)], logical)
      ELSE IF logical < at THEN Nothing(TRUE, at - logical)
      ELSE Nothing(FALSE, 0)

-----------------------------------------------------------------------------
GlobalInit == pending \in Workloads /\ inserted = {} /\ global_index = <<>>

InsertOne(e) ==
  /\ global_index' = insertGlobal(global_index, e)
  /\ pending' = pending \ {e} /\ inserted' = inserted \cup {e}

GlobalNext == \E e \in pending : InsertOne(e)

GlobalSpec == GlobalInit /\ [][GlobalNext]_globalVars

-----------------------------------------------------------------------------
(* What a lookup has to find, without an index: the bytes of a write that  *)
(* no other is newer than, to where the record says; the length of a hole  *)
(* up to the next byte written; nothing past the end.                      *)
WritesTo(q) == {w \in inserted : contains(w, q)}
LastTo(q) == {w \in WritesTo(q) : \A v \in WritesTo(q) : v.ts <= w.ts}
NextWritten(q) == {w.log : w \in {v \in inserted : v.log > q}}

Right(q, a) ==
  IF WritesTo(q) # {}
  THEN /\ a.found /\ a.len > 0
       /\ \A d \in 0..(a.len - 1) :
            \E w \in LastTo(q + d) : a.id = w.id /\ a.off + d = w.phy + (q + d - w.log)
  ELSE IF NextWritten(q) # {} THEN a = Nothing(TRUE, Min(NextWritten(q)) - q)
  ELSE a = Nothing(FALSE, 0)

(* A lookup of any byte finds the last write to it, in whatever order the  *)
(* records were inserted and however they overlap: handleOverlap splits    *)
(* along every edge, loses no piece and keeps the newest of each.          *)
LookupFindsTheLastWrite ==
  \A q \in 0..Max({w.log + w.len : w \in inserted} \cup {0}) :
    Right(q, orig_globalLookup(global_index, q))
=============================================================================
