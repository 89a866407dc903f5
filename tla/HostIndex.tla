----------------------------- MODULE HostIndex -----------------------------
(***************************************************************************)
(* The write side of class Index (src/Index.cpp): the vector hostIndex of  *)
(* the records not yet flushed, and the map physical_offsets that says     *)
(* where the next record of a process starts in its data dropping.         *)
(*                                                                         *)
(* A HostEntry is a record [id, log, len, phy]; the two timestamps of the  *)
(* code are left out because append_to_buf never serialises them.  The     *)
(* vector is a function whose domain is a set of slots: its last element   *)
(* is the one in the highest slot, and truncateHostIndex, which drops      *)
(* elements from anywhere, restricts the function.                         *)
(***************************************************************************)
EXTENDS Integers

Entry(Pids) == [id : Pids, log : Nat, len : Nat, phy : Nat]

NoEntries == [k \in {} |-> 0]

Entries(h) == {h[k] : k \in DOMAIN h}

(* An index as it is between two operations: its slots are 1..slot or a    *)
(* subset of them, its elements are host entries.                          *)
IsIndex(Pids, h, slot) ==
  /\ slot \in Nat
  /\ DOMAIN h \subseteq 1..slot
  /\ Entries(h) \subseteq Entry(Pids)

IsLast(h, k) == k \in DOMAIN h /\ \A j \in DOMAIN h : j <= k

(* The new write continues the last record: same process, next offset. *)
Continues(h, k, off, pid) ==
  /\ IsLast(h, k)
  /\ h[k].id = pid
  /\ h[k].log + h[k].len = off

Continued(h, off, pid) == \E k \in DOMAIN h : Continues(h, k, off, pid)

(* Index::addWrite.  When the write continues the last record only that    *)
(* record's length grows: physical_offsets[pid] is left as it is.          *)
Longer(e, n) == [e EXCEPT !.len = @ + n]

Grown(h, k, n) == [h EXCEPT ![k] = Longer(@, n)]

Pushed(h, slot, e) == [k \in DOMAIN h \cup {slot} |-> IF k = slot THEN e ELSE h[k]]

IndexAfter(h, po, slot, off, n, pid) ==
  IF Continued(h, off, pid)
  THEN Grown(h, CHOOSE k \in DOMAIN h : Continues(h, k, off, pid), n)
  ELSE Pushed(h, slot, [id |-> pid, log |-> off, len |-> n, phy |-> po[pid]])

\* Mutant: one offset shared by all the data droppings.
OffsetsAfter_Shared(h, po, off, n, pid) ==
  IF Continued(h, off, pid) THEN po ELSE [q \in DOMAIN po |-> po[q] + n]

OffsetsAfter(h, po, off, n, pid) ==
  IF Continued(h, off, pid) THEN po ELSE [po EXCEPT ![pid] = @ + n]

SlotAfter(h, slot, off, pid) == IF Continued(h, off, pid) THEN slot ELSE slot + 1

(* Index::truncateHostIndex.  A record that straddles the new end keeps    *)
(* one byte past it: the code adds 1 to the length it keeps.               *)
ShortenedLen(e, offset) ==
  IF e.log + e.len > offset THEN offset - e.log + 1 ELSE e.len

\* Mutant: a record that straddles the new end is dropped.
IndexBelow_DropsStraddling(h, offset) ==
  [k \in {j \in DOMAIN h : h[j].log + h[j].len <= offset} |-> h[k]]

IndexBelow(h, offset) ==
  [k \in {j \in DOMAIN h : h[j].log < offset} |->
     [h[k] EXCEPT !.len = ShortenedLen(h[k], offset)]]
=============================================================================
