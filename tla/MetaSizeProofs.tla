--------------------------- MODULE MetaSizeProofs ---------------------------
(***************************************************************************)
(* What MetaSize guarantees for every set of hosts and clients, and for    *)
(* every bound.                                                            *)
(***************************************************************************)
EXTENDS MetaSize, WellFoundedInduction, TLAPS

(* The open records are those of the handles, and a client uses one that   *)
(* is open.                                                                *)
HandlesOK ==
  /\ \A h \in Hosts : h \in live <=> handle[h].at # "closed"
  /\ \A h \in Hosts : handle[h].at = "closed" => handle[h] = Closed
  /\ \A c \in Clients, h \in Hosts : Using(c, h) => handle[h].at = "open"

(* Where a client is says what it does.                                    *)
ClientsOK ==
  \A c \in Clients :
    /\ client[c].at \in {"sized", "cut", "empty", "handle"} => client[c].job = "truncate"
    /\ client[c].at = "empty" => client[c].offset = 0
    /\ client[c].steady \cap (live \cup stale \cup client[c].open) = {}

(* No end anywhere is one the file has not had.                            *)
HighestOK ==
  /\ \A m \in metas : m.last_offset <= history.highest
  /\ \A h \in Hosts : handle[h].last_offset <= history.highest
  /\ \A c \in Clients :
       /\ client[c].size <= history.highest
       /\ client[c].at \in {"cut", "empty", "handle"} => client[c].offset <= history.highest

(* What a host without the record of a process that died has written below *)
(* the offsets of truncates is in its handle or in a meta dropping, and    *)
(* none of it is beyond the offset of a truncate that runs.                *)
WrittenOK ==
  /\ \A c \in Clients, h \in Hosts : Truncating(c) => history.written[h] <= client[c].offset
  /\ \A h \in Hosts \ stale :
       \/ history.written[h] = 0
       \/ handle[h].at = "open" /\ history.written[h] <= handle[h].last_offset
       \/ \E m \in metas : m.host = h /\ history.written[h] <= m.last_offset

(* The end of the file is the greatest one that a dropping or handle has.  *)
Rest ==
  /\ \A m \in metas : m.last_offset <= history.end
  /\ \A h \in Hosts : handle[h].last_offset <= history.end
  /\ \/ history.end = 0
     \/ \E m \in metas : m.last_offset = history.end
     \/ \E h \in Hosts : handle[h].last_offset = history.end

(* How far an undisturbed truncate has come.                               *)
TruncateOK(c) ==
  LET d == client[c] IN
  /\ d.at = "metas" => d.by = NoHandle /\ d.open = {} /\ Rest
  /\ d.at = "sized" => IF d.by = NoHandle THEN Rest /\ d.size = history.end
                       ELSE \A m \in metas : m.last_offset <= d.size
  /\ d.at = "cut" => /\ d.left \subseteq metas
                     /\ \A m \in metas : m.last_offset > d.offset => m \in d.left
                     /\ d.by = NoHandle => \E m \in metas : m.last_offset >= d.offset
  /\ d.at = "empty" => metas \subseteq d.left
  /\ d.at = "handle" => /\ \A m \in metas : m.last_offset <= d.offset
                        /\ d.by = NoHandle => d.offset = 0 \/ \E m \in metas : m.last_offset >= d.offset

ExactOK ==
  history.exact =>
    /\ stale = {}
    /\ \A h \in Hosts : handle[h].at = "added" =>
         [host |-> h, last_offset |-> handle[h].last_offset] \in metas
    /\ (\A c \in Clients : ~Truncating(c)) => Rest
    /\ \A c \in Clients : Truncating(c) =>
         /\ \A d \in Clients : Truncating(d) => d = c
         /\ \A h \in Hosts : h # client[c].by => handle[h].at = "closed"
         /\ TruncateOK(c)

Inv == TypeOK /\ HandlesOK /\ ClientsOK /\ HighestOK /\ WrittenOK /\ BytesAreCounted /\ ExactOK

-----------------------------------------------------------------------------
(* Numbers: the least and the greatest of a set, of two, and what % keeps. *)

LEMMA MinOfNats ==
  ASSUME NEW S \in SUBSET Nat, S # {}
  PROVE  Min(S) \in S /\ \A x \in S : Min(S) <= x
<1>1. PICK x \in S : \A y \in S : ~(<<y, x>> \in OpToRel(<, Nat))
  BY WFMin, NatLessThanWellFounded
<1>2. \A y \in S : x <= y
  <2> SUFFICES ASSUME NEW y \in S, ~(x <= y) PROVE FALSE
    OBVIOUS
  <2>1. x \in Nat /\ y \in Nat /\ y < x
    OBVIOUS
  <2>2. <<y, x>> \in OpToRel(<, Nat)
    BY <2>1 DEF OpToRel
  <2> QED BY <1>1, <2>2
<1> QED BY <1>2 DEF Min

LEMMA MaxOfNats ==
  ASSUME NEW N \in Nat, NEW S \in SUBSET (0..N), S # {}
  PROVE  Max(S) \in S /\ \A x \in S : x <= Max(S)
<1> DEFINE T == {N - x : x \in S}
<1>1. T \in SUBSET Nat /\ T # {}
  <2>1. \A x \in S : x \in Nat /\ x <= N
    OBVIOUS
  <2>2. \A x \in S : N - x \in Nat
    BY <2>1
  <2> QED BY <2>2
<1>2. PICK y \in T : \A z \in T : y <= z
  BY <1>1, MinOfNats
<1>3. PICK x \in S : y = N - x
  BY <1>2
<1>4. \A z \in S : z <= x
  BY <1>2, <1>3
<1> QED BY <1>4 DEF Max

LEMMA OffsetsAreNat == \A x \in Offsets : x \in Nat
BY BoundsAssumption DEF Offsets

LEMMA ZeroIsOffset == 0 \in Offsets
BY BoundsAssumption DEF Offsets

LEMMA ExtremaOfTwo ==
  ASSUME NEW a \in Offsets, NEW b \in Offsets
  PROVE  /\ Max({a, b}) \in Offsets /\ a <= Max({a, b}) /\ b <= Max({a, b}) /\ Max({a, b}) \in {a, b}
         /\ Min({a, b}) \in Offsets /\ Min({a, b}) <= a /\ Min({a, b}) <= b /\ Min({a, b}) \in {a, b}
<1>1. {a, b} \in SUBSET (0..MaxOffset) /\ {a, b} # {} /\ MaxOffset \in Nat
  BY BoundsAssumption DEF Offsets
<1>2. {a, b} \in SUBSET Nat
  BY <1>1
<1>3. Max({a, b}) \in {a, b} /\ \A x \in {a, b} : x <= Max({a, b})
  BY <1>1, MaxOfNats
<1>4. Min({a, b}) \in {a, b} /\ \A x \in {a, b} : Min({a, b}) <= x
  BY <1>1, <1>2, MinOfNats
<1> QED BY <1>3, <1>4

(* total_bytes does not wrap around below its bound.                       *)
LEMMA NoWrap ==
  /\ \A x \in 0..MaxBytes : x % 2^Width = x /\ x \in Totals
  /\ \A x \in Int : x % 2^Width \in Totals
  /\ \A x \in Totals : x \in Nat
<1>1. 2^Width \in Int /\ MaxBytes < 2^Width /\ MaxBytes \in Nat
  BY BoundsAssumption
<1> DEFINE M == 2^Width
<1>2. M \in Nat /\ M > 0 /\ MaxBytes < M
  BY <1>1
<1>3. Totals = 0..(M - 1)
  BY DEF Totals
<1> HIDE DEF M
<1>4. \A x \in 0..MaxBytes : x % M = x /\ x \in 0..(M - 1)
  BY <1>1, <1>2
<1>5. \A x \in Int : x % M \in 0..(M - 1)
  BY <1>2
<1> QED BY <1>3, <1>4, <1>5 DEF M

LEMMA ZeroIsTotal == 0 \in Totals
BY NoWrap, BoundsAssumption

(* What is sure to be there of a write is below every truncate that runs.  *)
LEMMA KeptBound ==
  ASSUME TypeOK, NEW end \in Offsets
  PROVE  /\ Kept(end) \in Offsets /\ Kept(end) <= end
         /\ \A c \in Clients : Truncating(c) => Kept(end) <= client[c].offset
<1> DEFINE S == {end} \cup {client[c].offset : c \in {x \in Clients : Truncating(x)}}
<1>1. S \in SUBSET Offsets
  BY DEF TypeOK, Client
<1>2. S \in SUBSET Nat /\ S # {}
  BY <1>1, OffsetsAreNat
<1>3. Min(S) \in S /\ \A x \in S : Min(S) <= x
  BY <1>2, MinOfNats
<1>4. Min(S) = Kept(end)
  BY DEF Kept
<1> HIDE DEF S
<1>5. Kept(end) \in Offsets
  BY <1>1, <1>3, <1>4
<1>6. Kept(end) <= end
  BY <1>3, <1>4 DEF S
<1>7. \A c \in Clients : Truncating(c) => client[c].offset \in S
  BY DEF S
<1> QED BY <1>3, <1>4, <1>5, <1>6, <1>7

(* The size that a client finds.                                           *)
LEMMA SizeBound ==
  ASSUME TypeOK, NEW c \in Clients
  PROVE  /\ Size(c) \in Offsets
         /\ \A m \in metas : m.host \notin client[c].open => m.last_offset <= Size(c)
         /\ client[c].by # NoHandle => handle[client[c].by].last_offset <= Size(c)
         /\ \/ Size(c) = 0
            \/ \E m \in metas : m.host \notin client[c].open /\ m.last_offset = Size(c)
            \/ client[c].by # NoHandle /\ Size(c) = handle[client[c].by].last_offset
<1> DEFINE V == {m.last_offset : m \in {x \in metas : Valid(x, client[c].open)}}
           B == IF client[c].by = NoHandle THEN {} ELSE {handle[client[c].by].last_offset}
           S == {0} \cup V \cup B
<1>1. V \subseteq Offsets
  BY DEF TypeOK, Metas
<1>2. B \subseteq Offsets
  BY DEF TypeOK, Client, Handle
<1>3. S \in SUBSET (0..MaxOffset) /\ S # {} /\ MaxOffset \in Nat
  BY <1>1, <1>2, ZeroIsOffset, BoundsAssumption DEF Offsets
<1>4. Size(c) = Max(S)
  BY DEF Size
<1>5. Size(c) \in S /\ \A x \in S : x <= Size(c)
  BY <1>3, <1>4, MaxOfNats
<1>6. \A m \in metas : m.host \notin client[c].open => m.last_offset \in S
  BY DEF Valid
<1>7. client[c].by # NoHandle => handle[client[c].by].last_offset \in S
  OBVIOUS
<1>8. \/ Size(c) = 0
      \/ \E m \in metas : m.host \notin client[c].open /\ m.last_offset = Size(c)
      \/ client[c].by # NoHandle /\ Size(c) = handle[client[c].by].last_offset
  BY <1>5 DEF Valid
<1> HIDE DEF S
<1> QED BY <1>3, <1>5, <1>6, <1>7, <1>8 DEF Offsets

LEMMA NewHandle ==
  /\ Closed \in Handle /\ Closed.at = "closed" /\ Closed.last_offset = 0 /\ Closed.total_bytes = 0
  /\ LET w == [Closed EXCEPT !.at = "open"]
     IN  w \in Handle /\ w.at = "open" /\ w.last_offset = 0 /\ w.total_bytes = 0
BY ZeroIsOffset, ZeroIsTotal DEF Handle, Closed

-----------------------------------------------------------------------------
(* Each step keeps Inv.                                                    *)

LEMMA OpenInv ==
  ASSUME Inv, NEW h \in Hosts, Open(h)
  PROVE  Inv'
<1>0. TypeOK /\ UNCHANGED <<stale, metas>> /\ live' = live \cup {h} /\ handle[h].at = "closed"
  BY DEF Inv, Open
<1>1. /\ handle' \in [Hosts -> Handle] /\ \A g \in Hosts \ {h} : handle'[g] = handle[g]
      /\ handle'[h].at = "open" /\ handle'[h].last_offset = 0 /\ handle'[h].total_bytes = 0
  BY <1>0, NewHandle DEF Open, TypeOK
<1>2. handle[h].last_offset = 0
  BY <1>0 DEF Inv, HandlesOK, Closed
<1>3. /\ client' \in [Clients -> Client]
      /\ \A c \in Clients :
           /\ client'[c].at = client[c].at /\ client'[c].job = client[c].job /\ client'[c].by = client[c].by
           /\ client'[c].offset = client[c].offset /\ client'[c].open = client[c].open
           /\ client'[c].size = client[c].size /\ client'[c].left = client[c].left
           /\ client'[c].steady = client[c].steady \ {h}
  <2>1. ASSUME NEW c \in Clients
        PROVE  /\ client'[c] \in Client
               /\ client'[c].at = client[c].at /\ client'[c].job = client[c].job
               /\ client'[c].by = client[c].by /\ client'[c].offset = client[c].offset
               /\ client'[c].open = client[c].open /\ client'[c].size = client[c].size
               /\ client'[c].left = client[c].left /\ client'[c].steady = client[c].steady \ {h}
    <3>1. client[c] \in Client /\ client'[c] = [client[c] EXCEPT !.steady = @ \ {h}]
      BY <1>0 DEF Open, TypeOK
    <3>2. client[c].steady \ {h} \in SUBSET Hosts
      BY <3>1 DEF Client
    <3>3. client'[c] \in Client
      BY <3>1, <3>2 DEF Client
    <3> QED BY <3>1, <3>3 DEF Client
  <2>2. client' = [c \in Clients |-> client'[c]]
    BY DEF Open
  <2> QED BY <2>1, <2>2
<1>4. /\ history' \in History /\ history'.end = history.end /\ history'.highest = history.highest
      /\ history'.written = history.written /\ history'.exact = (history.exact /\ ~Disturbed(h))
  BY <1>0 DEF Open, TypeOK, History
<1>5. TypeOK'
  BY <1>0, <1>1, <1>3, <1>4, BoundsAssumption DEF Open, TypeOK
<1>6. HandlesOK'
  BY <1>0, <1>1, <1>3 DEF Inv, HandlesOK, Using
<1>7. ClientsOK'
  BY <1>0, <1>3 DEF Inv, ClientsOK
<1>8. HighestOK'
  BY <1>0, <1>1, <1>2, <1>3, <1>4 DEF Inv, HighestOK
<1>9. WrittenOK'
  BY <1>0, <1>1, <1>3, <1>4 DEF Inv, WrittenOK, Truncating
<1>10. BytesAreCounted'
  BY <1>1, BoundsAssumption DEF Inv, BytesAreCounted
<1>11. ExactOK'
  <2> SUFFICES ASSUME history.exact, ~Disturbed(h) PROVE ExactOK'
    BY <1>4 DEF ExactOK
  <2>1. \A c \in Clients : ~Truncating(c)
    <3> SUFFICES ASSUME NEW c \in Clients, Truncating(c), client[c].by = h PROVE FALSE
      BY DEF Disturbed
    <3> QED BY <1>0 DEF Inv, HandlesOK, Using, Truncating
  <2>2. \A c \in Clients : ~Truncating(c)'
    BY <1>3, <2>1 DEF Truncating
  <2>3. Rest'
    BY <1>0, <1>1, <1>2, <1>4, <2>1 DEF Inv, ExactOK, Rest
  <2>4. stale' = {} /\ \A g \in Hosts : handle'[g].at = "added" =>
                    [host |-> g, last_offset |-> handle'[g].last_offset] \in metas'
    BY <1>0, <1>1 DEF Inv, ExactOK
  <2> QED BY <2>2, <2>3, <2>4 DEF ExactOK
<1> QED BY <1>5, <1>6, <1>7, <1>8, <1>9, <1>10, <1>11 DEF Inv

(* A handle that has written, and what of it truncates cannot take away.   *)
LEMMA WriteInv ==
  ASSUME Inv, NEW h \in Hosts, NEW offset \in Offsets, NEW bytes \in Nat,
         bytes > 0, offset + bytes \in Offsets, Write(h, offset, bytes)
  PROVE  Inv'
<1> DEFINE end == offset + bytes
           sum == handle[h].total_bytes + bytes
           last == IF end > handle[h].last_offset THEN end ELSE handle[h].last_offset
<1>0. /\ TypeOK /\ UNCHANGED <<live, stale, metas, client, opens>> /\ handle[h].at = "open"
      /\ handle[h] \in Handle /\ history \in History
  BY DEF Inv, Write, TypeOK
<1>1. /\ end \in Offsets /\ end > offset /\ end \in Nat /\ offset \in Nat
      /\ handle[h].last_offset \in Offsets /\ handle[h].last_offset \in Nat
      /\ history.end \in Offsets /\ history.highest \in Offsets /\ history.written[h] \in Offsets
      /\ handle[h].total_bytes \in Nat /\ sum \in Totals /\ sum \in Nat /\ sum <= MaxBytes
  BY <1>0, BoundsAssumption, OffsetsAreNat, NoWrap DEF Write, Handle, History
<1>2. last \in Offsets /\ end <= last /\ handle[h].last_offset <= last
  BY <1>1
<1>3. /\ handle' \in [Hosts -> Handle] /\ \A g \in Hosts \ {h} : handle'[g] = handle[g]
      /\ handle'[h].at = "open" /\ handle'[h].last_offset = last /\ handle'[h].total_bytes = sum
      /\ handle'[h].dense = (handle[h].dense /\ offset <= handle[h].last_offset)
  <2> HIDE DEF sum, last
  <2>1. handle' = [handle EXCEPT ![h].total_bytes = sum, ![h].last_offset = last,
                                 ![h].dense = @ /\ offset <= handle[h].last_offset]
    <3>1. sum % 2^Width = sum
      BY <1>1, NoWrap, BoundsAssumption DEF sum
    <3> QED BY <3>1 DEF Write, sum, last
  <2>2. sum \in Totals
    BY <1>1 DEF sum
  <2> QED BY <1>0, <1>2, <2>1, <2>2 DEF TypeOK, Handle
<1>4. /\ Max({history.end, end}) \in Offsets /\ end <= Max({history.end, end})
      /\ history.end <= Max({history.end, end}) /\ Max({history.end, end}) \in {history.end, end}
      /\ Max({history.highest, end}) \in Offsets /\ end <= Max({history.highest, end})
      /\ history.highest <= Max({history.highest, end})
  BY <1>1, ExtremaOfTwo
<1>5. /\ Kept(end) \in Offsets /\ Kept(end) <= end
      /\ \A c \in Clients : Truncating(c) => Kept(end) <= client[c].offset
  BY <1>0, <1>1, KeptBound
<1> DEFINE kept == Max({history.written[h], Kept(end)})
<1>6. kept \in Offsets /\ kept \in {history.written[h], Kept(end)}
  BY <1>1, <1>5, ExtremaOfTwo
<1>7. /\ history' \in History
      /\ history'.end = Max({history.end, end}) /\ history'.highest = Max({history.highest, end})
      /\ history'.exact = (history.exact /\ ~Disturbed(h))
      /\ history'.written[h] = kept /\ \A g \in Hosts \ {h} : history'.written[g] = history.written[g]
  <2> HIDE DEF end, kept
  <2>1. history' = [history EXCEPT !.end = Max({history.end, end}), !.highest = Max({history.highest, end}),
                                   !.written[h] = kept, !.exact = @ /\ ~Disturbed(h)]
    BY <1>0 DEF Write, end, kept, History
  <2> QED BY <1>0, <1>4, <1>6, <2>1 DEF History
<1> HIDE DEF end, sum, last, kept
<1>a. /\ last \in Nat /\ kept \in Nat /\ end \in Nat /\ handle[h].last_offset \in Nat
      /\ history.written[h] \in Nat /\ history.end \in Nat /\ history.highest \in Nat
      /\ history'.end \in Nat /\ history'.highest \in Nat
      /\ handle[h].total_bytes \in Nat /\ sum \in Nat /\ sum <= MaxBytes
  BY <1>1, <1>2, <1>4, <1>6, <1>7, OffsetsAreNat
<1>b. /\ end <= last /\ handle[h].last_offset <= last
      /\ history.end <= history'.end /\ end <= history'.end /\ history.highest <= history'.highest
      /\ history'.end \in {history.end, end}
  BY <1>2, <1>4, <1>7
<1>8. TypeOK'
  BY <1>0, <1>3, <1>7 DEF TypeOK
<1>9. HandlesOK'
  BY <1>0, <1>3 DEF Inv, HandlesOK, Using
<1>10. ClientsOK'
  BY <1>0 DEF Inv, ClientsOK
<1>11. HighestOK'
  <2>1. \A x \in Offsets : x <= history.highest => x <= history'.highest
    BY <1>a, <1>b, OffsetsAreNat
  <2>2. last <= history'.highest
    BY <1>1, <1>4, <1>7, <2>1 DEF last, Inv, HighestOK
  <2> QED BY <1>0, <1>1, <1>3, <2>1, <2>2 DEF Inv, HighestOK, TypeOK, Client, Handle, Metas
<1>12. WrittenOK'
  <2>1. \A c \in Clients : Truncating(c)' => Truncating(c) /\ kept <= client[c].offset
    BY <1>0, <1>5, <1>6 DEF Inv, WrittenOK, Truncating
  <2>2. kept <= last \/ kept = history.written[h]
    BY <1>1, <1>2, <1>5, <1>6, OffsetsAreNat
  <2>3. \A g \in Hosts \ {h} : g \notin stale =>
          \/ history'.written[g] = 0
          \/ handle'[g].at = "open" /\ history'.written[g] <= handle'[g].last_offset
          \/ \E m \in metas : m.host = g /\ history'.written[g] <= m.last_offset
    BY <1>3, <1>7 DEF Inv, WrittenOK
  <2>4. h \notin stale =>
          \/ kept = 0 \/ kept <= last
          \/ \E m \in metas : m.host = h /\ kept <= m.last_offset
    <3>1. h \notin stale =>
            \/ history.written[h] = 0 \/ history.written[h] <= handle[h].last_offset
            \/ \E m \in metas : m.host = h /\ history.written[h] <= m.last_offset
      BY DEF Inv, WrittenOK
    <3>2. history.written[h] <= handle[h].last_offset => history.written[h] <= last
      BY <1>a, <1>b
    <3> QED BY <2>2, <3>1, <3>2
  <2> QED BY <1>0, <1>3, <1>7, <2>1, <2>3, <2>4 DEF Inv, WrittenOK
<1>13. BytesAreCounted'
  <2>1. handle'[h].dense => last <= sum /\ sum <= MaxBytes
    <3>1. handle[h].dense => handle[h].last_offset <= handle[h].total_bytes
      BY DEF Inv, BytesAreCounted
    <3>2. handle'[h].dense => handle[h].dense /\ offset <= handle[h].last_offset
      BY <1>3
    <3>3. handle[h].last_offset <= handle[h].total_bytes /\ offset <= handle[h].last_offset => last <= sum
      <4>1. end = offset + bytes /\ sum = handle[h].total_bytes + bytes /\ last \in {end, handle[h].last_offset}
        BY DEF end, sum, last
      <4>2. offset \in Nat /\ bytes \in Nat
        BY <1>1
      <4> QED BY <1>a, <4>1, <4>2
    <3> QED BY <1>a, <3>1, <3>2, <3>3
  <2> QED BY <1>3, <2>1 DEF Inv, BytesAreCounted
<1>14. ExactOK'
  <2> SUFFICES ASSUME history.exact, ~Disturbed(h) PROVE ExactOK'
    BY <1>7 DEF ExactOK
  <2>1. \A c \in Clients : Truncating(c) => client[c].by = h /\ h # NoHandle
    BY NoHandleAssumption DEF Disturbed
  <2>2. stale' = {} /\ \A g \in Hosts : handle'[g].at = "added" =>
                    [host |-> g, last_offset |-> handle'[g].last_offset] \in metas'
    BY <1>0, <1>3 DEF Inv, ExactOK
  <2>3. ASSUME \A c \in Clients : ~Truncating(c) PROVE Rest'
    <3>1. Rest
      BY <2>3 DEF Inv, ExactOK
    <3>2. /\ history.end <= history'.end /\ last <= history'.end
          /\ history'.end = history.end \/ history'.end = last
      <4>1. handle[h].last_offset <= history.end
        BY <3>1 DEF Rest
      <4>2. history.end \in Nat /\ history'.end \in Nat /\ end \in Nat /\ handle[h].last_offset \in Nat
        BY <1>1, <1>4, <1>7, OffsetsAreNat
      <4> QED BY <1>4, <1>7, <4>1, <4>2 DEF last
    <3>0. \A x \in Offsets : x <= history.end => x <= history'.end
      BY <1>a, <1>b, OffsetsAreNat
    <3>3. \A m \in metas' : m.last_offset <= history'.end
      BY <1>0, <3>0, <3>1 DEF Rest, TypeOK, Metas
    <3>4. \A g \in Hosts : handle'[g].last_offset <= history'.end
      <4>1. \A g \in Hosts : handle[g].last_offset <= history'.end
        BY <1>0, <3>0, <3>1 DEF Rest, TypeOK, Handle
      <4> QED BY <1>3, <3>2, <4>1
    <3>5. \/ history'.end = 0
          \/ \E m \in metas' : m.last_offset = history'.end
          \/ \E g \in Hosts : handle'[g].last_offset = history'.end
      <4>1. CASE history'.end = last
        BY <1>3, <4>1
      <4>2. CASE history'.end = history.end /\ history.end # last
        <5>1. handle[h].last_offset # history.end
          BY <1>1, <1>2, <1>4, <1>7, <3>2, <4>2 DEF last
        <5> QED BY <1>0, <1>3, <3>1, <4>2, <5>1 DEF Rest
      <4> QED BY <3>2, <4>1, <4>2
    <3> QED BY <3>3, <3>4, <3>5 DEF Rest
  <2>4. ASSUME NEW c \in Clients, Truncating(c)
        PROVE  /\ \A d \in Clients : Truncating(d) => d = c
               /\ \A g \in Hosts : g # client[c].by => handle'[g].at = "closed"
               /\ TruncateOK(c)'
    <3>1. TruncateOK(c) /\ \A d \in Clients : Truncating(d) => d = c
      BY <2>4 DEF Inv, ExactOK
    <3>2. client[c].by = h /\ h # NoHandle
      BY <2>1, <2>4
    <3>3. TruncateOK(c)'
      BY <1>0, <3>1, <3>2 DEF TruncateOK
    <3>4. \A g \in Hosts : g # client[c].by => handle'[g].at = "closed"
      BY <1>3, <2>4, <3>2 DEF Inv, ExactOK
    <3> QED BY <3>1, <3>3, <3>4
  <2>5. \A c \in Clients : Truncating(c)' <=> Truncating(c)
    BY <1>0 DEF Truncating
  <2> QED BY <1>0, <2>2, <2>3, <2>4, <2>5 DEF ExactOK
<1> QED BY <1>8, <1>9, <1>10, <1>11, <1>12, <1>13, <1>14 DEF Inv

(* plfs_close, first half: the meta dropping.                              *)
LEMMA AddMetaInv ==
  ASSUME Inv, NEW h \in Hosts, ~\E c \in Clients : Using(c, h), handle[h].at = "open", AddMeta(h),
         handle' = [handle EXCEPT ![h].at = "added"],
         history' = [history EXCEPT !.exact = @ /\ ~Disturbed(h)],
         UNCHANGED <<live, stale, client, opens>>
  PROVE  Inv'
<1> DEFINE m0 == [host |-> h, last_offset |-> handle[h].last_offset]
<1>0. TypeOK /\ handle[h] \in Handle /\ history \in History /\ metas' = metas \cup {m0}
  BY DEF Inv, TypeOK, AddMeta
<1>1. /\ handle' \in [Hosts -> Handle] /\ \A g \in Hosts \ {h} : handle'[g] = handle[g]
      /\ handle'[h].at = "added" /\ handle'[h].last_offset = handle[h].last_offset
      /\ handle'[h].total_bytes = handle[h].total_bytes /\ handle'[h].dense = handle[h].dense
  BY <1>0 DEF TypeOK, Handle
<1>2. /\ history' \in History /\ history'.end = history.end /\ history'.highest = history.highest
      /\ history'.written = history.written /\ history'.exact = (history.exact /\ ~Disturbed(h))
  BY <1>0 DEF History
<1>3. m0 \in Metas /\ m0.host = h /\ m0.last_offset = handle[h].last_offset
  BY <1>0 DEF Handle, Metas
<1> HIDE DEF m0
<1>4. TypeOK'
  BY <1>0, <1>1, <1>2, <1>3 DEF TypeOK
<1>5. HandlesOK'
  BY <1>0, <1>1 DEF Inv, HandlesOK, Using
<1>6. ClientsOK'
  BY DEF Inv, ClientsOK
<1>7. HighestOK'
  BY <1>0, <1>1, <1>2, <1>3 DEF Inv, HighestOK
<1>8. WrittenOK'
  <2>1. \A c \in Clients, g \in Hosts : Truncating(c)' => history'.written[g] <= client'[c].offset
    BY <1>2 DEF Inv, WrittenOK, Truncating
  <2>2. ASSUME NEW g \in Hosts \ stale
        PROVE  \/ history.written[g] = 0
               \/ handle'[g].at = "open" /\ history.written[g] <= handle'[g].last_offset
               \/ \E m \in metas' : m.host = g /\ history.written[g] <= m.last_offset
    <3>1. \/ history.written[g] = 0
          \/ handle[g].at = "open" /\ history.written[g] <= handle[g].last_offset
          \/ \E m \in metas : m.host = g /\ history.written[g] <= m.last_offset
      BY DEF Inv, WrittenOK
    <3>2. CASE g = h /\ history.written[g] <= handle[g].last_offset
      BY <1>0, <1>3, <3>2
    <3>3. CASE g # h
      BY <1>0, <1>1, <3>1, <3>3
    <3> QED BY <1>0, <3>1, <3>2, <3>3
  <2> QED BY <1>2, <2>1, <2>2 DEF WrittenOK
<1>9. BytesAreCounted'
  BY <1>1 DEF Inv, BytesAreCounted
<1>10. ExactOK'
  <2> SUFFICES ASSUME history.exact, ~Disturbed(h) PROVE ExactOK'
    BY <1>2 DEF ExactOK
  <2>1. \A c \in Clients : ~Truncating(c) /\ ~Truncating(c)'
    BY DEF Disturbed, Truncating, Using
  <2>2. Rest
    BY <2>1 DEF Inv, ExactOK
  <2>3. Rest'
    <3>1. \A m \in metas' : m.last_offset <= history'.end
      BY <1>0, <1>2, <1>3, <2>2 DEF Rest
    <3>2. \A g \in Hosts : handle'[g].last_offset <= history'.end
      BY <1>1, <1>2, <2>2 DEF Rest
    <3>3. \/ history'.end = 0
          \/ \E m \in metas' : m.last_offset = history'.end
          \/ \E g \in Hosts : handle'[g].last_offset = history'.end
      BY <1>0, <1>1, <1>2, <2>2 DEF Rest
    <3> QED BY <3>1, <3>2, <3>3 DEF Rest
  <2>4. stale' = {} /\ \A g \in Hosts : handle'[g].at = "added" =>
                    [host |-> g, last_offset |-> handle'[g].last_offset] \in metas'
    BY <1>0, <1>1 DEF Inv, ExactOK, m0
  <2> QED BY <2>1, <2>3, <2>4 DEF ExactOK
<1> QED BY <1>4, <1>5, <1>6, <1>7, <1>8, <1>9, <1>10 DEF Inv

(* Second half: the open record goes, and the handle.                      *)
LEMMA RemoveRecordInv ==
  ASSUME Inv, NEW h \in Hosts, ~\E c \in Clients : Using(c, h), handle[h].at = "added",
         RemoveOpenrecord(h), handle' = [handle EXCEPT ![h] = Closed],
         UNCHANGED <<metas, stale, client, opens>>
  PROVE  Inv'
<1>0. TypeOK /\ handle[h] \in Handle /\ history \in History /\ live' = live \ {h}
  BY DEF Inv, TypeOK, RemoveOpenrecord
<1>1. /\ handle' \in [Hosts -> Handle] /\ \A g \in Hosts \ {h} : handle'[g] = handle[g]
      /\ handle'[h] = Closed /\ Closed.at = "closed" /\ Closed.last_offset = 0 /\ Closed.total_bytes = 0
  BY <1>0, NewHandle DEF TypeOK
<1>2. /\ history' \in History /\ history'.end = history.end /\ history'.highest = history.highest
      /\ history'.written = history.written /\ history'.exact = (history.exact /\ ~Disturbed(h))
  BY <1>0 DEF History, RemoveOpenrecord
<1>3. 0 <= history.highest /\ 0 <= history.end /\ 0 <= MaxBytes
  BY <1>0, OffsetsAreNat, BoundsAssumption DEF History
<1>4. TypeOK'
  BY <1>0, <1>1, <1>2 DEF TypeOK
<1>5. HandlesOK'
  BY <1>0, <1>1 DEF Inv, HandlesOK, Using
<1>6. ClientsOK'
  BY <1>0 DEF Inv, ClientsOK
<1>7. HighestOK'
  BY <1>1, <1>2, <1>3 DEF Inv, HighestOK
<1>8. WrittenOK'
  <2>1. \A c \in Clients, g \in Hosts : Truncating(c)' => history'.written[g] <= client'[c].offset
    BY <1>2 DEF Inv, WrittenOK, Truncating
  <2>2. ASSUME NEW g \in Hosts \ stale
        PROVE  \/ history.written[g] = 0
               \/ handle'[g].at = "open" /\ history.written[g] <= handle'[g].last_offset
               \/ \E m \in metas' : m.host = g /\ history.written[g] <= m.last_offset
    <3>1. \/ history.written[g] = 0
          \/ handle[g].at = "open" /\ history.written[g] <= handle[g].last_offset
          \/ \E m \in metas : m.host = g /\ history.written[g] <= m.last_offset
      BY DEF Inv, WrittenOK
    <3> QED BY <1>1, <3>1
  <2> QED BY <1>2, <2>1, <2>2 DEF WrittenOK
<1>9. BytesAreCounted'
  BY <1>1, <1>3 DEF Inv, BytesAreCounted
<1>10. ExactOK'
  <2> SUFFICES ASSUME history.exact, ~Disturbed(h) PROVE ExactOK'
    BY <1>2 DEF ExactOK
  <2>1. \A c \in Clients : ~Truncating(c) /\ ~Truncating(c)'
    BY DEF Disturbed, Truncating, Using
  <2>2. Rest /\ [host |-> h, last_offset |-> handle[h].last_offset] \in metas
    BY <2>1 DEF Inv, ExactOK
  <2>3. Rest'
    <3>1. \A m \in metas' : m.last_offset <= history'.end
      BY <1>2, <2>2 DEF Rest
    <3>2. \A g \in Hosts : handle'[g].last_offset <= history'.end
      BY <1>1, <1>2, <1>3, <2>2 DEF Rest
    <3>3. \/ history'.end = 0
          \/ \E m \in metas' : m.last_offset = history'.end
          \/ \E g \in Hosts : handle'[g].last_offset = history'.end
      <4>1. CASE handle[h].last_offset = history.end
        <5>1. [host |-> h, last_offset |-> handle[h].last_offset].last_offset = history'.end
          BY <1>2, <4>1
        <5> QED BY <2>2, <5>1
      <4>2. CASE handle[h].last_offset # history.end
        BY <1>1, <1>2, <2>2, <4>2 DEF Rest
      <4> QED BY <4>1, <4>2
    <3> QED BY <3>1, <3>2, <3>3 DEF Rest
  <2>4. stale' = {} /\ \A g \in Hosts : handle'[g].at = "added" =>
                    [host |-> g, last_offset |-> handle'[g].last_offset] \in metas'
    BY <1>0, <1>1 DEF Inv, ExactOK
  <2> QED BY <2>1, <2>3, <2>4 DEF ExactOK
<1> QED BY <1>4, <1>5, <1>6, <1>7, <1>8, <1>9, <1>10 DEF Inv

LEMMA CloseInv ==
  ASSUME Inv, NEW h \in Hosts, Close(h)
  PROVE  Inv'
<1>1. CASE handle[h].at = "open"
  BY <1>1, AddMetaInv DEF Close
<1>2. CASE handle[h].at = "added"
  BY <1>2, RemoveRecordInv DEF Close
<1> QED BY <1>1, <1>2 DEF Close

LEMMA IdleType ==
  /\ Idle \in Client /\ Idle.at = "idle" /\ Idle.steady = {} /\ Idle.size = 0 /\ Idle.job = "stat"
  /\ Idle.by = NoHandle /\ Idle.open = {} /\ Idle.offset = 0 /\ Idle.left = {}
BY ZeroIsOffset DEF Idle, Client

LEMMA CrashInv ==
  ASSUME Inv, NEW h \in Hosts, Crash(h)
  PROVE  Inv'
<1>0. /\ TypeOK /\ history \in History /\ live' = live \ {h} /\ stale' = stale \cup {h}
      /\ UNCHANGED <<metas, opens>>
  BY DEF Inv, TypeOK, Crash
<1>1. /\ handle' \in [Hosts -> Handle] /\ \A g \in Hosts \ {h} : handle'[g] = handle[g]
      /\ handle'[h] = Closed /\ Closed.at = "closed" /\ Closed.last_offset = 0 /\ Closed.total_bytes = 0
  BY <1>0, NewHandle DEF TypeOK, Crash
<1>2. /\ history' \in History /\ history'.highest = history.highest
      /\ history'.written = history.written /\ ~history'.exact
  BY <1>0 DEF History, Crash
<1>3. 0 <= history.highest /\ 0 <= MaxBytes
  BY <1>0, OffsetsAreNat, BoundsAssumption DEF History
<1>4. /\ client' \in [Clients -> Client]
      /\ \A c \in Clients : client'[c] = IF client[c].by = h THEN Idle ELSE client[c]
  BY <1>0, IdleType DEF TypeOK, Crash
<1>5. TypeOK'
  BY <1>0, <1>1, <1>2, <1>4 DEF TypeOK
<1>6. HandlesOK'
  BY <1>0, <1>1, <1>4, IdleType DEF Inv, HandlesOK, Using
<1>7. ClientsOK'
  <2> SUFFICES ASSUME NEW c \in Clients
               PROVE  /\ client'[c].at \in {"sized", "cut", "empty", "handle"} => client'[c].job = "truncate"
                      /\ client'[c].at = "empty" => client'[c].offset = 0
                      /\ client'[c].steady \cap (live' \cup stale' \cup client'[c].open) = {}
    BY DEF ClientsOK
  <2>1. h \in live
    BY DEF Inv, HandlesOK, Crash
  <2> QED BY <1>0, <1>4, <2>1, IdleType DEF Inv, ClientsOK
<1>8. HighestOK'
  BY <1>0, <1>1, <1>2, <1>3, <1>4, IdleType DEF Inv, HighestOK
<1>9. WrittenOK'
  <2>1. ASSUME NEW c \in Clients, NEW g \in Hosts, Truncating(c)'
        PROVE  history'.written[g] <= client'[c].offset
    <3>1. client'[c] = client[c]
      BY <1>4, <2>1, IdleType DEF Truncating
    <3> QED BY <1>2, <2>1, <3>1 DEF Inv, WrittenOK, Truncating
  <2>2. ASSUME NEW g \in Hosts \ stale'
        PROVE  \/ history.written[g] = 0
               \/ handle'[g].at = "open" /\ history.written[g] <= handle'[g].last_offset
               \/ \E m \in metas' : m.host = g /\ history.written[g] <= m.last_offset
    <3>1. \/ history.written[g] = 0
          \/ handle[g].at = "open" /\ history.written[g] <= handle[g].last_offset
          \/ \E m \in metas : m.host = g /\ history.written[g] <= m.last_offset
      BY <1>0 DEF Inv, WrittenOK
    <3> QED BY <1>0, <1>1, <3>1
  <2> QED BY <1>2, <2>1, <2>2 DEF WrittenOK
<1>10. BytesAreCounted'
  BY <1>1, <1>3 DEF Inv, BytesAreCounted
<1>11. ExactOK'
  BY <1>2 DEF ExactOK
<1> QED BY <1>5, <1>6, <1>7, <1>8, <1>9, <1>10, <1>11 DEF Inv

(* A client takes a step that changes nothing but where it is: what has to *)
(* be shown of it.                                                         *)
LEMMA ClientMoved ==
  ASSUME Inv, NEW c \in Clients, UNCHANGED <<handle, live, stale, metas, opens, history>>,
         client' \in [Clients -> Client], \A d \in Clients \ {c} : client'[d] = client[d],
         \A h \in Hosts : Using(c, h)' => handle[h].at = "open",
         client'[c].at \in {"sized", "cut", "empty", "handle"} => client'[c].job = "truncate",
         client'[c].at = "empty" => client'[c].offset = 0,
         client'[c].steady \cap (live \cup stale \cup client'[c].open) = {},
         client'[c].size <= history.highest,
         client'[c].at \in {"cut", "empty", "handle"} => client'[c].offset <= history.highest,
         Truncating(c)' => /\ Truncating(c) /\ client'[c].offset = client[c].offset
                           /\ client'[c].by = client[c].by,
         history.exact /\ Truncating(c)' => TruncateOK(c)',
         history.exact /\ Truncating(c) /\ ~Truncating(c)' => Rest
  PROVE  Inv'
<1>1. TypeOK'
  BY DEF Inv, TypeOK
<1>2. HandlesOK'
  BY DEF Inv, HandlesOK, Using
<1>3. ClientsOK'
  BY DEF Inv, ClientsOK
<1>4. HighestOK'
  BY DEF Inv, HighestOK
<1>5. WrittenOK'
  <2>1. ASSUME NEW d \in Clients, NEW g \in Hosts, Truncating(d)'
        PROVE  history'.written[g] <= client'[d].offset
    BY <2>1 DEF Inv, WrittenOK, Truncating
  <2> QED BY <2>1 DEF Inv, WrittenOK
<1>6. BytesAreCounted'
  BY DEF Inv, BytesAreCounted
<1>7. ExactOK'
  <2> SUFFICES ASSUME history.exact PROVE ExactOK'
    BY DEF ExactOK
  <2>1. \A d \in Clients : Truncating(d)' => Truncating(d)
    BY DEF Truncating
  <2>2. (\A d \in Clients : ~Truncating(d)') => Rest'
    <3> SUFFICES ASSUME \A d \in Clients : ~Truncating(d)' PROVE Rest
      BY DEF Rest
    <3>1. CASE Truncating(c)
      BY <3>1
    <3>2. CASE ~Truncating(c)
      <4>1. \A d \in Clients : ~Truncating(d)
        BY <3>2 DEF Truncating
      <4> QED BY <4>1 DEF Inv, ExactOK
    <3> QED BY <3>1, <3>2
  <2>3. ASSUME NEW d \in Clients, Truncating(d)'
        PROVE  /\ \A e \in Clients : Truncating(e)' => e = d
               /\ \A h \in Hosts : h # client'[d].by => handle'[h].at = "closed"
               /\ TruncateOK(d)'
    <3>1. /\ \A e \in Clients : Truncating(e) => e = d
          /\ \A h \in Hosts : h # client[d].by => handle[h].at = "closed"
          /\ TruncateOK(d)
      BY <2>1, <2>3 DEF Inv, ExactOK
    <3>2. client'[d].by = client[d].by
      BY <2>3
    <3>3. TruncateOK(d)'
      <4>1. CASE d = c
        BY <2>3, <4>1
      <4>2. CASE d # c
        <5>1. client'[d] = client[d] /\ Rest' = Rest
          BY <4>2 DEF Rest
        <5> QED BY <3>1, <5>1 DEF TruncateOK
      <4> QED BY <4>1, <4>2
    <3> QED BY <2>1, <3>1, <3>2, <3>3
  <2>4. stale' = {} /\ \A g \in Hosts : handle'[g].at = "added" =>
                    [host |-> g, last_offset |-> handle'[g].last_offset] \in metas'
    BY DEF Inv, ExactOK
  <2> QED BY <2>2, <2>3, <2>4 DEF ExactOK
<1> QED BY <1>1, <1>2, <1>3, <1>4, <1>5, <1>6, <1>7 DEF Inv

LEMMA BegunType ==
  ASSUME TypeOK, NEW by \in Hosts \cup {NoHandle}, NEW b, b = Begun(by)
  PROVE  /\ b \in Client /\ b.at = "metas" /\ b.job = "stat" /\ b.by = by /\ b.offset = 0
         /\ b.open = live \cup stale /\ b.size = 0 /\ b.left = {}
         /\ b.steady = Hosts \ (live \cup stale)
<1>1. live \cup stale \in SUBSET Hosts /\ Hosts \ (live \cup stale) \in SUBSET Hosts
  BY DEF TypeOK
<1>2. b \in Client
  BY <1>1, IdleType DEF Client, Begun
<1> QED BY <1>2, IdleType DEF Begun, Client

LEMMA BeginStatInv ==
  ASSUME Inv, NEW c \in Clients, NEW by \in Hosts \cup {NoHandle}, BeginStat(c, by)
  PROVE  Inv'
<1>0. TypeOK /\ history \in History /\ client' = [client EXCEPT ![c] = Begun(by)]
  BY DEF Inv, TypeOK, BeginStat
<1>1. /\ Begun(by) \in Client /\ Begun(by).at = "metas" /\ Begun(by).job = "stat" /\ Begun(by).by = by
      /\ Begun(by).open = live \cup stale /\ Begun(by).size = 0
      /\ Begun(by).steady = Hosts \ (live \cup stale)
  BY <1>0, BegunType
<1>2. client'[c] = Begun(by) /\ \A d \in Clients \ {c} : client'[d] = client[d]
  BY <1>0 DEF TypeOK
<1>3. client' \in [Clients -> Client]
  BY <1>0, <1>1 DEF TypeOK
<1>4. 0 <= history.highest
  BY <1>0, OffsetsAreNat DEF History
<1>5. ~Truncating(c) /\ ~Truncating(c)'
  BY <1>1, <1>2 DEF Truncating, BeginStat
<1>6. \A h \in Hosts : Using(c, h)' => handle[h].at = "open"
  BY <1>1, <1>2, NoHandleAssumption DEF Using, BeginStat
<1> QED BY <1>1, <1>2, <1>3, <1>4, <1>5, <1>6, ClientMoved DEF BeginStat

LEMMA ReadMetasInv ==
  ASSUME Inv, NEW c \in Clients, ReadMetas(c)
  PROVE  Inv'
<1>0. /\ TypeOK /\ history \in History /\ client[c] \in Client /\ client[c].at = "metas"
      /\ UNCHANGED <<handle, live, stale, metas, opens, history>>
  BY DEF Inv, TypeOK, ReadMetas
<1>1. 0 <= history.highest
  BY <1>0, OffsetsAreNat DEF History
<1>2. CASE client[c].job = "stat"
  <2>1. client' \in [Clients -> Client] /\ client'[c] = Idle /\ \A d \in Clients \ {c} : client'[d] = client[d]
    BY <1>0, <1>2, IdleType DEF ReadMetas, TypeOK
  <2>2. ~Truncating(c) /\ ~Truncating(c)' /\ \A h \in Hosts : ~Using(c, h)'
    BY <1>2, <2>1, IdleType DEF Truncating, Using
  <2> QED BY <1>0, <1>1, <2>1, <2>2, IdleType, ClientMoved
<1>3. CASE client[c].job # "stat"
  <2> DEFINE e == [client[c] EXCEPT !.at = "sized", !.size = Size(c), !.open = {}, !.steady = {}]
  <2>1. e \in Client /\ e.at = "sized" /\ e.size = Size(c) /\ e.open = {} /\ e.steady = {}
        /\ e.job = client[c].job /\ e.by = client[c].by /\ e.offset = client[c].offset
    <3>1. Size(c) \in Offsets
      BY <1>0, SizeBound
    <3> QED BY <1>0, <3>1 DEF Client
  <2>2. client' = [client EXCEPT ![c] = e]
    BY <1>0, <1>3 DEF ReadMetas
  <2> HIDE DEF e
  <2>3. client' \in [Clients -> Client] /\ client'[c] = e /\ \A d \in Clients \ {c} : client'[d] = client[d]
    BY <1>0, <2>1, <2>2 DEF TypeOK
  <2>4. client[c].job = "truncate" /\ Truncating(c)
    BY <1>0, <1>3 DEF Client, Truncating
  <2>5. \A h \in Hosts : Using(c, h)' => handle[h].at = "open"
    BY <1>0, <2>1, <2>3 DEF Using, Inv, HandlesOK
  <2>6. Size(c) <= history.highest
    <3>1. client[c].by # NoHandle => client[c].by \in Hosts
      BY <1>0 DEF Client
    <3> QED BY <1>0, <1>1, <3>1, SizeBound DEF Inv, HighestOK
  <2>7. history.exact => TruncateOK(c)'
    <3> SUFFICES ASSUME history.exact PROVE TruncateOK(c)'
      OBVIOUS
    <3>1. TruncateOK(c) /\ \A h \in Hosts : h # client[c].by => handle[h].at = "closed"
      BY <2>4 DEF Inv, ExactOK
    <3>2. client[c].by = NoHandle /\ client[c].open = {} /\ Rest
      BY <1>0, <3>1 DEF TruncateOK
    <3>3. \A h \in Hosts : handle[h].last_offset = 0
      BY <3>1, <3>2, NoHandleAssumption, NewHandle DEF Inv, HandlesOK
    <3>4. \A m \in metas : m.last_offset <= Size(c)
      BY <1>0, <3>2, SizeBound
    <3>5. Size(c) = 0 \/ \E m \in metas : m.last_offset = Size(c)
      BY <1>0, <3>2, SizeBound
    <3>6. /\ history.end \in Nat /\ Size(c) \in Nat /\ \A m \in metas : m.last_offset \in Nat
      BY <1>0, SizeBound, OffsetsAreNat DEF History, TypeOK, Metas
    <3>7. Size(c) <= history.end
      BY <3>2, <3>5, <3>6 DEF Rest
    <3>8. history.end <= Size(c)
      BY <3>2, <3>3, <3>4, <3>6 DEF Rest
    <3>9. Size(c) = history.end /\ Rest'
      BY <1>0, <3>2, <3>6, <3>7, <3>8 DEF Rest
    <3> QED BY <1>0, <2>1, <2>3, <3>2, <3>9 DEF TruncateOK
  <2> QED BY <1>0, <2>1, <2>3, <2>4, <2>5, <2>6, <2>7, ClientMoved DEF Truncating
<1> QED BY <1>2, <1>3

(* The client is at "sized", and goes where at says.                       *)
LEMMA AfterSized ==
  ASSUME Inv, NEW c \in Clients, NEW at \in {"cut", "handle"}, client[c].at = "sized",
         NEW left \in SUBSET Metas,
         client' = [client EXCEPT ![c] = [client[c] EXCEPT !.at = at, !.left = left]],
         UNCHANGED <<handle, live, stale, metas, opens, history>>,
         client[c].offset <= client[c].size,
         history.exact => TruncateOK(c)'
  PROVE  Inv'
<1> DEFINE e == [client[c] EXCEPT !.at = at, !.left = left]
<1>0. TypeOK /\ client[c] \in Client /\ history \in History
  BY DEF Inv, TypeOK
<1>1. e \in Client /\ e.at = at /\ e.left = left /\ e.size = client[c].size /\ e.open = client[c].open
        /\ e.job = client[c].job /\ e.by = client[c].by /\ e.offset = client[c].offset
        /\ e.steady = client[c].steady
  BY <1>0 DEF Client
<1> HIDE DEF e
<1>2. client' \in [Clients -> Client] /\ client'[c] = e /\ \A d \in Clients \ {c} : client'[d] = client[d]
  BY <1>0, <1>1 DEF TypeOK, e
<1>3. client[c].job = "truncate" /\ Truncating(c) /\ Truncating(c)'
  BY <1>1, <1>2 DEF Inv, ClientsOK, Truncating
<1>4. \A h \in Hosts : Using(c, h)' => handle[h].at = "open"
  BY <1>1, <1>2 DEF Using, Inv, HandlesOK
<1>5. e.steady \cap (live \cup stale \cup e.open) = {}
  BY <1>1 DEF Inv, ClientsOK
<1>6. client[c].size <= history.highest
  BY DEF Inv, HighestOK
<1>7. client[c].offset <= history.highest
  <2>1. client[c].size \in Nat /\ client[c].offset \in Nat /\ history.highest \in Nat
    BY <1>0, OffsetsAreNat DEF Client, History
  <2> QED BY <1>6, <2>1
<1> QED BY <1>1, <1>2, <1>3, <1>4, <1>5, <1>6, <1>7, ClientMoved

(* What an undisturbed truncate that knows the size knows.                 *)
LEMMA SizedKnows ==
  ASSUME Inv, NEW c \in Clients, client[c].at = "sized", history.exact
  PROVE  /\ \A m \in metas : m.last_offset <= client[c].size
         /\ client[c].by = NoHandle =>
              /\ client[c].size = history.end /\ Rest
              /\ client[c].size = 0 \/ \E m \in metas : m.last_offset = client[c].size
<1>1. client[c].job = "truncate" /\ Truncating(c)
  BY DEF Inv, ClientsOK, Truncating
<1>2. TruncateOK(c) /\ \A h \in Hosts : h # client[c].by => handle[h].at = "closed"
  BY <1>1 DEF Inv, ExactOK
<1>3. CASE client[c].by = NoHandle
  <2>1. Rest /\ client[c].size = history.end
    BY <1>2, <1>3 DEF TruncateOK
  <2>2. \A h \in Hosts : handle[h].last_offset = 0
    BY <1>2, <1>3, NoHandleAssumption, NewHandle DEF Inv, HandlesOK
  <2> QED BY <2>1, <2>2 DEF Rest
<1>4. CASE client[c].by # NoHandle
  BY <1>2, <1>4 DEF TruncateOK
<1> QED BY <1>3, <1>4

LEMMA SmallerInv ==
  ASSUME Inv, NEW c \in Clients, Smaller(c)
  PROVE  Inv'
<1>0. /\ TypeOK /\ client[c] \in Client /\ client[c].at = "sized" /\ metas \in SUBSET Metas
      /\ UNCHANGED <<handle, live, stale, metas, opens, history>>
  BY DEF Inv, TypeOK, Smaller
<1>1. client' = [client EXCEPT ![c] = [client[c] EXCEPT !.at = "cut", !.left = metas]]
  BY <1>0 DEF Smaller, TypeOK, Client
<1>2. client[c].size \in Nat /\ client[c].offset \in Nat /\ \A m \in metas : m.last_offset \in Nat
  BY <1>0, OffsetsAreNat DEF Client, Metas
<1>3. client[c].offset <= client[c].size /\ client[c].size # 0
  BY <1>2 DEF Smaller
<1>4. /\ client'[c].at = "cut" /\ client'[c].left = metas
      /\ client'[c].offset = client[c].offset /\ client'[c].by = client[c].by
  BY <1>0, <1>1 DEF TypeOK, Client
<1>5. ASSUME history.exact PROVE TruncateOK(c)'
  <2>1. client[c].by = NoHandle => \E m \in metas : m.last_offset >= client[c].offset
    BY <1>0, <1>2, <1>3, <1>5, SizedKnows
  <2> QED BY <1>0, <1>4, <2>1 DEF TruncateOK
<1>6. "cut" \in {"cut", "handle"}
  OBVIOUS
<1> QED BY <1>0, <1>1, <1>3, <1>5, <1>6, AfterSized

LEMMA AsBigInv ==
  ASSUME Inv, NEW c \in Clients, AsBig(c)
  PROVE  Inv'
<1>0. /\ TypeOK /\ client[c] \in Client /\ client[c].at = "sized" /\ client[c].left \in SUBSET Metas
      /\ UNCHANGED <<handle, live, stale, metas, opens, history>>
  BY DEF Inv, TypeOK, AsBig, Client
<1>1. client' = [client EXCEPT ![c] = [client[c] EXCEPT !.at = "handle", !.left = client[c].left]]
  BY <1>0 DEF AsBig, TypeOK, Client
<1>2. client[c].size \in Nat /\ client[c].size = client[c].offset /\ \A m \in metas : m.last_offset \in Nat
  BY <1>0, OffsetsAreNat DEF Client, Metas, TypeOK, AsBig
<1>3. client[c].offset <= client[c].size
  BY <1>2
<1>4. /\ client'[c].at = "handle" /\ client'[c].offset = client[c].offset /\ client'[c].by = client[c].by
  BY <1>0, <1>1 DEF TypeOK, Client
<1>5. ASSUME history.exact PROVE TruncateOK(c)'
  <2>1. /\ \A m \in metas : m.last_offset <= client[c].offset
        /\ client[c].by = NoHandle =>
             client[c].offset = 0 \/ \E m \in metas : m.last_offset >= client[c].offset
    BY <1>0, <1>2, <1>5, SizedKnows
  <2> QED BY <1>0, <1>4, <2>1 DEF TruncateOK
<1>6. "handle" \in {"cut", "handle"}
  OBVIOUS
<1> QED BY <1>0, <1>1, <1>3, <1>5, <1>6, AfterSized

LEMMA BiggerInv ==
  ASSUME Inv, NEW c \in Clients, Bigger(c)
  PROVE  Inv'
<1> DEFINE by == client[c].by
           offset == client[c].offset
<1>0. /\ TypeOK /\ client[c] \in Client /\ history \in History /\ client[c].at = "sized"
      /\ by \in Hosts \cup {NoHandle} /\ UNCHANGED <<live, stale, metas, opens>>
  BY DEF Inv, TypeOK, Bigger, Client
<1>1. client[c].job = "truncate" /\ Truncating(c)
  BY <1>0 DEF Inv, ClientsOK, Truncating
<1>2. CASE by = NoHandle
  <2>1. UNCHANGED <<handle, history>> /\ client' = [client EXCEPT ![c] = Idle]
    BY <1>2 DEF Bigger
  <2>2. client' \in [Clients -> Client] /\ client'[c] = Idle /\ \A d \in Clients \ {c} : client'[d] = client[d]
    BY <1>0, <2>1, IdleType DEF TypeOK
  <2>3. ~Truncating(c)' /\ \A h \in Hosts : ~Using(c, h)'
    BY <2>2, IdleType DEF Truncating, Using
  <2>4. 0 <= history.highest
    BY <1>0, OffsetsAreNat DEF History
  <2>5. history.exact => Rest
    BY <1>0, <1>2, SizedKnows
  <2> QED BY <1>0, <2>1, <2>2, <2>3, <2>4, <2>5, IdleType, ClientMoved
<1>3. CASE by # NoHandle
  <2>0. by \in Hosts /\ handle[by].at = "open" /\ handle[by] \in Handle /\ offset \in Offsets
    BY <1>0, <1>3 DEF Inv, HandlesOK, Using, TypeOK, Client
  <2> DEFINE last == Max({handle[by].last_offset, offset})
             high == Max({history.highest, offset})
  <2>1. /\ handle[by].last_offset \in Offsets /\ history.highest \in Offsets
        /\ client[c].size \in Offsets
    BY <1>0, <2>0 DEF Handle, History, Client
  <2>2. /\ last \in Offsets /\ handle[by].last_offset <= last /\ offset <= last
        /\ last \in {handle[by].last_offset, offset}
        /\ high \in Offsets /\ history.highest <= high /\ offset <= high
    BY <2>0, <2>1, ExtremaOfTwo
  <2>3. /\ handle' = [handle EXCEPT ![by].last_offset = last, ![by].dense = FALSE]
        /\ history' = [history EXCEPT !.highest = high]
        /\ client' = [client EXCEPT ![c].at = "handle"]
    BY <1>3 DEF Bigger
  <2> HIDE DEF last, high
  <2>4. /\ handle' \in [Hosts -> Handle] /\ \A g \in Hosts \ {by} : handle'[g] = handle[g]
        /\ handle'[by].at = "open" /\ handle'[by].last_offset = last /\ ~handle'[by].dense
    BY <1>0, <2>0, <2>2, <2>3 DEF TypeOK, Handle
  <2>5. /\ history' \in History /\ history'.highest = high /\ history'.end = history.end
        /\ history'.exact = history.exact /\ history'.written = history.written
    BY <1>0, <2>2, <2>3 DEF History
  <2>6. /\ client' \in [Clients -> Client] /\ \A d \in Clients \ {c} : client'[d] = client[d]
        /\ client'[c].at = "handle" /\ client'[c].by = by /\ client'[c].offset = offset
        /\ client'[c].job = "truncate" /\ client'[c].size = client[c].size
        /\ client'[c].open = client[c].open /\ client'[c].steady = client[c].steady
    BY <1>0, <1>1, <2>3 DEF TypeOK, Client
  <2>7. /\ \A d \in Clients : Truncating(d)' = Truncating(d)
        /\ \A d \in Clients : client'[d].by = client[d].by /\ client'[d].offset = client[d].offset
                                /\ client'[d].size = client[d].size
        /\ \A d \in Clients, h \in Hosts : Using(d, h)' = Using(d, h)
    BY <1>0, <1>1, <2>6 DEF Truncating, Using
  <2> HIDE DEF by, offset
  <2>8. TypeOK'
    BY <1>0, <2>4, <2>5, <2>6 DEF TypeOK
  <2>9. HandlesOK'
    BY <1>0, <2>0, <2>4, <2>7 DEF Inv, HandlesOK
  <2>10. ClientsOK'
    BY <1>0, <2>6 DEF Inv, ClientsOK
  <2>11. HighestOK'
    <3>1. \A x, y \in Offsets : x <= history.highest => x <= high
      BY <2>1, <2>2, OffsetsAreNat
    <3>2. /\ \A m \in metas : m.last_offset \in Offsets
          /\ \A h \in Hosts : handle[h].last_offset \in Offsets
          /\ \A d \in Clients : client[d].size \in Offsets /\ client[d].offset \in Offsets
      BY <1>0 DEF TypeOK, Metas, Handle, Client
    <3>3. \A m \in metas' : m.last_offset <= history'.highest
      BY <1>0, <2>5, <3>1, <3>2 DEF Inv, HighestOK
    <3>4. ASSUME NEW h \in Hosts PROVE handle'[h].last_offset <= history'.highest
      <4>1. handle[h].last_offset <= high
        BY <3>1, <3>2 DEF Inv, HighestOK
      <4> QED BY <2>0, <2>2, <2>4, <2>5, <4>1
    <3>5. ASSUME NEW d \in Clients
          PROVE  /\ client'[d].size <= history'.highest
                 /\ client'[d].at \in {"cut", "empty", "handle"} => client'[d].offset <= history'.highest
      <4>1. client[d].size <= high
        BY <3>1, <3>2 DEF Inv, HighestOK
      <4>2. CASE d = c
        BY <2>2, <2>5, <2>6, <4>1, <4>2
      <4>3. CASE d # c
        BY <2>5, <2>6, <3>1, <3>2, <4>1, <4>3 DEF Inv, HighestOK
      <4> QED BY <4>2, <4>3
    <3> QED BY <3>3, <3>4, <3>5 DEF HighestOK
  <2>12. WrittenOK'
    <3>1. \A d \in Clients, g \in Hosts : Truncating(d)' => history'.written[g] <= client'[d].offset
      BY <2>5, <2>7 DEF Inv, WrittenOK
    <3>2. ASSUME NEW g \in Hosts \ stale
          PROVE  \/ history.written[g] = 0
                 \/ handle'[g].at = "open" /\ history.written[g] <= handle'[g].last_offset
                 \/ \E m \in metas : m.host = g /\ history.written[g] <= m.last_offset
      <4>1. \/ history.written[g] = 0
            \/ handle[g].at = "open" /\ history.written[g] <= handle[g].last_offset
            \/ \E m \in metas : m.host = g /\ history.written[g] <= m.last_offset
        BY DEF Inv, WrittenOK
      <4>2. history.written[by] \in Nat /\ handle[by].last_offset \in Nat /\ last \in Nat
        BY <1>0, <2>0, <2>1, <2>2, OffsetsAreNat DEF History
      <4> QED BY <2>0, <2>2, <2>4, <4>1, <4>2
    <3> QED BY <1>0, <2>5, <3>1, <3>2 DEF WrittenOK
  <2>13. BytesAreCounted'
    BY <2>4 DEF Inv, BytesAreCounted
  <2>14. ExactOK'
    <3> SUFFICES ASSUME history.exact PROVE ExactOK'
      BY <2>5 DEF ExactOK
    <3>1. /\ \A d \in Clients : Truncating(d) => d = c
          /\ \A h \in Hosts : h # by => handle[h].at = "closed"
          /\ TruncateOK(c)
      BY <1>1 DEF Inv, ExactOK, by
    <3>2. \A m \in metas : m.last_offset <= offset
      <4>1. \A m \in metas : m.last_offset <= client[c].size
        BY <1>0, SizedKnows
      <4>2. /\ client[c].size \in Nat /\ offset \in Nat /\ client[c].size < offset
            /\ \A m \in metas : m.last_offset \in Nat
        BY <1>0, <2>0, <2>1, OffsetsAreNat DEF TypeOK, Metas, Bigger, offset
      <4> QED BY <4>1, <4>2
    <3>3. TruncateOK(c)'
      BY <1>0, <1>3, <2>6, <3>2 DEF TruncateOK
    <3>4. stale' = {} /\ \A g \in Hosts : handle'[g].at = "added" =>
                      [host |-> g, last_offset |-> handle'[g].last_offset] \in metas'
      BY <1>0, <2>4 DEF Inv, ExactOK
    <3>5. \A h \in Hosts : h # client'[c].by => handle'[h].at = "closed"
      BY <2>4, <2>6, <3>1
    <3> QED BY <1>1, <2>7, <3>1, <3>3, <3>4, <3>5 DEF ExactOK
  <2> QED BY <2>8, <2>9, <2>10, <2>11, <2>12, <2>13, <2>14 DEF Inv
<1> QED BY <1>2, <1>3

LEMMA BeginTruncateInv ==
  ASSUME Inv, NEW c \in Clients, NEW by \in Hosts \cup {NoHandle}, NEW offset \in Offsets,
         BeginTruncate(c, by, offset)
  PROVE  Inv'
<1>0. /\ TypeOK /\ history \in History /\ client[c] \in Client /\ client[c].at = "idle"
      /\ UNCHANGED <<handle, live, stale, metas, opens>> /\ metas \in SUBSET Metas
      /\ by # NoHandle => handle[by].at = "open" /\ handle[by] \in Handle /\ by \in Hosts
  BY DEF Inv, TypeOK, BeginTruncate
<1>1. /\ client' \in [Clients -> Client] /\ \A d \in Clients \ {c} : client'[d] = client[d]
      /\ client'[c].job = "truncate" /\ client'[c].by = by /\ client'[c].offset = offset
      /\ client'[c].steady = {} /\ client'[c].at \in {"empty", "metas", "sized"}
      /\ client'[c].at = "empty" => offset = 0 /\ client'[c].left = metas /\ client'[c].size = 0
      /\ client'[c].at = "metas" => by = NoHandle /\ client'[c].open = live \cup stale /\ client'[c].size = 0
      /\ client'[c].at = "sized" => by # NoHandle /\ client'[c].size = handle[by].last_offset /\ offset # 0
  <2>1. CASE offset = 0
    <3> DEFINE e == [Idle EXCEPT !.job = "truncate", !.by = by, !.at = "empty", !.left = metas]
    <3>1. /\ e \in Client /\ e.job = "truncate" /\ e.by = by /\ e.offset = 0 /\ e.steady = {}
          /\ e.at = "empty" /\ e.left = metas /\ e.size = 0
      BY <1>0, IdleType DEF Client
    <3>2. client' = [client EXCEPT ![c] = e]
      BY <2>1 DEF BeginTruncate
    <3> HIDE DEF e
    <3> QED BY <1>0, <2>1, <3>1, <3>2 DEF TypeOK
  <2>2. CASE offset # 0 /\ by = NoHandle
    <3> DEFINE e == [Begun(by) EXCEPT !.job = "truncate", !.offset = offset, !.steady = {}]
    <3>1. /\ Begun(by) \in Client /\ Begun(by).at = "metas" /\ Begun(by).by = by
          /\ Begun(by).open = live \cup stale /\ Begun(by).size = 0
      BY <1>0, BegunType
    <3>2. /\ e \in Client /\ e.job = "truncate" /\ e.by = by /\ e.offset = offset /\ e.steady = {}
          /\ e.at = "metas" /\ e.open = live \cup stale /\ e.size = 0
      BY <3>1 DEF Client
    <3>3. client' = [client EXCEPT ![c] = e]
      BY <2>2 DEF BeginTruncate
    <3> HIDE DEF e
    <3> QED BY <1>0, <2>2, <3>2, <3>3 DEF TypeOK
  <2>3. CASE offset # 0 /\ by # NoHandle
    <3> DEFINE e == [Idle EXCEPT !.job = "truncate", !.by = by, !.offset = offset, !.at = "sized",
                                 !.size = handle[by].last_offset]
    <3>1. handle[by].last_offset \in Offsets
      BY <1>0, <2>3 DEF Handle
    <3>2. /\ e \in Client /\ e.job = "truncate" /\ e.by = by /\ e.offset = offset /\ e.steady = {}
          /\ e.at = "sized" /\ e.size = handle[by].last_offset
      BY <3>1, IdleType DEF Client
    <3>3. client' = [client EXCEPT ![c] = e]
      BY <2>3 DEF BeginTruncate
    <3> HIDE DEF e
    <3> QED BY <1>0, <2>3, <3>2, <3>3 DEF TypeOK
  <2> QED BY <2>1, <2>2, <2>3
<1>2. \A h \in Hosts : /\ history.written[h] \in Offsets /\ Min({history.written[h], offset}) \in Offsets
                       /\ Min({history.written[h], offset}) <= history.written[h]
                       /\ Min({history.written[h], offset}) <= offset
  BY <1>0, ExtremaOfTwo DEF History
<1>3. /\ history' \in History /\ history'.end = history.end /\ history'.highest = history.highest
      /\ history'.written = [h \in Hosts |-> Min({history.written[h], offset})]
      /\ history'.exact = (/\ history.exact /\ ~(\E d \in Clients : Truncating(d))
                           /\ \A h \in Hosts \ {by} : handle[h].at = "closed"
                           /\ (by # NoHandle /\ offset > 0 => handle[by].last_offset = history.end))
  <2> DEFINE w == [h \in Hosts |-> Min({history.written[h], offset})]
             x == /\ history.exact /\ ~(\E d \in Clients : Truncating(d))
                  /\ \A h \in Hosts \ {by} : handle[h].at = "closed"
                  /\ (by # NoHandle /\ offset > 0 => handle[by].last_offset = history.end)
  <2>1. w \in [Hosts -> Offsets] /\ x \in BOOLEAN
    BY <1>2
  <2>2. history' = [history EXCEPT !.written = w, !.exact = x]
    BY <1>0 DEF BeginTruncate, History
  <2> HIDE DEF w, x
  <2>3. /\ history' \in History /\ history'.end = history.end /\ history'.highest = history.highest
        /\ history'.written = w /\ history'.exact = x
    BY <1>0, <2>1, <2>2 DEF History
  <2> QED BY <2>3 DEF w, x
<1>4. /\ offset \in Nat /\ history.highest \in Nat /\ history.end \in Nat
      /\ \A m \in metas : m.last_offset \in Nat
      /\ \A h \in Hosts : handle[h].last_offset \in Nat /\ history.written[h] \in Nat
                           /\ Min({history.written[h], offset}) \in Nat
      /\ \A d \in Clients : client[d].offset \in Nat
  BY <1>0, <1>2, OffsetsAreNat DEF TypeOK, History, Metas, Handle, Client
<1>5. TypeOK'
  BY <1>0, <1>1, <1>3 DEF TypeOK
<1>6. HandlesOK'
  BY <1>0, <1>1, NoHandleAssumption DEF Inv, HandlesOK, Using
<1>7. ClientsOK'
  BY <1>0, <1>1 DEF Inv, ClientsOK
<1>8. HighestOK'
  <2>1. client'[c].size <= history.highest
    BY <1>0, <1>1, <1>4 DEF Inv, HighestOK
  <2>2. client'[c].at \in {"cut", "empty", "handle"} => client'[c].offset <= history.highest
    BY <1>1, <1>4
  <2>3. ASSUME NEW d \in Clients
        PROVE  /\ client'[d].size <= history'.highest
               /\ client'[d].at \in {"cut", "empty", "handle"} => client'[d].offset <= history'.highest
    <3>1. CASE d = c
      BY <1>3, <2>1, <2>2, <3>1
    <3>2. CASE d # c
      BY <1>1, <1>3, <3>2 DEF Inv, HighestOK
    <3> QED BY <3>1, <3>2
  <2> QED BY <1>0, <1>3, <2>3 DEF Inv, HighestOK
<1>9. WrittenOK'
  <2>1. ASSUME NEW d \in Clients, NEW g \in Hosts, Truncating(d)'
        PROVE  history'.written[g] <= client'[d].offset
    <3>1. CASE d = c
      BY <1>1, <1>2, <1>3, <3>1
    <3>2. CASE d # c
      <4>1. history.written[g] <= client[d].offset
        BY <1>1, <2>1, <3>2 DEF Inv, WrittenOK, Truncating
      <4> QED BY <1>1, <1>2, <1>3, <1>4, <3>2, <4>1
    <3> QED BY <3>1, <3>2
  <2>2. ASSUME NEW g \in Hosts \ stale
        PROVE  \/ history'.written[g] = 0
               \/ handle[g].at = "open" /\ history'.written[g] <= handle[g].last_offset
               \/ \E m \in metas : m.host = g /\ history'.written[g] <= m.last_offset
    <3>1. \/ history.written[g] = 0
          \/ handle[g].at = "open" /\ history.written[g] <= handle[g].last_offset
          \/ \E m \in metas : m.host = g /\ history.written[g] <= m.last_offset
      BY DEF Inv, WrittenOK
    <3>2. \A x \in Nat : history.written[g] <= x => history'.written[g] <= x
      BY <1>2, <1>3, <1>4
    <3>3. history.written[g] = 0 => history'.written[g] = 0
      BY <1>2, <1>3, <1>4
    <3> QED BY <1>4, <3>1, <3>2, <3>3
  <2> QED BY <1>0, <2>1, <2>2 DEF WrittenOK
<1>10. BytesAreCounted'
  BY <1>0 DEF Inv, BytesAreCounted
<1>11. ExactOK'
  <2> SUFFICES ASSUME history.exact, \A d \in Clients : ~Truncating(d),
                      \A h \in Hosts \ {by} : handle[h].at = "closed",
                      by # NoHandle /\ offset > 0 => handle[by].last_offset = history.end
               PROVE  ExactOK'
    BY <1>3 DEF ExactOK
  <2>1. Rest /\ Rest' /\ stale = {}
    BY <1>0, <1>3 DEF Inv, ExactOK, Rest
  <2>2. \A d \in Clients : Truncating(d)' => d = c
    BY <1>1 DEF Truncating
  <2>3. by = NoHandle => live = {}
    BY <1>0, NoHandleAssumption DEF Inv, HandlesOK, TypeOK
  <2>4. TruncateOK(c)'
    <3>1. client'[c].at = "metas" => client'[c].by = NoHandle /\ client'[c].open = {} /\ Rest'
      BY <1>1, <2>1, <2>3
    <3>2. client'[c].at = "sized" => \A m \in metas' : m.last_offset <= client'[c].size
      BY <1>0, <1>1, <1>4, <2>1 DEF Rest
    <3>3. client'[c].at = "sized" => client'[c].by # NoHandle
      BY <1>1
    <3>4. client'[c].at = "empty" => metas' \subseteq client'[c].left
      BY <1>0, <1>1
    <3>5. client'[c].at \notin {"cut", "handle"}
      BY <1>1
    <3> QED BY <3>1, <3>2, <3>3, <3>4, <3>5 DEF TruncateOK
  <2>5. stale' = {} /\ \A g \in Hosts : handle'[g].at = "added" =>
                    [host |-> g, last_offset |-> handle'[g].last_offset] \in metas'
    BY <1>0, <2>1 DEF Inv, ExactOK
  <2>6. \A h \in Hosts : h # client'[c].by => handle'[h].at = "closed"
    BY <1>0, <1>1
  <2>7. Truncating(c)'
    BY <1>1 DEF Truncating
  <2> QED BY <2>2, <2>4, <2>5, <2>6, <2>7 DEF ExactOK
<1> QED BY <1>5, <1>6, <1>7, <1>8, <1>9, <1>10, <1>11 DEF Inv

LEMMA EndLoopInv ==
  ASSUME Inv, NEW c \in Clients, EndLoop(c)
  PROVE  Inv'
<1>0. /\ TypeOK /\ client[c] \in Client /\ client[c].at \in {"cut", "empty"} /\ client[c].left = {}
      /\ UNCHANGED <<handle, live, stale, metas, opens, history>>
  BY DEF Inv, TypeOK, EndLoop
<1>1. /\ client' \in [Clients -> Client] /\ \A d \in Clients \ {c} : client'[d] = client[d]
      /\ client'[c].at = "handle" /\ client'[c].job = client[c].job /\ client'[c].by = client[c].by
      /\ client'[c].offset = client[c].offset /\ client'[c].size = client[c].size
      /\ client'[c].open = client[c].open /\ client'[c].steady = client[c].steady
  BY <1>0 DEF EndLoop, TypeOK, Client
<1>2. client[c].job = "truncate" /\ Truncating(c) /\ Truncating(c)'
  BY <1>0, <1>1 DEF Inv, ClientsOK, Truncating
<1>3. \A h \in Hosts : Using(c, h)' => handle[h].at = "open"
  BY <1>0, <1>1 DEF Using, Inv, HandlesOK
<1>4. client'[c].steady \cap (live \cup stale \cup client'[c].open) = {}
  BY <1>1 DEF Inv, ClientsOK
<1>5. client'[c].size <= history.highest /\ client'[c].offset <= history.highest
  BY <1>0, <1>1 DEF Inv, HighestOK
<1>6. ASSUME history.exact PROVE TruncateOK(c)'
  <2>1. TruncateOK(c)
    BY <1>2, <1>6 DEF Inv, ExactOK
  <2>2. client[c].at = "empty" => client[c].offset = 0 /\ metas = {}
    BY <1>0, <2>1 DEF Inv, ClientsOK, TruncateOK
  <2>3. \A m \in metas : m.last_offset \in Nat /\ client[c].offset \in Nat
    BY <1>0, OffsetsAreNat DEF TypeOK, Metas, Client
  <2>4. client[c].at = "cut" => /\ \A m \in metas : m.last_offset <= client[c].offset
                                /\ client[c].by = NoHandle => \E m \in metas : m.last_offset >= client[c].offset
    BY <1>0, <2>1, <2>3 DEF TruncateOK
  <2>5. /\ \A m \in metas : m.last_offset <= client[c].offset
        /\ client[c].by = NoHandle =>
             client[c].offset = 0 \/ \E m \in metas : m.last_offset >= client[c].offset
    BY <1>0, <2>2, <2>4
  <2> QED BY <1>0, <1>1, <2>5 DEF TruncateOK
<1> QED BY <1>0, <1>1, <1>2, <1>3, <1>4, <1>5, <1>6, ClientMoved

(* A truncate takes m from the droppings, and may put another one there    *)
(* for the same host that ends at its offset.                              *)
LEMMA MetaMoved ==
  ASSUME Inv, NEW c \in Clients, client[c].at \in {"cut", "empty"}, NEW m \in Metas,
         m \in client[c].left, client' = [client EXCEPT ![c].left = @ \ {m}],
         metas' \in SUBSET Metas, metas \ {m} \subseteq metas',
         \A n \in metas' : n \in metas \ {m} \/ n = Renamed(m, client[c].offset),
         client[c].at = "cut" => Renamed(m, client[c].offset) \in metas',
         client[c].at = "empty" => metas' \subseteq metas \ {m},
         UNCHANGED <<handle, live, stale, opens, history>>
  PROVE  Inv'
<1>0. /\ TypeOK /\ client[c] \in Client /\ history \in History
      /\ client[c].left \in SUBSET Metas /\ client[c].left \ {m} \in SUBSET Metas
  BY DEF Inv, TypeOK, Client
<1>1. /\ client' \in [Clients -> Client] /\ \A d \in Clients \ {c} : client'[d] = client[d]
      /\ client'[c].at = client[c].at /\ client'[c].job = client[c].job /\ client'[c].by = client[c].by
      /\ client'[c].offset = client[c].offset /\ client'[c].size = client[c].size
      /\ client'[c].open = client[c].open /\ client'[c].steady = client[c].steady
      /\ client'[c].left = client[c].left \ {m}
  BY <1>0 DEF TypeOK, Client
<1>2. /\ client[c].job = "truncate" /\ Truncating(c) /\ client[c].offset <= history.highest
  BY DEF Inv, ClientsOK, HighestOK, Truncating
<1>3. \A d \in Clients : /\ Truncating(d)' = Truncating(d) /\ client'[d].by = client[d].by
                         /\ client'[d].offset = client[d].offset /\ client'[d].at = client[d].at
                         /\ client'[d].job = client[d].job /\ client'[d].open = client[d].open
                         /\ client'[d].size = client[d].size /\ client'[d].steady = client[d].steady
  BY <1>1 DEF Truncating
<1>4. /\ client[c].offset \in Offsets /\ client[c].offset \in Nat
      /\ \A h \in Hosts : history.written[h] \in Nat
  BY <1>0, OffsetsAreNat DEF Client, History
<1> DEFINE r == Renamed(m, client[c].offset)
<1>5. r \in Metas /\ r.host = m.host /\ r.last_offset = client[c].offset
  BY <1>4 DEF Metas, Renamed
<1> HIDE DEF r
<1>6. TypeOK'
  BY <1>0, <1>1 DEF TypeOK
<1>7. HandlesOK'
  BY <1>3 DEF Inv, HandlesOK, Using
<1>8. ClientsOK'
  BY <1>3 DEF Inv, ClientsOK
<1>9. HighestOK'
  <2>1. \A n \in metas' : n.last_offset <= history.highest
    BY <1>2, <1>5 DEF Inv, HighestOK, r
  <2> QED BY <1>3, <2>1 DEF Inv, HighestOK
<1>10. WrittenOK'
  <2>1. \A d \in Clients, h \in Hosts : Truncating(d)' => history'.written[h] <= client'[d].offset
    BY <1>3 DEF Inv, WrittenOK
  <2>2. ASSUME NEW h \in Hosts \ stale
        PROVE  \/ history.written[h] = 0
               \/ handle[h].at = "open" /\ history.written[h] <= handle[h].last_offset
               \/ \E n \in metas' : n.host = h /\ history.written[h] <= n.last_offset
    <3>1. \/ history.written[h] = 0
          \/ handle[h].at = "open" /\ history.written[h] <= handle[h].last_offset
          \/ \E n \in metas : n.host = h /\ history.written[h] <= n.last_offset
      BY DEF Inv, WrittenOK
    <3>2. history.written[h] <= client[c].offset
      BY <1>2 DEF Inv, WrittenOK
    <3>3. client[c].offset = 0 => history.written[h] = 0
      BY <1>4, <3>2
    <3>4. CASE client[c].at = "empty"
      BY <3>3, <3>4 DEF Inv, ClientsOK
    <3>5. CASE client[c].at = "cut"
      <4>1. CASE m.host = h
        <5>1. r \in metas'
          BY <3>5 DEF r
        <5> QED BY <1>5, <3>2, <4>1, <5>1
      <4>2. CASE m.host # h
        BY <3>1, <4>2
      <4> QED BY <4>1, <4>2
    <3> QED BY <3>4, <3>5
  <2> QED BY <2>1, <2>2 DEF WrittenOK
<1>11. BytesAreCounted'
  BY DEF Inv, BytesAreCounted
<1>12. ExactOK'
  <2> SUFFICES ASSUME history.exact PROVE ExactOK'
    BY DEF ExactOK
  <2>1. /\ \A d \in Clients : Truncating(d) => d = c
        /\ \A h \in Hosts : h # client[c].by => handle[h].at = "closed"
        /\ TruncateOK(c) /\ stale = {}
    BY <1>2 DEF Inv, ExactOK
  <2>2. \A h \in Hosts : handle[h].at # "added"
    BY <1>2, <2>1 DEF Inv, HandlesOK, Using
  <2>3. CASE client[c].at = "cut"
    <3>1. /\ client[c].left \subseteq metas /\ \A n \in metas : n.last_offset > client[c].offset => n \in client[c].left
          /\ client[c].by = NoHandle => \E n \in metas : n.last_offset >= client[c].offset
      BY <2>1, <2>3 DEF TruncateOK
    <3>2. \A n \in metas' : n.last_offset > client[c].offset => n \in client[c].left \ {m}
      BY <1>4, <1>5, <3>1 DEF r
    <3>3. client[c].by = NoHandle => \E n \in metas' : n.last_offset >= client[c].offset
      <4>1. r \in metas'
        BY <2>3 DEF r
      <4> QED BY <1>4, <1>5, <4>1
    <3>4. TruncateOK(c)'
      BY <1>1, <2>3, <3>1, <3>2, <3>3 DEF TruncateOK
    <3> QED BY <1>2, <1>3, <2>1, <2>2, <3>4 DEF ExactOK
  <2>4. CASE client[c].at = "empty"
    <3>1. metas' \subseteq client'[c].left
      BY <1>1, <2>1, <2>4 DEF TruncateOK
    <3>2. TruncateOK(c)'
      BY <1>1, <2>4, <3>1 DEF TruncateOK
    <3> QED BY <1>2, <1>3, <2>1, <2>2, <3>2 DEF ExactOK
  <2> QED BY <2>3, <2>4
<1> QED BY <1>6, <1>7, <1>8, <1>9, <1>10, <1>11, <1>12 DEF Inv

LEMMA TruncateMetaInv ==
  ASSUME Inv, NEW c \in Clients, NEW m \in client[c].left, TruncateMeta(c, m)
  PROVE  Inv'
<1>0. /\ TypeOK /\ client[c] \in Client /\ client[c].at = "cut" /\ metas \in SUBSET Metas
      /\ UNCHANGED <<handle, live, stale, opens, history>>
      /\ client[c].left \in SUBSET Metas /\ m \in Metas
  BY DEF Inv, TypeOK, TruncateMeta, Client
<1>1. client[c].job = "truncate" /\ Truncating(c) /\ client[c].offset <= history.highest
  BY <1>0 DEF Inv, ClientsOK, HighestOK, Truncating
<1>2. /\ m.last_offset \in Nat /\ client[c].offset \in Nat
  BY <1>0, OffsetsAreNat DEF Metas, Client
<1>3. ASSUME UNCHANGED metas, NEW left \in SUBSET Metas, client' = [client EXCEPT ![c].left = left],
             history.exact => /\ left \subseteq metas
                              /\ \A n \in metas : n.last_offset > client[c].offset => n \in left
      PROVE  Inv'
  <2>1. /\ client' \in [Clients -> Client] /\ \A d \in Clients \ {c} : client'[d] = client[d]
        /\ client'[c].at = client[c].at /\ client'[c].job = client[c].job /\ client'[c].by = client[c].by
        /\ client'[c].offset = client[c].offset /\ client'[c].size = client[c].size
        /\ client'[c].open = client[c].open /\ client'[c].steady = client[c].steady
        /\ client'[c].left = left
    BY <1>0, <1>3 DEF TypeOK, Client
  <2>2. \A h \in Hosts : Using(c, h)' => handle[h].at = "open"
    BY <1>0, <2>1 DEF Using, Inv, HandlesOK
  <2>3. client'[c].steady \cap (live \cup stale \cup client'[c].open) = {}
    BY <2>1 DEF Inv, ClientsOK
  <2>4. client'[c].size <= history.highest
    BY <2>1 DEF Inv, HighestOK
  <2>5. Truncating(c)'
    BY <1>1, <2>1 DEF Truncating
  <2>6. ASSUME history.exact PROVE TruncateOK(c)'
    <3>1. TruncateOK(c)
      BY <1>1, <2>6 DEF Inv, ExactOK
    <3> QED BY <1>0, <1>3, <2>1, <2>6, <3>1 DEF TruncateOK
  <2>7. client'[c].at = "cut" /\ client'[c].job = "truncate"
    BY <1>0, <1>1, <2>1
  <2> QED BY <1>0, <1>1, <1>3, <2>1, <2>2, <2>3, <2>4, <2>5, <2>6, <2>7, ClientMoved
<1>4. history.exact => /\ client[c].left \subseteq metas
                       /\ \A n \in metas : n.last_offset > client[c].offset => n \in client[c].left
  BY <1>0, <1>1 DEF Inv, ExactOK, TruncateOK
<1>5. CASE m.last_offset <= client[c].offset
  <2>1. UNCHANGED metas /\ client' = [client EXCEPT ![c].left = client[c].left \ {m}]
    BY <1>0, <1>2, <1>5 DEF TruncateMeta, TypeOK
  <2>2. client[c].left \ {m} \in SUBSET Metas
    BY <1>0
  <2>3. history.exact =>
          /\ client[c].left \ {m} \subseteq metas
          /\ \A n \in metas : n.last_offset > client[c].offset => n \in client[c].left \ {m}
    BY <1>2, <1>4, <1>5
  <2> QED BY <1>3, <2>1, <2>2, <2>3
<1>6. CASE m.last_offset > client[c].offset /\ m \in metas
  <2>1. /\ metas' = (metas \ {m}) \cup {Renamed(m, client[c].offset)}
        /\ client' = [client EXCEPT ![c].left = @ \ {m}]
    BY <1>2, <1>6 DEF TruncateMeta
  <2>2. Renamed(m, client[c].offset) \in Metas
    BY <1>0 DEF Renamed, Metas, Client
  <2>3. /\ metas' \in SUBSET Metas /\ metas \ {m} \subseteq metas'
        /\ \A n \in metas' : n \in metas \ {m} \/ n = Renamed(m, client[c].offset)
        /\ Renamed(m, client[c].offset) \in metas'
    BY <1>0, <2>1, <2>2
  <2>4. client[c].at \in {"cut", "empty"} /\ client[c].at # "empty"
    BY <1>0
  <2> QED BY <1>0, <2>1, <2>3, <2>4, MetaMoved
<1>7. CASE m.last_offset > client[c].offset /\ m \notin metas
  <2>1. UNCHANGED metas /\ client' = [client EXCEPT ![c].left = {}]
    BY <1>2, <1>7 DEF TruncateMeta
  <2>2. ~history.exact
    BY <1>4, <1>7
  <2>3. {} \in SUBSET Metas
    OBVIOUS
  <2> QED BY <1>3, <2>1, <2>2, <2>3
<1> QED BY <1>2, <1>5, <1>6, <1>7

LEMMA UnlinkMetaInv ==
  ASSUME Inv, NEW c \in Clients, NEW m \in client[c].left, UnlinkMeta(c, m)
  PROVE  Inv'
<1>1. /\ client[c].at = "empty" /\ metas' = metas \ {m} /\ metas \in SUBSET Metas
      /\ client[c].left \in SUBSET Metas /\ m \in Metas
      /\ client' = [client EXCEPT ![c].left = @ \ {m}] /\ UNCHANGED <<handle, live, stale, opens, history>>
  BY DEF Inv, TypeOK, UnlinkMeta, Client
<1>2. /\ metas' \in SUBSET Metas /\ client[c].at \in {"cut", "empty"} /\ client[c].at # "cut"
      /\ metas \ {m} \subseteq metas' /\ metas' \subseteq metas \ {m}
      /\ \A n \in metas' : n \in metas \ {m} \/ n = Renamed(m, client[c].offset)
  BY <1>1
<1> QED BY <1>1, <1>2, MetaMoved

(* Metadata::truncate of a handle without holes keeps its bytes counted.   *)
LEMMA TruncatedCounts ==
  ASSUME NEW w \in Handle, NEW offset \in Offsets, NEW dense \in BOOLEAN,
         NEW v, v = Truncated([w EXCEPT !.dense = dense], offset)
  PROVE  /\ v \in Handle /\ v.at = w.at /\ v.last_offset = offset /\ v.dense = dense
         /\ offset = 0 => v.total_bytes = 0
         /\ offset <= w.last_offset /\ w.last_offset <= w.total_bytes /\ w.total_bytes <= MaxBytes
              => offset <= v.total_bytes /\ v.total_bytes <= MaxBytes
<1>1. /\ w.last_offset \in Nat /\ w.total_bytes \in Nat /\ offset \in Nat /\ MaxBytes \in Nat
  BY OffsetsAreNat, NoWrap, BoundsAssumption DEF Handle
<1> DEFINE less == (w.total_bytes - (w.last_offset - offset)) % 2^Width
           total == IF offset = 0 THEN 0 ELSE IF w.last_offset > offset THEN less ELSE w.total_bytes
<1>2. less \in Totals
  <2>1. w.total_bytes - (w.last_offset - offset) \in Int
    BY <1>1
  <2> HIDE DEF Totals
  <2> QED BY <2>1, NoWrap
<1>3. offset <= w.last_offset /\ w.last_offset <= w.total_bytes /\ w.total_bytes <= MaxBytes
        => less = w.total_bytes - (w.last_offset - offset)
  <2>1. ASSUME offset <= w.last_offset, w.last_offset <= w.total_bytes, w.total_bytes <= MaxBytes
        PROVE  w.total_bytes - (w.last_offset - offset) \in 0..MaxBytes
    BY <1>1, <2>1
  <2> QED BY <2>1, NoWrap
<1> HIDE DEF less
<1>4. total \in Totals
  BY <1>2, ZeroIsTotal DEF Handle
<1>5. offset <= w.last_offset /\ w.last_offset <= w.total_bytes /\ w.total_bytes <= MaxBytes
        => offset <= total /\ total <= MaxBytes
  BY <1>1, <1>3
<1>6. v = [w EXCEPT !.dense = dense, !.last_offset = offset, !.total_bytes = total]
  BY DEF Truncated, Handle, less
<1>7. offset = 0 => total = 0
  OBVIOUS
<1> HIDE DEF total
<1>8. v \in Handle /\ v.at = w.at /\ v.last_offset = offset /\ v.dense = dense /\ v.total_bytes = total
  BY <1>4, <1>6 DEF Handle
<1> QED BY <1>5, <1>7, <1>8

LEMMA TruncateHandleInv ==
  ASSUME Inv, NEW c \in Clients, TruncateHandle(c)
  PROVE  Inv'
<1> DEFINE by == client[c].by
           offset == client[c].offset
<1>0. /\ TypeOK /\ client[c] \in Client /\ history \in History /\ client[c].at = "handle"
      /\ by \in Hosts \cup {NoHandle} /\ offset \in Offsets /\ UNCHANGED <<live, stale, metas, opens>>
      /\ client' = [client EXCEPT ![c] = Idle] /\ history' = [history EXCEPT !.end = offset]
  BY DEF Inv, TypeOK, TruncateHandle, Client
<1>1. client[c].job = "truncate" /\ Truncating(c) /\ offset <= history.highest
  BY <1>0 DEF Inv, ClientsOK, HighestOK, Truncating
<1>2. client' \in [Clients -> Client] /\ client'[c] = Idle /\ \A d \in Clients \ {c} : client'[d] = client[d]
  BY <1>0, IdleType DEF TypeOK
<1>3. /\ history' \in History /\ history'.end = offset /\ history'.highest = history.highest
      /\ history'.exact = history.exact /\ history'.written = history.written
  BY <1>0 DEF History
<1>4. /\ offset \in Nat /\ history.highest \in Nat /\ MaxBytes \in Nat
      /\ \A h \in Hosts : history.written[h] \in Nat /\ handle[h].last_offset \in Nat
      /\ \A m \in metas : m.last_offset \in Nat
  BY <1>0, OffsetsAreNat, BoundsAssumption DEF History, TypeOK, Handle, Metas
<1>5. /\ handle' \in [Hosts -> Handle] /\ \A h \in Hosts : h # by => handle'[h] = handle[h]
      /\ \A h \in Hosts : handle'[h].at = handle[h].at
      /\ by # NoHandle => /\ by \in Hosts /\ handle[by].at = "open" /\ handle'[by].last_offset = offset
                          /\ handle'[by].dense =>
                               offset <= handle'[by].total_bytes /\ handle'[by].total_bytes <= MaxBytes
  <2>1. CASE by = NoHandle
    <3>1. handle' = handle
      BY <2>1 DEF TruncateHandle
    <3> QED BY <1>0, <2>1, <3>1, NoHandleAssumption DEF TypeOK
  <2>2. CASE by # NoHandle
    <3>0. by \in Hosts /\ handle[by] \in Handle /\ handle[by].at = "open"
      BY <1>0, <2>2 DEF TypeOK, Inv, HandlesOK, Using
    <3> DEFINE dense == offset = 0 \/ (handle[by].dense /\ offset <= handle[by].last_offset)
               v == Truncated([handle[by] EXCEPT !.dense = dense], offset)
    <3>1. handle' = [handle EXCEPT ![by] = v]
      BY <1>0, <2>2, <3>0 DEF TruncateHandle, TypeOK, Handle
    <3>2. dense \in BOOLEAN
      OBVIOUS
    <3>3. dense => offset = 0 \/ (/\ offset <= handle[by].last_offset
                                  /\ handle[by].last_offset <= handle[by].total_bytes
                                  /\ handle[by].total_bytes <= MaxBytes)
      BY <3>0 DEF Inv, BytesAreCounted
    <3> HIDE DEF dense
    <3>4. /\ v \in Handle /\ v.at = handle[by].at /\ v.last_offset = offset /\ v.dense = dense
          /\ offset = 0 => v.total_bytes = 0
          /\ offset <= handle[by].last_offset /\ handle[by].last_offset <= handle[by].total_bytes
                /\ handle[by].total_bytes <= MaxBytes
               => offset <= v.total_bytes /\ v.total_bytes <= MaxBytes
      BY <1>0, <3>0, <3>2, TruncatedCounts
    <3> HIDE DEF v, by, offset
    <3>5. dense => offset <= v.total_bytes /\ v.total_bytes <= MaxBytes
      BY <1>4, <3>3, <3>4
    <3> QED BY <1>0, <3>0, <3>1, <3>4, <3>5 DEF TypeOK
  <2> QED BY <2>1, <2>2
<1> HIDE DEF by, offset
<1>6. TypeOK'
  BY <1>0, <1>2, <1>3, <1>5 DEF TypeOK
<1>7. HandlesOK'
  <2>1. \A d \in Clients, h \in Hosts : Using(d, h)' => Using(d, h)
    BY <1>2, IdleType DEF Using
  <2>2. ASSUME NEW h \in Hosts, handle'[h].at = "closed" PROVE handle'[h] = Closed
    <3>1. h # by
      BY <1>5, <2>2, NoHandleAssumption
    <3> QED BY <1>5, <2>2, <3>1 DEF Inv, HandlesOK
  <2> QED BY <1>0, <1>5, <2>1, <2>2 DEF Inv, HandlesOK
<1>8. ClientsOK'
  BY <1>0, <1>2, IdleType DEF Inv, ClientsOK
<1>9. HighestOK'
  <2>1. \A h \in Hosts : handle'[h].last_offset <= history.highest
    BY <1>1, <1>5, NoHandleAssumption DEF Inv, HighestOK
  <2> QED BY <1>0, <1>2, <1>3, <1>4, <2>1, IdleType DEF Inv, HighestOK
<1>10. WrittenOK'
  <2>1. ASSUME NEW d \in Clients, NEW h \in Hosts, Truncating(d)'
        PROVE  history'.written[h] <= client'[d].offset
    <3>1. d # c
      BY <1>2, <2>1, IdleType DEF Truncating
    <3> QED BY <1>2, <1>3, <2>1, <3>1 DEF Inv, WrittenOK, Truncating
  <2>2. ASSUME NEW h \in Hosts \ stale
        PROVE  \/ history.written[h] = 0
               \/ handle'[h].at = "open" /\ history.written[h] <= handle'[h].last_offset
               \/ \E m \in metas : m.host = h /\ history.written[h] <= m.last_offset
    <3>1. CASE h = by
      <4>1. history.written[h] <= offset
        BY <1>1 DEF Inv, WrittenOK, offset
      <4> QED BY <1>5, <3>1, <4>1, NoHandleAssumption
    <3>2. CASE h # by
      BY <1>5, <3>2 DEF Inv, WrittenOK
    <3> QED BY <3>1, <3>2
  <2> QED BY <1>0, <1>3, <2>1, <2>2 DEF WrittenOK
<1>11. BytesAreCounted'
  <2> SUFFICES ASSUME NEW h \in Hosts, handle'[h].dense
               PROVE  handle'[h].last_offset <= handle'[h].total_bytes /\ handle'[h].total_bytes <= MaxBytes
    BY DEF BytesAreCounted
  <2>1. CASE h = by
    BY <1>5, <2>1, NoHandleAssumption
  <2>2. CASE h # by
    BY <1>5, <2>2 DEF Inv, BytesAreCounted
  <2> QED BY <2>1, <2>2
<1>12. ExactOK'
  <2> SUFFICES ASSUME history.exact PROVE ExactOK'
    BY <1>3 DEF ExactOK
  <2>1. /\ \A d \in Clients : Truncating(d) => d = c
        /\ \A h \in Hosts : h # by => handle[h].at = "closed"
        /\ TruncateOK(c) /\ stale = {}
    BY <1>1 DEF Inv, ExactOK, by
  <2>2. \A d \in Clients : ~Truncating(d)'
    BY <1>2, <2>1, IdleType DEF Truncating
  <2>3. \A h \in Hosts : handle'[h].at # "added"
    <3>1. ASSUME NEW h \in Hosts PROVE handle[h].at # "added"
      <4>1. CASE h = by
        BY <1>5, <4>1, NoHandleAssumption
      <4>2. CASE h # by
        BY <2>1, <4>2
      <4> QED BY <4>1, <4>2
    <3> QED BY <1>5, <3>1
  <2>4. /\ \A m \in metas : m.last_offset <= offset
        /\ by = NoHandle => offset = 0 \/ \E m \in metas : m.last_offset >= offset
    BY <1>0, <2>1 DEF TruncateOK, by, offset
  <2>5. \A h \in Hosts : handle'[h].last_offset <= offset
    BY <1>4, <1>5, <2>1, NewHandle, NoHandleAssumption DEF Inv, HandlesOK
  <2>6. \/ offset = 0
        \/ \E m \in metas : m.last_offset = offset
        \/ \E h \in Hosts : handle'[h].last_offset = offset
    BY <1>4, <1>5, <2>4
  <2>7. Rest'
    BY <1>0, <1>3, <2>4, <2>5, <2>6 DEF Rest
  <2> QED BY <1>0, <2>1, <2>2, <2>3, <2>7 DEF ExactOK
<1> QED BY <1>6, <1>7, <1>8, <1>9, <1>10, <1>11, <1>12 DEF Inv

-----------------------------------------------------------------------------
LEMMA InitInv == Init => Inv
<1> SUFFICES ASSUME Init PROVE Inv
  OBVIOUS
<1>0. /\ \A h \in Hosts : handle[h] = Closed
      /\ \A c \in Clients : client[c] = Idle
      /\ live = {} /\ stale = {} /\ metas = {} /\ history.end = 0 /\ history.highest = 0
      /\ \A h \in Hosts : history.written[h] = 0
  BY DEF Init
<1>1. \A c \in Clients : ~Truncating(c) /\ \A h \in Hosts : ~Using(c, h)
  BY <1>0, IdleType DEF Truncating, Using
<1>2. TypeOK
  <2>1. handle \in [Hosts -> Handle] /\ client \in [Clients -> Client]
    BY NewHandle, IdleType DEF Init
  <2>2. history \in History
    BY ZeroIsOffset DEF Init, History
  <2>3. live \subseteq Hosts /\ stale \subseteq Hosts /\ metas \subseteq Metas /\ opens \in 0..MaxOpens
    BY BoundsAssumption DEF Init
  <2> QED BY <2>1, <2>2, <2>3 DEF TypeOK
<1>3. HandlesOK /\ ClientsOK /\ HighestOK
  BY <1>0, <1>1, NewHandle, IdleType DEF HandlesOK, ClientsOK, HighestOK
<1>4. WrittenOK
  BY <1>0, <1>1 DEF WrittenOK
<1>5. BytesAreCounted
  BY <1>0, NewHandle, BoundsAssumption DEF BytesAreCounted
<1>6. ExactOK
  BY <1>0, <1>1, NewHandle DEF ExactOK, Rest
<1> QED BY <1>2, <1>3, <1>4, <1>5, <1>6 DEF Inv

LEMMA StutterInv == Inv /\ UNCHANGED vars => Inv'
<1> SUFFICES ASSUME Inv, UNCHANGED vars PROVE Inv'
  OBVIOUS
<1>0. UNCHANGED <<handle, live, stale, metas, client, opens, history>>
  BY DEF vars
<1>1. TypeOK' /\ HandlesOK' /\ ClientsOK' /\ HighestOK'
  BY <1>0 DEF Inv, TypeOK, HandlesOK, ClientsOK, HighestOK, Using
<1>2. WrittenOK' /\ BytesAreCounted'
  BY <1>0 DEF Inv, WrittenOK, BytesAreCounted, Truncating
<1>3. ExactOK'
  BY <1>0 DEF Inv, ExactOK, Rest, TruncateOK, Truncating
<1> QED BY <1>1, <1>2, <1>3 DEF Inv

LEMMA NextInv == Inv /\ [Next]_vars => Inv'
<1> SUFFICES ASSUME Inv, [Next]_vars PROVE Inv'
  OBVIOUS
<1>1. ASSUME NEW h \in Hosts, HostStep(h) PROVE Inv'
  <2>1. CASE Open(h)
    BY <2>1, OpenInv
  <2>2. CASE Close(h)
    BY <2>2, CloseInv
  <2>3. CASE Crash(h)
    BY <2>3, CrashInv
  <2>4. ASSUME NEW offset \in Offsets, NEW bytes \in 1..MaxOffset, offset + bytes <= MaxOffset,
               Write(h, offset, bytes)
        PROVE  Inv'
    <3>1. bytes \in Nat /\ bytes > 0 /\ offset + bytes \in Offsets
      BY <2>4, BoundsAssumption DEF Offsets
    <3> QED BY <2>4, <3>1, WriteInv
  <2> QED BY <1>1, <2>1, <2>2, <2>3, <2>4 DEF HostStep
<1>2. ASSUME NEW c \in Clients, ClientStep(c) PROVE Inv'
  <2>1. ASSUME NEW by \in Hosts \cup {NoHandle}, BeginStat(c, by) PROVE Inv'
    BY <2>1, BeginStatInv
  <2>2. ASSUME NEW by \in Hosts \cup {NoHandle}, NEW offset \in Offsets, BeginTruncate(c, by, offset)
        PROVE  Inv'
    BY <2>2, BeginTruncateInv
  <2>3. CASE ReadMetas(c)
    BY <2>3, ReadMetasInv
  <2>4. CASE Smaller(c)
    BY <2>4, SmallerInv
  <2>5. CASE AsBig(c)
    BY <2>5, AsBigInv
  <2>6. CASE Bigger(c)
    BY <2>6, BiggerInv
  <2>7. CASE EndLoop(c)
    BY <2>7, EndLoopInv
  <2>8. CASE TruncateHandle(c)
    BY <2>8, TruncateHandleInv
  <2>9. ASSUME NEW m \in client[c].left, TruncateMeta(c, m) \/ UnlinkMeta(c, m) PROVE Inv'
    BY <2>9, TruncateMetaInv, UnlinkMetaInv
  <2> QED BY <1>2, <2>1, <2>2, <2>3, <2>4, <2>5, <2>6, <2>7, <2>8, <2>9 DEF ClientStep
<1> QED BY <1>1, <1>2, StutterInv DEF Next

THEOREM Invariance == Spec => []Inv
BY InitInv, NextInv, PTL DEF Spec

(* The state has its types: no offset is beyond the bound of the ends of   *)
(* writes and truncates, and total_bytes stays one of 2^Width values.      *)
THEOREM TypeCorrect == Spec => []TypeOK
<1>1. Inv => TypeOK
  BY DEF Inv
<1> QED BY <1>1, Invariance, PTL

(* total_bytes of a handle that has left no hole counts every byte below   *)
(* its last_offset, and does not wrap around, whatever truncates there     *)
(* were (Metadata::addWrite, Metadata::truncate).                          *)
THEOREM Counted == Spec => []BytesAreCounted
<1>1. Inv => BytesAreCounted
  BY DEF Inv
<1> QED BY <1>1, Invariance, PTL

(* A stat shows what the hosts that were not open have written below the   *)
(* offsets of truncates, and no end that the file has not had, for any     *)
(* number of hosts, writers, crashes and truncates.                        *)
THEOREM StatSees == Spec => []StatSeesClosedWrites
<1>1. ASSUME Inv, NEW c \in Clients, client[c].at = "metas"
      PROVE  /\ \A h \in client[c].steady : Size(c) >= history.written[h]
             /\ Size(c) <= history.highest
  <2>0. /\ TypeOK /\ client[c] \in Client /\ history \in History
    BY <1>1 DEF Inv, TypeOK
  <2>1. /\ \A h \in Hosts : history.written[h] \in Nat
        /\ Size(c) \in Nat /\ 0 <= history.highest /\ \A m \in metas : m.last_offset \in Nat
    BY <2>0, SizeBound, OffsetsAreNat DEF History, TypeOK, Metas
  <2>2. ASSUME NEW h \in client[c].steady PROVE Size(c) >= history.written[h]
    <3>1. h \in Hosts /\ h \notin live /\ h \notin stale /\ h \notin client[c].open
      BY <1>1, <2>0 DEF Client, Inv, ClientsOK
    <3>2. \/ history.written[h] = 0
          \/ \E m \in metas : m.host = h /\ history.written[h] <= m.last_offset
      BY <1>1, <3>1 DEF Inv, WrittenOK, HandlesOK
    <3>3. \A m \in metas : m.host = h => m.last_offset <= Size(c)
      BY <2>0, <3>1, SizeBound
    <3> QED BY <2>1, <3>1, <3>2, <3>3
  <2>3. Size(c) <= history.highest
    <3>1. client[c].by # NoHandle => client[c].by \in Hosts
      BY <2>0 DEF Client
    <3> QED BY <1>1, <2>0, <2>1, <3>1, SizeBound DEF Inv, HighestOK
  <2> QED BY <2>2, <2>3
<1>2. Inv => StatSeesClosedWrites
  BY <1>1 DEF StatSeesClosedWrites
<1> QED BY <1>2, Invariance, PTL

(* When everybody has closed, the greatest end in the names of the meta    *)
(* droppings is the end of the file, after any sequence of opens, writes,  *)
(* closes and truncates of which no two raced.                             *)
THEOREM ExactAtRest == Spec => []SizeIsExactAtRest
<1>1. ASSUME Inv, history.exact, live = {}, \A c \in Clients : ~Truncating(c)
      PROVE  Max({0} \cup {m.last_offset : m \in metas}) = history.end
  <2> DEFINE S == {0} \cup {m.last_offset : m \in metas}
  <2>1. S \in SUBSET (0..MaxOffset) /\ S # {} /\ MaxOffset \in Nat
    BY <1>1, ZeroIsOffset, BoundsAssumption DEF Inv, TypeOK, Metas, Offsets
  <2>2. Max(S) \in S /\ \A x \in S : x <= Max(S)
    BY <2>1, MaxOfNats
  <2>3. Rest /\ \A h \in Hosts : handle[h].last_offset = 0
    BY <1>1, NewHandle DEF Inv, ExactOK, HandlesOK
  <2>4. history.end \in Nat
    BY <1>1, OffsetsAreNat DEF Inv, TypeOK, History
  <2>5. history.end \in S /\ \A x \in S : x <= history.end
    BY <2>3, <2>4 DEF Rest
  <2>6. \A x \in S : x \in Nat
    BY <2>1
  <2> HIDE DEF S
  <2>7. Max(S) = history.end
    <3>1. Max(S) \in Nat /\ Max(S) <= history.end /\ history.end <= Max(S)
      BY <2>2, <2>5, <2>6
    <3> QED BY <2>4, <3>1
  <2> QED BY <2>7 DEF S
<1>2. Inv => SizeIsExactAtRest
  BY <1>1 DEF SizeIsExactAtRest
<1> QED BY <1>2, Invariance, PTL
=============================================================================
