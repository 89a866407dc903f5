--------------------------- MODULE PatternLookup ---------------------------
(***************************************************************************)
(* The life of one index dropping: writes enter hostIndex (HostIndex),     *)
(* Index::flush appends their patterns to the dropping (PatternUnits), a   *)
(* reader's Index::readIndex builds its dese_map from it, and              *)
(* Index::globalLookup answers from that.  What a reader is told about     *)
(* every byte is compared with the records that were flushed.              *)
(***************************************************************************)
EXTENDS Integers, Sequences, FiniteSets

CONSTANTS
  Pids,          \* the processes, numbers: std::map orders them
  Scripts,       \* the sequences of writes [id, off, len] to one dropping
  MaxFlushes,    \* bound on the flushes of one dropping
  WindowSize,    \* of the encoder: SearchWindow
  ByteSize, CodeOfL, IntLimit, Garbled   \* as in PatternUnits

ASSUME PidsAssumption == Pids \subseteq Nat
ASSUME ScriptsAssumption ==
  \A s \in Scripts :
    s \in Seq([id : Pids, off : Nat, len : Nat \ {0}]) /\ Len(s) < IntLimit
ASSUME FlushesAssumption == MaxFlushes \in Nat
ASSUME WindowSizeAssumption == WindowSize \in Nat
ASSUME IntLimitAssumption == IntLimit \in Nat \ {0}
ASSUME GarbledAssumption == Garbled \subseteq Int

VARIABLES
  script,            \* the writes still to come
  hostIndex, next_slot, physical_offsets,   \* as in HostIndex
  dropping,          \* the lists flushed to the dropping, one after another
  flushed,           \* history: the records behind them
  dese_map,          \* the reader's units
  reader             \* "none" yet, "open", or "died"

lookupVars == <<script, hostIndex, next_slot, physical_offsets, dropping, flushed, dese_map, reader>>

H == INSTANCE HostIndex
U == INSTANCE PatternUnits WITH SearchWindow <- WindowSize

LookupInit ==
  /\ script \in Scripts
  /\ hostIndex = H!NoEntries /\ next_slot = 1
  /\ physical_offsets = [p \in Pids |-> 0]
  /\ dropping = << >> /\ flushed = << >>
  /\ dese_map = U!NoUnits
  /\ reader = "none"

(* Index::addWrite.                                                        *)
Write ==
  /\ reader = "none" /\ script # << >>
  /\ LET w == Head(script) IN
     /\ hostIndex' = H!IndexAfter(hostIndex, physical_offsets, next_slot, w.off, w.len, w.id)
     /\ physical_offsets' = H!OffsetsAfter(hostIndex, physical_offsets, w.off, w.len, w.id)
     /\ next_slot' = H!SlotAfter(hostIndex, next_slot, w.off, w.id)
  /\ script' = Tail(script)
  /\ UNCHANGED <<dropping, flushed, dese_map, reader>>

(* The vector hostIndex: its slots are 1 to next_slot - 1 here, as nothing *)
(* truncates it.                                                           *)
Buffered == [i \in 1..Cardinality(DOMAIN hostIndex) |-> hostIndex[i]]

(* Index::flush: nothing for an empty buffer, and else one more list at    *)
(* the end of the dropping.                                                *)
Flush ==
  /\ reader = "none" /\ DOMAIN hostIndex # {} /\ Len(dropping) < MaxFlushes
  /\ dropping' = Append(dropping, U!Encoded(Buffered))
  /\ flushed' = Append(flushed, Buffered)
  /\ hostIndex' = H!NoEntries /\ next_slot' = 1
  /\ UNCHANGED <<script, physical_offsets, dese_map, reader>>

(* Index::readIndex of the closed dropping.  Pattern_DeSe skips the size   *)
(* in front of the first list only and takes that of a second one for the  *)
(* size of an entry: it reads the entry's size as its pid and the pid as   *)
(* the upper half of the size of its first unit, for which there is no     *)
(* memory.                                                                 *)
Read ==
  /\ reader = "none" /\ script = << >> /\ DOMAIN hostIndex = {}
  /\ IF Len(dropping) <= 1
     THEN /\ reader' = "open"
          /\ dese_map' = U!Pattern_DeSe(IF dropping = << >> THEN << >> ELSE dropping[1])
     ELSE reader' = "died" /\ UNCHANGED dese_map
  /\ UNCHANGED <<script, hostIndex, next_slot, physical_offsets, dropping, flushed>>

LookupNext == Write \/ Flush \/ Read

LookupSpec == LookupInit /\ [][LookupNext]_lookupVars

(* Index::globalLookup: what a lookup may be told.                         *)
globalLookup(q) == U!dese_map_look_up(dese_map, q)

-----------------------------------------------------------------------------
(* The types of the state.                                                 *)
LookupTypeOK ==
  /\ H!IsIndex(Pids, hostIndex, next_slot)
  /\ physical_offsets \in [Pids -> Nat]
  /\ Len(dropping) = Len(flushed) /\ Len(flushed) <= MaxFlushes
  /\ \A n \in DOMAIN flushed : flushed[n] # << >> /\ \A i \in DOMAIN flushed[n] :
       flushed[n][i] \in H!Entry(Pids)
  /\ \A o \in DOMAIN dese_map : U!StartOf(dese_map[o]) = o /\ dese_map[o].id \in Pids
  /\ reader \in {"none", "open", "died"}

(* Each flush writes every record it clears from hostIndex, with its       *)
(* offsets and length, so that analyze_unit has them back: the units of a  *)
(* process, one after another, are its records, the last of a unit being   *)
(* the first of the next as well, and unit by unit the three patterns have *)
(* the same number of values: analyze_unit writes past its list otherwise. *)
(* It is about what is written: get_ibuf_unit may read it as another.      *)
EncodingIsLossless ==
  \A n \in DOMAIN flushed : \A i \in DOMAIN dropping[n] :
    LET id == dropping[n][i].id
        entry == dropping[n][i].entry
        recs == U!Of(flushed[n], id)
        units == [j \in DOMAIN entry |-> U!analyze_unit(id, entry[j])]
    IN  /\ \A j \in DOMAIN entry :
             /\ Len(U!ValuesAlong(entry[j].phy)) = U!Size(entry[j].off) + 1
             /\ Len(U!ValuesAlong(entry[j].len)) = U!Size(entry[j].off) + 1
        /\ recs = units[1] \o
             U!FlattenSeq([j \in 1..(Len(entry) - 1) |-> Tail(units[j + 1])])

Records == UNION {{flushed[n][i] : i \in DOMAIN flushed[n]} : n \in DOMAIN flushed}

EqualLengths(id) == \A r, s \in Records : r.id = id /\ s.id = id => r.len = s.len

Offsets == 0..(U!Max({0} \cup {r.log + r.len : r \in Records}) + 1)

(* The ints that look_up computes positions with can hold those of q: the  *)
(* pattern's repetitions are not longer than an int counts, nor are there  *)
(* more of them before q.                                                  *)
InRange(u, q) ==
  LET sum == U!sumVecSeq(u.off) IN
  sum > 0 => sum <= IntLimit /\ (q - u.off.init) \div sum < IntLimit

(* A lookup never invents data.  What it finds is at the offset of a       *)
(* record of the process it names, whatever was misread or overflowed on   *)
(* the way.  If the unit was read right and its positions are in range, it *)
(* is such a record with its place in the data dropping, and if all the    *)
(* records of that process are of one length, one that holds the byte.     *)
AnswersAreRecords ==
  reader = "open" =>
    \A q \in Offsets : \A a \in globalLookup(q) : a.exist =>
      LET x == dese_map[U!Asked(dese_map, q)] IN
      \E r \in Records :
        /\ r.id = x.id /\ r.log = a.log
        /\ ~U!Misread(x.unit) /\ InRange(x.unit, q) =>
             /\ r.phy = a.phy
             /\ EqualLengths(r.id) => r.len = a.len /\ r.log <= q /\ q < r.log + r.len

(* The case the pattern index is for.  A unit of three or more records at  *)
(* ascending offsets, all of one length, into which no other unit starts   *)
(* and which is read right, answers for every byte of its records whose    *)
(* position is in range with the last of them to start before the byte.    *)
Undisturbed(o) ==
  LET u == dese_map[o].unit
      logs == U!ValuesAlong(<<u.off>>)
  IN  /\ U!Size(u.off) >= 2 /\ ~U!Misread(u)
      /\ \A i \in DOMAIN u.off.seq : u.off.seq[i] > 0
      /\ EqualLengths(dese_map[o].id)
      /\ \A p \in DOMAIN dese_map : p <= o \/ p >= U!Last(logs) + u.len[1].init

UndisturbedUnitsAnswer ==
  reader = "open" =>
    \A o \in DOMAIN dese_map : Undisturbed(o) =>
      LET rs == U!analyze_unit(dese_map[o].id, dese_map[o].unit) IN
      \A i \in DOMAIN rs : \A q \in rs[i].log..(rs[i].log + rs[i].len - 1) :
        (i = Len(rs) \/ q < rs[i + 1].log) /\ InRange(dese_map[o].unit, q) =>
          \A a \in globalLookup(q) :
            a.exist /\ a.log = rs[i].log /\ a.phy = rs[i].phy /\ a.len = rs[i].len
=============================================================================
