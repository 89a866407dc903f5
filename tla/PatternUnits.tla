---------------------------- MODULE PatternUnits ----------------------------
(***************************************************************************)
(* The pattern index between hostIndex and a lookup (src/Index.cpp), as    *)
(* operators: how flush turns the records of each process into units, what *)
(* an index dropping holds, what a reader finds in it, and how a unit      *)
(* answers the lookup of a logical offset.                                 *)
(*                                                                         *)
(* A record is [id, log, len, phy] as in HostIndex.  A pattern element is  *)
(* [init, cnt, seq]: the value init, followed by the values that the       *)
(* differences seq, cnt times over, lead to.  A unit [off, phy, len] has   *)
(* an element for the logical offsets of a run of records, and elements    *)
(* for their physical offsets and lengths.                                 *)
(***************************************************************************)
EXTENDS Integers, Sequences, FiniteSets, SequencesExt

CONSTANTS
  SearchWindow,  \* size of the sliding window: 4 in Index.h
  ByteSize,      \* number of values of a byte: 256
  CodeOfL,       \* the byte that marks the lengths of a unit: 'L'
  IntLimit,      \* one past the largest int: 2^31
  Garbled        \* the lengths that a unit may seem to have when it is misread

(* PatternDetect's operators on the window and the top of the stack, for a *)
(* scan of d that has consumed it differences and built stack.             *)
Scanning(d, it, stack) ==
  INSTANCE PatternDetect WITH
    Inputs <- {}, SearchWindow <- SearchWindow, vals <- << >>, delta <- d, iter <- it,
    pat_stack <- stack, inits <- << >>, it_2 <- 0, phase <- "scan", starts <- << >>

(* What is at some places of a list, in its order.                         *)
Nth(numbers, i) == CHOOSE n \in numbers : Cardinality({m \in numbers : m <= n}) = i
Picked(list, places) == [n \in 1..Cardinality(places) |-> list[Nth(places, n)]]

(* The first n numbers of a list added up.                                 *)
SumTo(s, n) ==
  LET sum[i \in 0..Len(s)] == IF i = 0 THEN 0 ELSE sum[i - 1] + s[i] IN sum[n]

Size(e) == Len(e.seq) * e.cnt

Differences(v) == [i \in 1..(Len(v) - 1) |-> v[i + 1] - v[i]]

(* pat_merge with the window of k differences ahead.                       *)
MergedStack(d, t, k) ==
  LET top == Last(t.stack)
      ahead == Scanning(d, t.iter, t.stack)!Ahead(k)
  IN  CASE Scanning(d, t.iter, t.stack)!OneMore(k) ->
             Append(Front(t.stack), [top EXCEPT !.cnt = @ + 1])
        [] Scanning(d, t.iter, t.stack)!Doubled(k) ->
             Append(Front(t.stack), [top EXCEPT !.cnt = @ * 2])
        [] Scanning(d, t.iter, t.stack)!SplitOff(k) ->
             Front(t.stack) \o <<[top EXCEPT !.seq = SubSeq(@, 1, Len(@) - k)],
                                 [seq |-> ahead, cnt |-> 2]>>

PushedStack(d, t) ==
  LET top == Last(t.stack) IN
  IF top.cnt # 1
  THEN Append(t.stack, [seq |-> <<d[t.iter + 1]>>, cnt |-> 1])
  ELSE Append(Front(t.stack), [top EXCEPT !.seq = Append(@, d[t.iter + 1])])

(* One turn of build_off_pat's loop.                                       *)
Turn(d, t) ==
  LET widest == {k \in 1..SearchWindow : Scanning(d, t.iter, t.stack)!Widest(k)} IN
  IF widest = {}
  THEN [iter |-> t.iter + 1, stack |-> PushedStack(d, t)]
  ELSE LET k == CHOOSE j \in widest : TRUE
       IN  [iter |-> t.iter + k, stack |-> MergedStack(d, t, k)]

(* How many values of the list precede element j: build_ps_init's walk.    *)
Before(stack, j) == SumTo([i \in 1..Len(stack) |-> Size(stack[i])], j - 1)

(* build_off_pat's loop: the stack once all the differences are consumed.  *)
Scanned(d) ==
  LET turn[n \in 1..Len(d)] ==
        IF n = 1 THEN [iter |-> 1, stack |-> <<[seq |-> <<d[1]>>, cnt |-> 1]>>]
        ELSE LET t == turn[n - 1] IN IF t.iter = Len(d) THEN t ELSE Turn(d, t)
  IN  turn[Len(d)].stack

(* build_off_pat: the elements that encode a list of at least two values.  *)
build_off_pat(v) ==
  LET stack == Scanned(Differences(v)) IN
  [j \in 1..Len(stack) |->
     [init |-> v[Before(stack, j) + 1], cnt |-> stack[j].cnt, seq |-> stack[j].seq]]

Single(x) == [init |-> x, cnt |-> 1, seq |-> <<0>>]

Logs(rs) == [i \in 1..Len(rs) |-> rs[i].log]
Phys(rs) == [i \in 1..Len(rs) |-> rs[i].phy]
Lens(rs) == [i \in 1..Len(rs) |-> rs[i].len]

(* build_unit for element e of the logical offsets, which stands for rs.   *)
build_unit(e, rs) ==
  [off |-> e, phy |-> build_off_pat(Phys(rs)), len |-> build_off_pat(Lens(rs))]

\* Mutant: begin is not advanced from unit to unit.
build_entry_FromStart(rs) ==
  LET stack == build_off_pat(Logs(rs)) IN
  [j \in 1..Len(stack) |-> build_unit(stack[j], SubSeq(rs, 1, Size(stack[j]) + 1))]

(* build_entry: an element of n differences is about n + 1 records, the    *)
(* last of which the next element is about as well.                        *)
build_entry(rs) ==
  LET stack == build_off_pat(Logs(rs)) IN
  [j \in 1..Len(stack) |->
     LET n == Before(stack, j)
     IN  build_unit(stack[j], SubSeq(rs, n + 1, n + Size(stack[j]) + 1))]

pattern_by_pid(rs) ==
  IF Len(rs) = 1
  THEN <<[off |-> Single(rs[1].log), phy |-> <<Single(rs[1].phy)>>,
          len |-> <<Single(rs[1].len)>>]>>
  ELSE build_entry(rs)

(* pattern_detection and append_to_buf: what one flush of the records rs   *)
(* appends to the index dropping, an entry for every process in the order  *)
(* of the map.                                                             *)
Of(rs, pid) == Picked(rs, {i \in 1..Len(rs) : rs[i].id = pid})

PidOrder(rs) ==
  LET pids == {rs[i].id : i \in 1..Len(rs)} IN [n \in 1..Cardinality(pids) |-> Nth(pids, n)]

Encoded(rs) ==
  LET pids == PidOrder(rs) IN
  [i \in 1..Len(pids) |-> [id |-> pids[i], entry |-> pattern_by_pid(Of(rs, pids[i]))]]

-----------------------------------------------------------------------------
(* get_ibuf_unit takes the byte after each physical element for the mark   *)
(* of the lengths if it is an L, also when it is the low byte of the next  *)
(* element's init.                                                         *)
TakenForL(u) == {i \in 2..Len(u.phy) : u.phy[i].init % ByteSize = CodeOfL}

Misread(u) == TakenForL(u) # {}

(* The physical elements before the mistaken mark, and as lengths what the *)
(* rest reads as, one byte off and past the end: any length, at any        *)
(* position.                                                               *)
Cut(u, n) ==
  [off |-> u.off,
   phy |-> SubSeq(u.phy, 1, Nth(TakenForL(u), 1) - 1),
   len |-> <<[init |-> n, cnt |-> IntLimit - 1, seq |-> <<0>>]>>]

(* The units the decoder may make of what was written for u.               *)
get_ibuf_unit(u) == IF Misread(u) THEN {Cut(u, n) : n \in Garbled} ELSE {u}

(* PatternUnitDeSe::look_up replaces a unit of three records, of which the *)
(* first two are at one offset, by its first record.                       *)
Narrow(u) == u.off.cnt = 1 /\ Len(u.off.seq) = 2 /\ u.off.seq[1] = 0

Narrowed(u) ==
  IF Narrow(u)
  THEN [off |-> [u.off EXCEPT !.seq = <<0>>],
        phy |-> [u.phy EXCEPT ![1] = [@ EXCEPT !.cnt = 1, !.seq = <<0>>]],
        len |-> [u.len EXCEPT ![1] = [@ EXCEPT !.cnt = 1, !.seq = <<0>>]]]
  ELSE u

(* An off_t or a size_t stored in an int.                                  *)
AsInt(x) == ((x + IntLimit) % (2 * IntLimit)) - IntLimit

sumVecSeq(e) == SumTo(e.seq, Len(e.seq))

\* Mutant: the rows before the value's own are not counted.
getValueByPos_FirstRow(e, pos) == e.init + SumTo(e.seq, pos % Len(e.seq))

(* The value pos differences after init.  A pos past the end is the end,   *)
(* and so is a negative one, which is compared as a size_t.                *)
getValueByPos(e, pos) ==
  LET p == IF pos \in 0..Size(e) THEN pos ELSE Size(e) IN
  e.init + sumVecSeq(e) * (p \div Len(e.seq)) + SumTo(e.seq, p % Len(e.seq))

getLastValue(e) == getValueByPos(e, Size(e))

(* What the walk to position pos has left of it at each element of a list. *)
Lefts(es, pos) ==
  LET left[i \in 1..Len(es)] ==
        IF i = 1 THEN pos
        ELSE IF left[i - 1] \in 0..Size(es[i - 1]) THEN left[i - 1]
        ELSE AsInt(left[i - 1] - Size(es[i - 1]))
  IN  left

(* The value it finds, 0 if pos is past the last, and what it has left.    *)
Walk(es, pos) ==
  LET left == Lefts(es, pos)
      here == {i \in 1..Len(es) : left[i] \in 0..Size(es[i])}
      at == CHOOSE j \in here : \A k \in here : j <= k
  IN  IF here = {} THEN [value |-> 0, left |-> AsInt(left[Len(es)] - Size(Last(es)))]
      ELSE [value |-> getValueByPos(es[at], left[at]), left |-> left[at]]

Missing == [exist |-> FALSE, died |-> FALSE, log |-> 0, phy |-> 0, len |-> 0]
Died == [Missing EXCEPT !.died = TRUE]

Answer(q, log, phy, len) ==
  IF q - log < len THEN [exist |-> TRUE, died |-> FALSE, log |-> log, phy |-> phy, len |-> len]
  ELSE Missing

\* Mutant: a record is found only by the bytes after its first.
Position_Early(e, q) ==
  LET sum == sumVecSeq(e)
      col == AsInt((q - e.init) % sum)
      row == AsInt((q - e.init) \div sum)
      column == CHOOSE n \in 0..Len(e.seq) :
                  SumTo(e.seq, n) >= col /\ \A m \in 0..(n - 1) : SumTo(e.seq, m) < col
  IN  AsInt(column - 1 + row * Len(e.seq))

(* The position of the last value that is not past q, within the           *)
(* repetitions of the pattern of an element that leads past q, if the      *)
(* ints that hold it and what it is computed from can: another if not.     *)
Position(e, q) ==
  LET sum == sumVecSeq(e)
      col == AsInt((q - e.init) % sum)
      row == AsInt((q - e.init) \div sum)
      column == CHOOSE n \in 0..Len(e.seq) :
                  SumTo(e.seq, n) > col /\ \A m \in 0..(n - 1) : SumTo(e.seq, m) <= col
  IN  AsInt(column - 1 + row * Len(e.seq))

(* Within the repetitions of the logical pattern.  The position for the    *)
(* lengths is what the walk over the physical elements has left of it.     *)
AnswerInside(u, q) ==
  LET pos == Position(u.off, q)
      phy == Walk(u.phy, pos)
  IN  Answer(q, getValueByPos(u.off, pos), phy.value, Walk(u.len, phy.left).value)

AnswerAtEnd(u, q) ==
  Answer(q, getLastValue(u.off), getLastValue(Last(u.phy)), getLastValue(Last(u.len)))

(* PatternUnit::look_up.                                                   *)
UnitAnswer(u, q) ==
  CASE q < u.off.init -> Missing
    [] q >= u.off.init /\ (Size(u.off) <= 1 \/ q = u.off.init) ->
         Answer(q, u.off.init, u.phy[1].init, u.len[1].init)
    [] q > u.off.init /\ Size(u.off) > 1 ->
         IF sumVecSeq(u.off) <= 0 THEN Missing
         ELSE IF AsInt((q - u.off.init) \div sumVecSeq(u.off)) >= u.off.cnt
         THEN AnswerAtEnd(u, q)
         ELSE AnswerInside(u, q)

(* PatternUnitDeSe::look_up: what it may answer.  Reading one byte off may *)
(* also fail on the size of a list, or make lengths in which nothing has q.*)
look_up(u, q) ==
  {UnitAnswer(Narrowed(v), q) : v \in get_ibuf_unit(u)}
    \cup (IF Misread(u) THEN {Missing, Died} ELSE {})

-----------------------------------------------------------------------------
(* The values that the differences of a list of elements lead to, from the *)
(* first init on: the inits of the others are not looked at.               *)
ValuesAlong(es) ==
  LET d == FlattenSeq([j \in 1..Len(es) |-> FlattenSeq([k \in 1..es[j].cnt |-> es[j].seq])])
  IN  [i \in 1..(Len(d) + 1) |-> es[1].init + SumTo(d, i - 1)]

(* Of equal neighbours one is kept: the second value of a single record.   *)
arrange_queryList(rs) ==
  Picked(rs, {i \in 1..Len(rs) : i < Len(rs) => rs[i] # rs[i + 1]})

(* PatternUnitDeSe::analyze_unit: the records of a unit, one by one, for a *)
(* unit that get_ibuf_unit reads right.                                    *)
analyze_unit(id, u) ==
  LET log == ValuesAlong(<<u.off>>) IN
  arrange_queryList([i \in 1..Len(log) |->
    [id |-> id, log |-> log[i], len |-> ValuesAlong(u.len)[i], phy |-> ValuesAlong(u.phy)[i]]])

-----------------------------------------------------------------------------
(* dese_map: the units in the order of the list, each inserted at the      *)
(* logical offset it starts at unless there is one already.                *)
UnitsOf(list) ==
  FlattenSeq([i \in 1..Len(list) |->
    [j \in 1..Len(list[i].entry) |-> [id |-> list[i].id, unit |-> list[i].entry[j]]]])

StartOf(x) == x.unit.off.init

Inserted(xs, o) ==
  CHOOSE i \in DOMAIN xs : StartOf(xs[i]) = o /\ \A j \in 1..(i - 1) : StartOf(xs[j]) # o

NoUnits == [o \in {} |-> 0]

Pattern_DeSe(list) ==
  LET xs == UnitsOf(list) IN
  [o \in {StartOf(xs[i]) : i \in DOMAIN xs} |-> xs[Inserted(xs, o)]]

(* dese_map_look_up asks only the unit with the last start that is not     *)
(* past q.  With no unit at all it reads behind the end of the map: it     *)
(* finds nothing or dies.                                                  *)
Asked(m, q) == CHOOSE o \in DOMAIN m : o <= q /\ \A p \in DOMAIN m : p <= q => p <= o

dese_map_look_up(m, q) ==
  IF DOMAIN m = {} THEN {Missing, Died}
  ELSE IF \A o \in DOMAIN m : o > q THEN {Missing}
  ELSE look_up(m[Asked(m, q)].unit, q)
=============================================================================
