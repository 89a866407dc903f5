--------------------------- MODULE PatternDetect ---------------------------
(***************************************************************************)
(* PatternIndex::build_off_pat (src/Index.cpp), which Index::flush runs on *)
(* the logical offsets, the physical offsets and the lengths of the        *)
(* records of each process: it turns a list of values into a stack of      *)
(* pattern elements.  An element with sequence seq and count cnt says that *)
(* the next Len(seq) * cnt differences between successive values are seq,  *)
(* cnt times over.                                                         *)
(*                                                                         *)
(* The scan looks at windows of up to SearchWindow differences on both     *)
(* sides of the demarcation point: Scan and PushOne are one turn of its    *)
(* loop, with the inner loop over k in the choice of k.  AssignInit is one *)
(* turn of the loop of build_ps_init, which gives each element its first   *)
(* value.  A list of one value never gets here: pattern_by_pid encodes it  *)
(* by itself.  is_repeating() is left out: its first test returns 0 for    *)
(* every sequence that is not empty, and none on the stack is empty.       *)
(***************************************************************************)
EXTENDS Integers, Sequences

CONSTANTS
  Inputs,        \* the lists of values to encode
  SearchWindow   \* size of the sliding window: 4 in Index.h

ASSUME InputsAssumption == \A v \in Inputs : v \in Seq(Int) /\ Len(v) >= 2
ASSUME WindowAssumption == SearchWindow \in Nat \ {0}

VARIABLES
  vals,        \* the values of one process, between begin and end
  delta,       \* build_delta: their successive differences
  iter,        \* the demarcation point: how many differences are consumed
  pat_stack,   \* the pattern stack, its last element on top
  inits,       \* the init field of the elements that have it already
  it_2,        \* build_ps_init's position in vals
  phase,       \* "scan", "init" or "done"
  starts       \* history: how many differences precede each element

detectVars == <<vals, delta, iter, pat_stack, inits, it_2, phase, starts>>

Elem == [seq : Seq(Int), cnt : Nat]

Width(e) == Len(e.seq) * e.cnt

build_delta(v) == [i \in 1..(Len(v) - 1) |-> v[i + 1] - v[i]]

DetectInit ==
  /\ vals \in Inputs
  /\ delta = build_delta(vals)
  /\ iter = 1
  /\ pat_stack = <<[seq |-> <<delta[1]>>, cnt |-> 1]>>
  /\ inits = << >>
  /\ it_2 = 0
  /\ phase = "scan"
  /\ starts = <<0>>

Top == pat_stack[Len(pat_stack)]

(* k may not look before the first difference or past the last one.         *)
Windows == {k \in 1..SearchWindow : k <= iter /\ k <= Len(delta) - iter}

(* equal_lw_sw: the k differences before the demarcation point are the k    *)
(* after it.                                                                *)
equal_lw_sw(k) == \A j \in 1..k : delta[iter - k + j] = delta[iter + j]

Replace(e) == [pat_stack EXCEPT ![Len(pat_stack)] = e]

(* pat_merge's three cases, on the top of the stack: one more repetition of *)
(* its sequence, all its repetitions once more, the end of its sequence     *)
(* taken off to be repeated.                                                *)
OneMore(k) == Len(Top.seq) = k
Doubled(k) == Len(Top.seq) # k /\ Width(Top) = k
SplitOff(k) == Width(Top) # k /\ Top.cnt = 1 /\ Len(Top.seq) > k

Mergeable(k) == equal_lw_sw(k) /\ (OneMore(k) \/ Doubled(k) \/ SplitOff(k))

\* Mutant: pop takes one difference too many.
Popped_OneTooMany(e, k) == [e EXCEPT !.seq = SubSeq(@, 1, Len(@) - k - 1)]

Popped(e, k) == [e EXCEPT !.seq = SubSeq(@, 1, Len(@) - k)]

\* Mutant: the window ahead starts at the demarcation point.
Ahead_FromPoint(k) == SubSeq(delta, iter, iter + k - 1)

Ahead(k) == SubSeq(delta, iter + 1, iter + k)

(* The widest window that can be merged is.                                 *)
Widest(k) == k \in Windows /\ Mergeable(k) /\ \A j \in Windows : j > k => ~Mergeable(j)

\* Mutant: case 3 counts the differences it takes off the top only once.
Merge_CountsOnce(k) ==
  \/ /\ OneMore(k)
     /\ pat_stack' = Replace([Top EXCEPT !.cnt = @ + 1])
     /\ UNCHANGED starts
  \/ /\ Doubled(k)
     /\ pat_stack' = Replace([Top EXCEPT !.cnt = @ * 2])
     /\ UNCHANGED starts
  \/ /\ SplitOff(k)
     /\ pat_stack' = Append(Replace(Popped(Top, k)), [seq |-> Ahead(k), cnt |-> 1])
     /\ starts' = Append(starts, iter - k)

Merge(k) ==
  \/ /\ OneMore(k)
     /\ pat_stack' = Replace([Top EXCEPT !.cnt = @ + 1])
     /\ UNCHANGED starts
  \/ /\ Doubled(k)
     /\ pat_stack' = Replace([Top EXCEPT !.cnt = @ * 2])
     /\ UNCHANGED starts
  \/ /\ SplitOff(k)
     /\ pat_stack' = Append(Replace(Popped(Top, k)), [seq |-> Ahead(k), cnt |-> 2])
     /\ starts' = Append(starts, iter - k)

Scan ==
  /\ phase = "scan" /\ iter < Len(delta)
  /\ \E k \in Windows : Widest(k) /\ Merge(k) /\ iter' = iter + k
  /\ UNCHANGED <<vals, delta, inits, it_2, phase>>

\* Mutant: an equal window that cannot be merged ends the search.
PushOne_StopsAtEqual ==
  /\ phase = "scan" /\ iter < Len(delta)
  /\ \A k \in Windows : ~equal_lw_sw(k)
  /\ IF Top.cnt # 1
     THEN /\ pat_stack' = Append(pat_stack, [seq |-> <<delta[iter + 1]>>, cnt |-> 1])
          /\ starts' = Append(starts, iter)
     ELSE /\ pat_stack' = Replace([Top EXCEPT !.seq = Append(@, delta[iter + 1])])
          /\ UNCHANGED starts
  /\ iter' = iter + 1
  /\ UNCHANGED <<vals, delta, inits, it_2, phase>>

(* No window merges: the next difference goes onto the top if that has not  *)
(* been repeated, and else begins a new element.                            *)
PushOne ==
  /\ phase = "scan" /\ iter < Len(delta)
  /\ \A k \in Windows : ~Mergeable(k)
  /\ IF Top.cnt # 1
     THEN /\ pat_stack' = Append(pat_stack, [seq |-> <<delta[iter + 1]>>, cnt |-> 1])
          /\ starts' = Append(starts, iter)
     ELSE /\ pat_stack' = Replace([Top EXCEPT !.seq = Append(@, delta[iter + 1])])
          /\ UNCHANGED starts
  /\ iter' = iter + 1
  /\ UNCHANGED <<vals, delta, inits, it_2, phase>>

EndScan ==
  /\ phase = "scan" /\ iter = Len(delta)
  /\ phase' = "init"
  /\ UNCHANGED <<vals, delta, iter, pat_stack, inits, it_2, starts>>

\* Mutant: the walk steps over the sequence of an element once.
AssignInit_StepsOnce ==
  /\ phase = "init" /\ Len(inits) < Len(pat_stack) /\ it_2 # Len(vals)
  /\ inits' = Append(inits, vals[it_2 + 1])
  /\ it_2' = it_2 + Len(pat_stack[Len(inits) + 1].seq)
  /\ UNCHANGED <<vals, delta, iter, pat_stack, phase, starts>>

(* build_ps_init: the next element starts at the value the widths of those  *)
(* before it add up to.                                                     *)
AssignInit ==
  /\ phase = "init" /\ Len(inits) < Len(pat_stack) /\ it_2 # Len(vals)
  /\ inits' = Append(inits, vals[it_2 + 1])
  /\ it_2' = it_2 + Width(pat_stack[Len(inits) + 1])
  /\ UNCHANGED <<vals, delta, iter, pat_stack, phase, starts>>

Finish ==
  /\ phase = "init" /\ (Len(inits) = Len(pat_stack) \/ it_2 = Len(vals))
  /\ phase' = "done"
  /\ UNCHANGED <<vals, delta, iter, pat_stack, inits, it_2, starts>>

DetectNext == Scan \/ PushOne \/ EndScan \/ AssignInit \/ Finish

DetectSpec == DetectInit /\ [][DetectNext]_detectVars

(* Sequential code: its next statement is always executed.                  *)
DetectFairSpec == DetectSpec /\ WF_detectVars(DetectNext)

-----------------------------------------------------------------------------
(* The types of the state; the assertions of pop and pop's use of the       *)
(* iterators are in it: no sequence on the stack is ever empty, no count 0. *)
DetectTypeOK ==
  /\ vals \in Seq(Int) /\ delta \in Seq(Int)
  /\ Len(vals) = Len(delta) + 1
  /\ iter \in 1..Len(delta)
  /\ pat_stack \in Seq(Elem) /\ pat_stack # << >>
  /\ \A j \in 1..Len(pat_stack) : pat_stack[j].seq # << >> /\ pat_stack[j].cnt # 0
  /\ inits \in Seq(Int) /\ it_2 \in Nat
  /\ phase \in {"scan", "init", "done"}
  /\ starts \in Seq(Nat) /\ Len(starts) = Len(pat_stack)

(* Repetition q of the sequence of element j, counted from 0, stands for    *)
(* the differences from here on.                                            *)
At(j, q) == starts[j] + q * Len(pat_stack[j].seq)

Repeats(j) ==
  \A q \in 0..(pat_stack[j].cnt - 1) : \A s \in 1..Len(pat_stack[j].seq) :
    delta[At(j, q) + s] = pat_stack[j].seq[s]

EndOf(j) == starts[j] + Width(pat_stack[j])

(* The stack is the consumed differences and nothing else: the elements lie *)
(* one after another from the first difference to the demarcation point,    *)
(* and each repetition of each element stands on its own sequence.  Cases   *)
(* 1 to 3 of pat_merge, after any history of merges and pushes.             *)
StackEncodesPrefix ==
  /\ starts[1] = 0
  /\ \A j \in 1..(Len(pat_stack) - 1) : EndOf(j) = starts[j + 1]
  /\ EndOf(Len(pat_stack)) = iter
  /\ \A j \in 1..Len(pat_stack) : Repeats(j)

(* When build_off_pat returns, every element has its init, and it is the    *)
(* value its differences are counted from.                                  *)
EveryElemHasItsInit ==
  phase = "done" =>
    /\ Len(inits) = Len(pat_stack)
    /\ \A j \in 1..Len(pat_stack) : inits[j] = vals[starts[j] + 1]
    /\ EndOf(Len(pat_stack)) = Len(vals) - 1

(* The value r differences into an element, read the way a decoder must.    *)
Decoded(e, first) ==
  LET value[r \in 0..Width(e)] ==
        IF r = 0 THEN first ELSE value[r - 1] + e.seq[((r - 1) % Len(e.seq)) + 1]
  IN  value

(* Reading the elements one after another gives back every value.           *)
DecodesToInput ==
  phase = "done" =>
    \A j \in 1..Len(pat_stack) :
      LET value == Decoded(pat_stack[j], inits[j]) IN
      \A r \in 0..Width(pat_stack[j]) : value[r] = vals[starts[j] + r + 1]

(* build_off_pat returns: an equal window that cannot be merged never stops *)
(* the scan.                                                                *)
Returns == <>(phase = "done")
=============================================================================
