-------------------------- MODULE MCPatternLookup --------------------------
(* PatternLookup for TLC: every sequence of up to three writes of two       *)
(* processes, of four of one process, and longer strided, segmented and     *)
(* backward accesses, also with strides beyond what an int counts.          *)
EXTENDS PatternLookup

MCPids == {1, 2}

AnyWrites == UNION {[1..n -> [id : MCPids, off : {0, 2, 3, 6}, len : {1, 2}]] : n \in 1..3}

OneWriter == [1..4 -> [id : {1}, off : {0, 2, 5, 7}, len : {1, 2}]]

(* n writes of each process of length len: process 1 from 0, process 2     *)
(* from base, both with steps a and b in turn.                             *)
Regular(n, base, a, b, len) ==
  LET at(i) == ((i + 1) \div 2) * a + (i \div 2) * b IN
  [k \in 1..(2 * n) |->
     [id |-> IF k <= n THEN 1 ELSE 2, len |-> len,
      off |-> IF k <= n THEN at(k - 1) ELSE base + at(k - n - 1)]]

Strided == {Regular(n, base, a, b, len) :
              n \in 1..6, base \in {1, 20}, a \in {1, 2, 3}, b \in {2, 3}, len \in {1, 2}}

Far == {Regular(n, 1, 24, b, len) : n \in 2..5, b \in {16, 24}, len \in {2, 20}}

(* A short first write: its length is the init of the second physical       *)
(* element, which may be taken for the mark of the lengths.                 *)
Headed == {[k \in 1..n |-> [id |-> 1, off |-> 8 * (k - 1), len |-> IF k = 1 THEN head ELSE 4]] :
             n \in 3..6, head \in 1..3}

(* The same with a second write that continues the first one's record up    *)
(* to the length of the others.                                             *)
Continued == {<<w[1], [id |-> 1, off |-> w[1].len, len |-> 4 - w[1].len]>> \o Tail(w) : w \in Headed}

Backward == {[k \in 1..n |-> [id |-> 1, off |-> 3 * (n - k), len |-> 2]] : n \in 2..5}

MCScripts == AnyWrites \cup OneWriter \cup Strided \cup Far \cup Headed \cup Continued \cup Backward

MCGarbled == {0, 1, 2, 30}
=============================================================================
