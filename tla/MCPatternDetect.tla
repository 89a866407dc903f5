-------------------------- MODULE MCPatternDetect --------------------------
(* PatternDetect for TLC: every list of up to 8 differences from {1, 2, 3}, *)
(* of up to 11 from {1, 2}, and three cycles of <<1, 2, 3, 4>>.             *)
EXTENDS PatternDetect

DeltasUpTo(n, D) == UNION {[1..m -> D] : m \in 1..n}

Cycles == {[i \in 1..(4 * n) |-> ((i - 1) % 4) + 1] : n \in 1..3}

ValuesOf(d) ==
  LET v[i \in 1..(Len(d) + 1)] == IF i = 1 THEN 0 ELSE v[i - 1] + d[i - 1]
  IN  v

MCInputs == {ValuesOf(d) : d \in DeltasUpTo(8, {1, 2, 3}) \cup DeltasUpTo(11, {1, 2}) \cup Cycles}
=============================================================================
