----------------------------- MODULE MCReadTasks ----------------------------
(* ReadTasks for TLC: three index droppings of two hosts, one of them       *)
(* empty in some containers.                                                *)
EXTENDS ReadTasks

MCDroppings == {"x", "y", "z"}
MCPids == {1, 2}

(* A unit of one record as Pattern_DeSe finds it.                           *)
Rec(id, log, phy, len) ==
  [id |-> id, log |-> log, phy |-> phy, len |-> len, chunk |-> 0, from |-> "none"]

Hold(a, b, c) == [d \in MCDroppings |-> IF d = "x" THEN a ELSE IF d = "y" THEN b ELSE c]

(* Records one after another in the file and, by chance, in their           *)
(* droppings; two of one offset; a hole; two processes in one dropping; one *)
(* record over the end of another.                                          *)
MCContainers == {
  Hold(<<Rec(1, 0, 0, 1), Rec(2, 1, 1, 1)>>, <<Rec(1, 2, 1, 2)>>, << >>),
  Hold(<<Rec(1, 0, 0, 2)>>, <<Rec(1, 0, 0, 1), Rec(1, 2, 1, 1)>>, <<Rec(2, 3, 0, 1)>>),
  Hold(<<Rec(1, 0, 0, 1), Rec(1, 3, 1, 1)>>, << >>, << >>),
  Hold(<< >>, <<Rec(1, 1, 0, 1)>>, <<Rec(1, 0, 0, 1), Rec(2, 2, 2, 2)>>),
  Hold(<<Rec(1, 0, 0, 2)>>, <<Rec(1, 1, 1, 1)>>, << >>) }

MCCalls == {1, 2}

MCRequests ==
  [c \in MCCalls |-> IF c = 1 THEN {[offset |-> 0, size |-> 3], [offset |-> 1, size |-> 3]} ELSE {[offset |-> 2, size |-> 1]}]

MCDisks ==
  {[present |-> Paths, bad |-> {}],
   [present |-> Paths \ {<<"y", 1>>}, bad |-> {<<"x", 1>>}]}
=============================================================================
