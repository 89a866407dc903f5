------------------------- MODULE MCCollectiveWrite -------------------------
(* Jobs of two or three ranks on one or two hostdirs, in this backend or   *)
(* another, that write, may flatten and may set the size.                  *)
EXTENDS CollectiveWrite, Sequences

MCJobs ==
  LET placed == {<<1, 1>>, <<1, 2>>, <<1, 1, 1>>, <<1, 2, 2>>, <<2, 1, 2>>} IN
  {[np |-> Len(p), hostdir |-> [r \in 0..(Len(p) - 1) |-> p[r + 1]],
    shadow |-> s, flatten |-> f, resize |-> IF f THEN -1 ELSE z, first |-> Len(p) - 1] :
     p \in placed, s \in {{}, {1, 2}}, f \in BOOLEAN, z \in {-1, 1}}
=============================================================================
