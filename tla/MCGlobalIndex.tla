--------------------------- MODULE MCGlobalIndex ----------------------------
(* GlobalIndex for TLC: every three records on five bytes with all orders   *)
(* and ties of their timestamps, and every four on four bytes.              *)
EXTENDS GlobalIndex

Ranges(bytes) == {r \in [log : 0..(bytes - 1), len : 1..bytes] : r.log + r.len <= bytes}

Records(n, bytes, stamps) ==
  {{[id |-> i, ts |-> t[i], log |-> r[i].log, len |-> r[i].len, phy |-> 10 * i] : i \in 1..n} :
     r \in [1..n -> Ranges(bytes)], t \in stamps}

MCWorkloads ==
  Records(3, 5, {<<1, 2, 3>>, <<1, 1, 2>>, <<1, 2, 2>>}) \cup Records(4, 4, {<<1, 2, 3, 4>>})
=============================================================================
