---------------------------- MODULE MCOpenFiles ----------------------------
(* OpenFiles for TLC: the names a and c, and ab that begins like a. *)
EXTENDS OpenFiles
CONSTANTS h1, h2, h3, o1, o2, p1, p2
MCPath == {<<"a">>, <<"a", "b">>, <<"c">>}
MCHandle == {h1, h2, h3}
MCOpenFile == {o1, o2}
MCPid == {p1, p2}
Symmetry == {f @@ g @@ k : f \in Permutations(MCHandle), g \in Permutations(MCOpenFile), k \in Permutations(MCPid)}
=============================================================================
