------------------------- MODULE MCContainerCreate --------------------------
(* ContainerCreate for TLC: two nodes, and a name at which there is         *)
(* nothing, a plain file, or a directory of a user.                         *)
EXTENDS ContainerCreate

MCTops == {Absent, [kind |-> "file", parts |-> {}], Dir({"other"})}
=============================================================================
