--------------------------- MODULE MCSeqlenBalancing ---------------------------
(***************************************************************************)
(* Batches of up to six rows, short and long ones.                         *)
(***************************************************************************)
EXTENDS SeqlenBalancing

SomeLengths == {1, 2, 5}
SomeWorlds  == {1, 2, 3}
SomeLimits  == {5, 6}

================================================================================
