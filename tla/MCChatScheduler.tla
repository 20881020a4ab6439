---------------------------- MODULE MCChatScheduler ----------------------------
(***************************************************************************)
(* The batches of the runs of ChatScheduler.                               *)
(***************************************************************************)
EXTENDS ChatScheduler

CONSTANTS c1, c2, c3

Three == {c1, c2, c3}
OneThenTwo == [c \in Three |-> IF c = c1 THEN 1 ELSE 2]

================================================================================
