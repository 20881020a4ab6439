---------------------------- MODULE MCSGLangRollout ----------------------------
(***************************************************************************)
(* Two requests of a call, which are alike but for their prompts.          *)
(***************************************************************************)
EXTENDS SGLangRollout, TLC

CONSTANTS r1, r2

Two       == {r1, r2}
AllModes  == {"train", "validate", "greedy"}
Either    == Permutations(Two)
ShortLong == {1, 7}
OneOrTwo  == {1, 2}
OneOrFour == {1, 4}

================================================================================
