---------------------------- MODULE MCInputPath ----------------------------
(***************************************************************************)
(* Keys are numbered so that the order of releaseAllLocked is theirs:      *)
(* letter 4, LeftShift 225.                                                *)
(***************************************************************************)
EXTENDS InputPath

Letter == {4}
LetterAndLeftShift == {4, 225}
Shifts == {225} \cap Usages
None == {}
==============================================================================
