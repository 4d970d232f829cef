---------------------------- MODULE MCInjectors ----------------------------
(* A letter and the right Shift, which the bitmap does not reach; the left *)
(* Shift and the left Control, which it does; a button; a wheel button.    *)
EXTENDS Injectors

Both == {"linux", "windows"}
LetterAndRightShift == {"A", "right Shift"}
ShiftAndControl == <<"left Shift", "left Control">>
==============================================================================
