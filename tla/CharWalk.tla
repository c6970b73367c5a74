------------------------------- MODULE CharWalk -------------------------------
(***************************************************************************)
(* A walk over the code points, one state each, up to Final.                *)
(***************************************************************************)
EXTENDS CharCodes

CONSTANT Final
ASSUME FinalAssumption == Final \in CodePoint

VARIABLE ch

CharInit == ch = 0
CharNext == ch < Final /\ ch' = ch + 1
CharSpec == CharInit /\ [][CharNext]_ch

(* build and search decode each code point to itself, and char_code keeps   *)
(* the supported characters apart and within the arrays.                    *)
CodesReadBack == ReadsBack(ch) /\ CodeTellsApart(ch)
=============================================================================
