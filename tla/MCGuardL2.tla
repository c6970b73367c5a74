------------------------------ MODULE MCGuardL2 ------------------------------
(* Small instances of GuardL2 for TLC.                                      *)
EXTENDS GuardL2Inv

(* Two transfers, the first longer than the receiver's window.        *)
TwoTransfers == << <<"a1", "a2", "a3">>, <<"b1">> >>

(* One transfer longer than the receiver's window.                          *)
LongTransfer == << <<"a1", "a2", "a3">> >>
ShortTransfer == << <<"a1", "a2">> >>

Chunks == {"a1", "a2", "a3", "b1", "b2"}
=============================================================================
