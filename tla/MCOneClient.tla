---------------------------- MODULE MCOneClient ----------------------------
(* One client about two users that exist, for TLC.                          *)
EXTENDS OneClient

CONSTANTS p1, r1, r2, r3, r4

NoneYet == [p \in PostIds |-> Nil]
Turns   == <<r1, r2, r3, r4>>

=============================================================================
