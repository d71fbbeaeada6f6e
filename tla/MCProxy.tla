------------------------------ MODULE MCProxy -------------------------------
(* Small instances of the proxy for TLC.                                    *)
EXTENDS ProxyDelivery, TLC

CONSTANT p1

\* No post at start-up, or one of user 1.
NoneYet    == [p \in PostIds |-> Nil]
OneOfUser1 == [p \in PostIds |-> IF p = p1 THEN 1 ELSE Nil]

\* Requests differ only by their identity.
ReqSymmetry == Permutations(Reqs)

=============================================================================
