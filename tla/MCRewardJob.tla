---------------------------- MODULE MCRewardJob -----------------------------
(* Blocks with two cashouts, one of them of an account with an id.          *)
EXTENDS RewardJob

CONSTANTS known, unknown

TwoCashouts == <<unknown, known>>

=============================================================================
