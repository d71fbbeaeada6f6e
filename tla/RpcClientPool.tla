---------------------------- MODULE RpcClientPool ----------------------------
(***************************************************************************)
(* The pool of package rpc implements ClientPool: the slice, its swaps and *)
(* the rounds of checkAlive are hidden.                                    *)
(***************************************************************************)
EXTENDS RpcPool

Calling(c) == caller[c].pc \in {"call", "report"}

markedBar == {n \in Nodes : alive[n]}
givenBar  == [c \in Callers |-> IF Calling(c) THEN caller[c].client ELSE Nil]
failedBar == {c \in Callers : caller[c].pc = "report"}
sureBar   == holder # Nil /\ caller[holder].hope

C == INSTANCE ClientPool WITH
         Clients <- Nodes, Users <- Callers, Keepers <- Pinned,
         marked <- markedBar, given <- givenBar, failed <- failedBar,
         served <- holder, sure <- sureBar

\* However swaps, reports and rounds of checkAlive overlap: callers are served
\* one at a time; a mark falls only with the report of a failed call of that
\* client, never during a scan and never by checkAlive; and whoever is served
\* gets a client marked alive, if there was one when the scan began.
GivesOut == C!Spec

=============================================================================
