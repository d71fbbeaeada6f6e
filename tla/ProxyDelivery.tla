--------------------------- MODULE ProxyDelivery ----------------------------
(***************************************************************************)
(* The proxy implements Delivery: a worker with its channel is a lane, its *)
(* message in hand the first one in flight.                                *)
(***************************************************************************)
EXTENDS Proxy

\* What request r asks of the chain.
Asked(r) == [req |-> r, id |-> req[r].id, op |-> req[r].kind]

\* The requests that worker w still has to serve.
InFlight(w) == IF worker[w].cur = Nil THEN queue[w] ELSE <<worker[w].cur>> \o queue[w]

acceptedBar  == {r \in Reqs : ticket[r] # 0}
flightBar    == [w \in Jobs |-> LET f == InFlight(w) IN [k \in DOMAIN f |-> Asked(f[k])]]
deliveredBar == [i \in Ids |-> [k \in DOMAIN ledger[i] |->
                   [req |-> ledger[i][k].req, id |-> i, op |-> ledger[i][k].op]]]

D == INSTANCE Delivery WITH
         Users <- Ids, Lanes <- Jobs, Lane <- [i \in Ids |-> i % JobCount],
         Clients <- Reqs, Ops <- AllKinds \cup FakeKinds,
         accepted <- acceptedBar, flight <- flightBar, delivered <- deliveredBar

\* Whatever fails, what an accepted request asks for reaches the chain as it
\* was asked, at most once, and in the order in which the requests of its user
\* were put: sendMsg picks the worker by the user, and the worker neither
\* retries nor overtakes.
Delivers == D!Spec

=============================================================================
