------------------------------ MODULE Delivery ------------------------------
(***************************************************************************)
(* What the proxy promises for the requests that it accepts, and no more:  *)
(* each user has a lane; what is accepted on a lane is delivered to the    *)
(* chain in that order, as it was asked for, at most once and perhaps not  *)
(* at all.  A restart loses whatever is in flight.                         *)
(***************************************************************************)
EXTENDS Sequences

CONSTANTS
    Users,      \* user ids
    Lanes,      \* the lanes
    Lane,       \* the lane of each user: a function from Users to Lanes
    Clients,    \* identities of requests
    Ops         \* what a request may ask for

VARIABLES
    accepted,   \* the requests accepted so far
    flight,     \* what is in flight on each lane, first in first out
    delivered   \* what the chain got from each user

vars == <<accepted, flight, delivered>>

Init ==
    /\ accepted = {}
    /\ flight = [l \in Lanes |-> <<>>]
    /\ delivered = [u \in Users |-> <<>>]

\* A request is accepted once, on the lane of its user.
Accept(r) ==
    /\ r \notin accepted
    /\ accepted' = accepted \cup {r}
    /\ \E u \in Users, o \in Ops :
          flight' = [flight EXCEPT ![Lane[u]] = Append(@, [req |-> r, id |-> u, op |-> o])]
    /\ UNCHANGED delivered

Deliver(l) ==
    /\ flight[l] # <<>>
    /\ flight' = [flight EXCEPT ![l] = Tail(@)]
    /\ delivered' = [delivered EXCEPT ![Head(flight[l]).id] = Append(@, Head(flight[l]))]
    /\ UNCHANGED accepted

Lose(l) ==
    /\ flight[l] # <<>>
    /\ flight' = [flight EXCEPT ![l] = Tail(@)]
    /\ UNCHANGED <<accepted, delivered>>

Restart ==
    /\ flight' = [l \in Lanes |-> <<>>]
    /\ UNCHANGED <<accepted, delivered>>

Next ==
    \/ \E l \in Lanes : Deliver(l) \/ Lose(l)
    \/ \E r \in Clients : Accept(r)
    \/ Restart

Spec == Init /\ [][Next]_vars

=============================================================================
