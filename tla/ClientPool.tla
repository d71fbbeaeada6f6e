------------------------------ MODULE ClientPool ------------------------------
(***************************************************************************)
(* What the pool of clients promises to those who call the chain: one at a *)
(* time is served, and is given a client that is marked alive if there was *)
(* one when its turn came.  Only a report that a call of a client failed   *)
(* marks it dead, and never while someone is served.                       *)
(***************************************************************************)

CONSTANTS
    Clients,    \* the clients, one of each node
    Users,      \* who may ask for one
    Keepers,    \* users that keep for ever the client they have been given
    Nil         \* no client, no user

VARIABLES
    marked,     \* the clients that are marked alive
    given,      \* the client that each user has been given
    failed,     \* the users whose call has failed, unreported
    served,     \* the user whose turn it is
    sure        \* was a client marked alive when its turn came?

vars == <<marked, given, failed, served, sure>>

Init ==
    /\ marked = Clients
    /\ given \in [Users -> Clients \cup {Nil}]
    /\ \A u \in Users : given[u] = Nil <=> u \notin Keepers
    /\ failed = {}
    /\ served = Nil
    /\ sure = FALSE

Ask(u) ==
    /\ served = Nil
    /\ given[u] = Nil
    /\ served' = u
    /\ sure' = (marked # {})
    /\ UNCHANGED <<marked, given, failed>>

Give(u) ==
    /\ served = u
    /\ \E n \in Clients : /\ sure => n \in marked
                          /\ given' = [given EXCEPT ![u] = n]
    /\ served' = Nil
    /\ sure' = FALSE
    /\ UNCHANGED <<marked, failed>>

\* User u has no more use for its client, unless it keeps it.
Leave(u) ==
    given' = IF u \in Keepers THEN given ELSE [given EXCEPT ![u] = Nil]

Succeed(u) ==
    /\ given[u] # Nil
    /\ u \notin failed
    /\ Leave(u)
    /\ UNCHANGED <<marked, failed, served, sure>>

Fail(u) ==
    /\ given[u] # Nil
    /\ u \notin failed
    /\ failed' = failed \cup {u}
    /\ UNCHANGED <<marked, given, served, sure>>

Report(u) ==
    /\ u \in failed
    /\ served = Nil
    /\ marked' = marked \ {given[u]}
    /\ failed' = failed \ {u}
    /\ Leave(u)
    /\ UNCHANGED <<served, sure>>

\* A client that answers again, perhaps while someone is served.
Revive(n) ==
    /\ n \notin marked
    /\ marked' = marked \cup {n}
    /\ UNCHANGED <<given, failed, served, sure>>

Next ==
    \/ \E u \in Users : Ask(u) \/ Give(u) \/ Succeed(u) \/ Fail(u) \/ Report(u)
    \/ \E n \in Clients : Revive(n)

Spec == Init /\ [][Next]_vars

=============================================================================
