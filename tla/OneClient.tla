----------------------------- MODULE OneClient ------------------------------
(***************************************************************************)
(* The proxy seen by one client that sends its requests one at a time,     *)
(* each only after the answer to the one before.                           *)
(***************************************************************************)
EXTENDS Proxy

CONSTANT Order   \* the identities of the client's requests, in the order sent

\* No handler is running and no message is left.
Quiet == \A r \in Reqs : ~Pending(r) /\ (req[r] # Nil => reply[r] # Nil)

Sent == Cardinality({r \in Reqs : req[r] # Nil})

SendNext ==
    /\ Sent < Len(Order)
    /\ \A r \in Reqs : req[r] # Nil => reply[r] # Nil
    /\ \E b \in Requests(Order[Sent + 1]) : Arrive(Order[Sent + 1], b)

ClientNext == \/ SendNext
              \/ \E r \in Reqs : Handle(r)
              \/ \E w \in Jobs : Take(w) \/ Work(w)

ClientSpec == Init /\ [][ClientNext]_vars

-----------------------------------------------------------------------------
\* The requests about the pair i, j that were answered OK.
Successes(i, j) ==
    {k \in 1 .. Sent : LET m == req[Order[k]]
                       IN  /\ m.kind \in {"follow", "unfollow"}
                           /\ m.id = i /\ m.target = j
                           /\ reply[Order[k]] = "OK"}

\* When the work is done, the chain has i following j exactly when the last
\* follow or unfollow that was answered OK was a follow (API document 3.8 and
\* 3.9: 1000 is success).
LastAnsweredWins ==
    Quiet => \A i, j \in Ids : Successes(i, j) # {} =>
        LET last == CHOOSE k \in Successes(i, j) : \A l \in Successes(i, j) : l <= k
        IN  LastOp(i, j) = req[Order[last]].kind

=============================================================================
