------------------------------- MODULE Proxy --------------------------------
(***************************************************************************)
(* The proxy: handlers and workers over the same redis and chain, and a    *)
(* process that may stop and be started again.                             *)
(***************************************************************************)
EXTENDS Handlers, Workers

CONSTANT Stuck      \* workers that may wait for ever for the chain's answer

\* The process dies, by a signal or a panic, and is started again: the
\* channels and the goroutines are gone, redis and the chain are not.
Crash ==
    /\ Fault("crash")
    /\ queue' = [w \in Jobs |-> <<>>]
    /\ worker' = [w \in Jobs |-> IdleWorker]
    /\ reply' = [r \in Reqs |-> IF req[r] # Nil /\ reply[r] = Nil
                                THEN "Lost" ELSE reply[r]]
    /\ UNCHANGED <<redisVars, chainVars, req, checks, ticket, clock>>

Next ==
    \/ \E r \in Reqs : \E b \in Requests(r) : Arrive(r, b)
    \/ \E r \in Reqs : Handle(r)
    \/ \E w \in Jobs : Take(w) \/ Work(w)
    \/ Crash

Spec == Init /\ [][Next]_vars

\* Goroutines are scheduled fairly.  Every redis command returns, and every
\* chain call but those of Stuck workers: BroadcastTrx has no timeout.  Nothing
\* obliges a client to send a request.
Fairness ==
    /\ \A r \in Reqs : WF_vars(Handle(r))
    /\ \A w \in Jobs \ Stuck : WF_vars(Take(w) \/ Work(w))

FairSpec == Spec /\ Fairness

-----------------------------------------------------------------------------
(* Properties.                                                              *)

\* What a user's key signed reaches the chain in the order in which the
\* requests were put on the channel, and each request at most once: messages
\* of one user stay on one worker (sendMsg), which never retries.
LedgerInOrder ==
    \A i \in Ids : \A j, k \in DOMAIN ledger[i] :
        j < k => ticket[ledger[i][j].req] < ticket[ledger[i][k].req]

\* A worker that broadcasts knows its account, and the account it follows,
\* likes or answers, to be on the chain ("if account not exist in chain,
\* create it firstly"), whatever failed on the way.
AccountsBeforeCall ==
    \A w \in Jobs : At(w, "Call") =>
        \A x \in Roles : worker[w].name[x] # Nil => chainKey[worker[w].name[x]] # Nil

\* A like or sign-in on the chain has its unique key in redis, so that the
\* handlers refuse any later request for the same.
MarkedOnChain ==
    \A i \in Ids : \A k \in DOMAIN ledger[i] :
        ledger[i][k].op \in {"like", "signin"} =>
            UniqueKey(req[ledger[i][k].req]) \in marker

\* The key pair recorded for an id is the one the chain has for its name,
\* except while an account-create for it is under way: without that key
\* nothing can be signed for the user again.
Creating(i) ==
    \E w \in Jobs : At(w, "Create") /\ worker[w].id[Role(w)] = i

KeyAgreement ==
    \A i \in Ids : account[i] # Nil /\ ~Creating(i) =>
        chainKey[account[i].name] \in {Nil, account[i].key}

\* Without failures, and with every account on the chain under its recorded
\* key, redis and the chain agree on who follows whom whenever the follower's
\* worker is not serving the pair, however follow and unfollow requests that
\* read a stale key overlap.
LastOp(i, j) ==
    LET of == {k \in DOMAIN ledger[i] : /\ ledger[i][k].op \in {"follow", "unfollow"}
                                        /\ req[ledger[i][k].req].target = j}
    IN  IF of = {} THEN "unfollow"
        ELSE ledger[i][CHOOSE k \in of : \A l \in of : l <= k].op

Serving(w, i, j) ==
    /\ worker[w].cur # Nil
    /\ Msg(w).kind \in {"follow", "unfollow"}
    /\ Msg(w).id = i /\ Msg(w).target = j

FollowAgreement ==
    \A i, j \in Ids : ~Serving(JobOf(i), i, j) =>
        (<<"follow", i, j>> \in marker <=> LastOp(i, j) = "follow")

\* Is r, or will it be, on the channel of a worker that goes on?
Attended(r) == req[r] # Nil /\ JobOf(req[r].id) \notin Stuck

\* Every request gets an answer, though Put may block on a full channel, and
\* every message put is worked off, whatever fails: a worker that waits for
\* ever holds up the users of its own channel only.
Answered == \A r \in Reqs : Attended(r) ~> reply[r] # Nil

Pending(r) == \E w \in Jobs : \/ worker[w].cur = r
                              \/ \E k \in DOMAIN queue[w] : queue[w][k] = r

WorkedOff == \A r \in Reqs : Attended(r) /\ Pending(r) ~> ~Pending(r)

-----------------------------------------------------------------------------
(* What the API document says and the code does not do.                     *)

\* "The id must not repeat" (API document 3.1): the chain has one account for
\* an id, the one of its record.
OneAccountPerId ==
    \A r \in Reqs : req[r] # Nil /\ req[r].kind = "account" /\ chainKey[r] # Nil =>
        account[req[r].id].name = r

=============================================================================
