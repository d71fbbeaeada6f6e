------------------------------ MODULE Game2048 ------------------------------
(***************************************************************************)
(* The settlement of 2048 games.  A request reports a game: both players,  *)
(* what each has after it, and the stake.  The handler queues it on the    *)
(* worker of the loser; the worker first brings each player's balance on   *)
(* the chain to what it was before the game, with transfers from or to the *)
(* official account, then moves the stake from the loser to the winner.    *)
(* Amounts are uint64.                                                     *)
(***************************************************************************)
EXTENDS Naturals, Sequences, FiniteSets

CONSTANTS
    Players,      \* user ids of players
    Digits,       \* the digits of a player's id
    Bodies,       \* the games that may be reported
    Reqs,         \* identities of HTTP requests: each is made at most once
    JobCount,     \* number of workers
    QueueSize,    \* capacity of a worker's channel
    Registered,   \* players with a record and a chain account at start-up
    Endowments,   \* what they and the official account may have at start-up
    Supply,       \* all the coins there are
    Modulus,      \* 2^64
    FaultKinds,   \* the failures that may happen: subset of AllFaults
    MaxFaults,    \* bound on the number of failures
    Official,     \* the official account (TransferName) and its key
    Nil           \* "" or nil

AllFaults == {"redis", "query", "broadcast", "crash"}
Roles     == {"winner", "loser"}
Jobs      == 0 .. JobCount - 1
Uint64    == 0 .. Modulus - 1
Balances  == 0 .. Supply

\* A player's account has the name generated for a request that had none, or
\* the one it has since start-up; a key pair is as fresh as a name.
Own(p)   == <<p, "own">>
Names    == (Reqs \X Roles) \cup {Own(p) : p \in Players}
Accounts == Names \cup {Official}

VARIABLES
    account,   \* redis: hash of a player, its name and key pair
    played,    \* redis: the keys of games that exist
    chain,     \* chain: key and balance of each account, Nil when there is none
    game,      \* server: the body of each request, Nil before it comes
    stage,     \* server: what its handler is doing, or its answer
    queue,     \* job: the channel of each worker
    worker,    \* job: what each worker is doing
    faults     \* number of failures so far

redisVars == <<account, played>>
vars == <<account, played, chain, game, stage, queue, worker, faults>>

\* amount and key are of the transfer to come; the rest is history: created has
\* the roles whose account the worker has put on the chain for this message, and
\* undisturbed says that no other worker has served one of the players since the
\* message was taken.
IdleWorker == [cur |-> Nil, at |-> "Idle", role |-> "winner",
               name |-> [x \in Roles |-> Nil], amount |-> 0, key |-> Nil,
               created |-> {}, undisturbed |-> TRUE]

WorkerStates ==
    [cur: Reqs \cup {Nil},
     at: {"Idle", "Mark", "Name", "Info", "SetAccount", "Create", "TopUp",
          "SurplusKey", "Surplus", "StakeKey", "Stake"},
     role: Roles, name: [Roles -> Names \cup {Nil}],
     amount: Uint64, key: Accounts \cup {Nil},
     created: SUBSET Roles, undisturbed: BOOLEAN]

\* Nil is like no other value.  The handler takes any amounts, and any two
\* players; the coins of the chain take less than 63 bits.
ASSUME GameAssumption ==
    /\ JobCount \in Nat \ {0}
    /\ QueueSize \in Nat \ {0}
    /\ MaxFaults \in Nat
    /\ FaultKinds \subseteq AllFaults
    /\ Modulus \in Nat
    /\ Supply \in Nat
    /\ 2 * Supply < Modulus
    /\ Endowments \subseteq [Registered \cup {Official} -> Balances]
    /\ Players \subseteq Nat
    /\ Registered \subseteq Players
    /\ Digits \in [Players -> Seq(0 .. 9)]
    /\ \A b \in Bodies : b \in [id: Seq(0 .. 9), winner: Players, loser: Players,
                                wcos: Uint64, lcos: Uint64, cos: Uint64]
    /\ Nil \notin Reqs \cup Accounts \cup Bodies
    /\ Nil \notin [key: Accounts, coin: Balances]
    /\ Nil \notin [name: Names, key: Accounts]
    /\ Official \notin Names

TypeOK ==
    /\ account \in [Players -> [name: Names, key: Accounts] \cup {Nil}]
    /\ played \subseteq Seq(0 .. 9)
    /\ chain \in [Accounts -> [key: Accounts, coin: Balances] \cup {Nil}]
    /\ game \in [Reqs -> Bodies \cup {Nil}]
    /\ stage \in [Reqs -> {"none", "check", "put", "OK", "GameIdExist",
                           "ServerError", "Lost"}]
    /\ queue \in [Jobs -> Seq(Reqs)]
    /\ \A w \in Jobs : Len(queue[w]) <= QueueSize
    /\ worker \in [Jobs -> WorkerStates]
    /\ faults \in 0 .. MaxFaults

\* Registered players have an account under the key that redis has.
Init ==
    /\ account = [p \in Players |->
                    IF p \in Registered THEN [name |-> Own(p), key |-> Own(p)] ELSE Nil]
    /\ played = {}
    /\ \E coins \in Endowments :
          chain = [a \in Accounts |->
                     CASE a = Official -> [key |-> a, coin |-> coins[a]]
                       [] a \in {Own(p) : p \in Registered} -> [key |-> a, coin |-> coins[a[1]]]
                       [] OTHER -> Nil]
    /\ game = [r \in Reqs |-> Nil]
    /\ stage = [r \in Reqs |-> "none"]
    /\ queue = [w \in Jobs |-> <<>>]
    /\ worker = [w \in Jobs |-> IdleWorker]
    /\ faults = 0

Fault(k) == /\ k \in FaultKinds
            /\ faults < MaxFaults
            /\ faults' = faults + 1

-----------------------------------------------------------------------------
(* The handler.                                                             *)

\* Mutant of JobOf: games go to the worker of the winner.
JobOfWinner(b) == b.winner % JobCount

\* sendMsg(loserId, msg)
JobOf(b) == b.loser % JobCount

\* The game's key in redis: its id and the loser's, written one after the
\* other, so that different games may have the same.
GameKey(b) == b.id \o Digits[b.loser]

Arrive(r, b) ==
    /\ stage[r] = "none"
    /\ game' = [game EXCEPT ![r] = b]
    /\ stage' = [stage EXCEPT ![r] = "check"]
    /\ UNCHANGED <<redisVars, chain, queue, worker, faults>>

\* EXISTS; a game that has a key is refused.
Check(r) ==
    /\ stage[r] = "check"
    /\ stage' = [stage EXCEPT ![r] = IF GameKey(game[r]) \in played
                                     THEN "GameIdExist" ELSE "put"]
    /\ UNCHANGED <<redisVars, chain, game, queue, worker, faults>>

CheckFails(r) ==
    /\ stage[r] = "check"
    /\ Fault("redis")
    /\ stage' = [stage EXCEPT ![r] = "ServerError"]
    /\ UNCHANGED <<redisVars, chain, game, queue, worker>>

\* Mutant of Put: one message too many fits into the channel.
PutToFull(r) ==
    LET w == JobOf(game[r])
    IN  /\ stage[r] = "put"
        /\ Len(queue[w]) <= QueueSize
        /\ queue' = [queue EXCEPT ![w] = Append(@, r)]
        /\ stage' = [stage EXCEPT ![r] = "OK"]
        /\ UNCHANGED <<redisVars, chain, game, worker, faults>>

Put(r) ==
    LET w == JobOf(game[r])
    IN  /\ stage[r] = "put"
        /\ Len(queue[w]) < QueueSize
        /\ queue' = [queue EXCEPT ![w] = Append(@, r)]
        /\ stage' = [stage EXCEPT ![r] = "OK"]
        /\ UNCHANGED <<redisVars, chain, game, worker, faults>>

-----------------------------------------------------------------------------
(* The worker: processGame2048Msg.                                          *)

unchangedByJob == <<game, stage>>

PlayerOf(b, role) == IF role = "winner" THEN b.winner ELSE b.loser

At(w, do) == worker[w].cur # Nil /\ worker[w].at = do
Msg(w)    == game[worker[w].cur]
Name(w)   == worker[w].name[worker[w].role]
Player(w) == PlayerOf(Msg(w), worker[w].role)
NewKey(w) == <<worker[w].cur, worker[w].role>>

Become(w, state) == worker' = [worker EXCEPT ![w] = state]
Abandon(w)       == Become(w, IdleWorker)

\* uint64 arithmetic: for a, b < Modulus, (a - b) % Modulus and (a + b) % Modulus.
Minus(a, b) == IF b <= a THEN a - b ELSE (a + Modulus) - b
Plus(a, b)  == IF a + b < Modulus THEN a + b ELSE (a + b) - Modulus

\* Mutant of Before: the winner's stake is forgotten.
BeforeStakeless(b, role) == IF role = "winner" THEN b.wcos ELSE Plus(b.lcos, b.cos)

\* What a player had before the game, by what she has after it.
Before(b, role) == IF role = "winner" THEN Minus(b.wcos, b.cos) ELSE Plus(b.lcos, b.cos)

\* What the official account grants to the player of an account just created.
Grant(b, role) == IF role = "winner" THEN b.wcos ELSE b.lcos

\* What a player with more coins than before the game has to give away.
Surplus(b, role, coin) ==
    IF role = "winner" THEN Plus(Minus(coin, b.wcos), b.cos)
                       ELSE Plus(Minus(coin, b.lcos), b.cos)

Pair(r) == {game[r].winner, game[r].loser}

Take(w) ==
    /\ worker[w].cur = Nil
    /\ queue[w] # <<>>
    /\ LET r     == Head(queue[w])
           rival == {v \in Jobs : /\ worker[v].cur # Nil
                                  /\ Pair(r) \cap Pair(worker[v].cur) # {}}
       IN  worker' = [v \in Jobs |->
                        CASE v = w      -> [IdleWorker EXCEPT
                                              !.cur = r, !.at = "Mark",
                                              !.name = [x \in Roles |-> <<r, x>>],
                                              !.undisturbed = (rival = {})]
                          [] v \in rival -> [worker[v] EXCEPT !.undisturbed = FALSE]
                          [] OTHER      -> worker[v]]
    /\ queue' = [queue EXCEPT ![w] = Tail(@)]
    /\ UNCHANGED <<redisVars, chain, faults, unchangedByJob>>

\* SET of the game's key, whether or not it is there.
Mark(w) ==
    /\ At(w, "Mark")
    /\ played' = played \cup {GameKey(Msg(w))}
    /\ Become(w, [worker[w] EXCEPT !.at = "Name"])
    /\ UNCHANGED <<account, chain, queue, faults, unchangedByJob>>

\* HGET of the winner's and the loser's name: a recorded name replaces the new one.
ReadName(w) ==
    /\ At(w, "Name")
    /\ LET known == IF account[Player(w)] = Nil THEN worker[w]
                    ELSE [worker[w] EXCEPT !.name[worker[w].role] = account[Player(w)].name]
       IN  Become(w, IF worker[w].role = "winner" THEN [known EXCEPT !.role = "loser"]
                     ELSE [known EXCEPT !.role = "winner", !.at = "Info"])
    /\ UNCHANGED <<redisVars, chain, queue, faults, unchangedByJob>>

\* The player's balance is right: the loser is next, or the stake.
Settled(w) == IF worker[w].role = "winner"
              THEN [worker[w] EXCEPT !.role = "loser", !.at = "Info"]
              ELSE [worker[w] EXCEPT !.at = "StakeKey"]

\* getAccountInfo answers for an account that the chain does not have, too: it
\* has no coins.
QueryInfo(w) ==
    /\ At(w, "Info")
    /\ LET coin == IF chain[Name(w)] = Nil THEN 0 ELSE chain[Name(w)].coin
           due  == Before(Msg(w), worker[w].role)
       IN  \/ /\ coin < due
              /\ Become(w, [worker[w] EXCEPT !.at = "TopUp", !.amount = due - coin])
           \/ /\ coin > due
              /\ Become(w, [worker[w] EXCEPT
                              !.at = "SurplusKey",
                              !.amount = Surplus(Msg(w), worker[w].role, coin)])
           \/ /\ coin = due
              /\ Become(w, Settled(w))
    /\ UNCHANGED <<redisVars, chain, queue, faults, unchangedByJob>>

\* Only when the query fails is the account created, and given a grant.
QueryFails(w) ==
    /\ At(w, "Info")
    /\ Fault("query")
    /\ Become(w, [worker[w] EXCEPT !.at = "SetAccount",
                                   !.amount = Grant(Msg(w), worker[w].role)])
    /\ UNCHANGED <<redisVars, chain, queue, unchangedByJob>>

SetAccount(w) ==
    /\ At(w, "SetAccount")
    /\ account' = [account EXCEPT ![Player(w)] = [name |-> Name(w), key |-> NewKey(w)]]
    /\ Become(w, [worker[w] EXCEPT !.at = "Create", !.key = NewKey(w)])
    /\ UNCHANGED <<played, chain, queue, faults, unchangedByJob>>

\* HGET of the private key, for the surplus and for the stake.
ReadKey(w) ==
    /\ \/ At(w, "SurplusKey")
       \/ At(w, "StakeKey")
    /\ IF account[Player(w)] = Nil
       THEN Abandon(w)
       ELSE Become(w, IF At(w, "StakeKey")
                      THEN [worker[w] EXCEPT !.key = account[Player(w)].key,
                                             !.at = "Stake", !.amount = Msg(w).cos]
                      ELSE [worker[w] EXCEPT !.key = account[Player(w)].key,
                                             !.at = "Surplus"])
    /\ UNCHANGED <<redisVars, chain, queue, faults, unchangedByJob>>

RedisFails(w) ==
    /\ \E do \in {"Mark", "Name", "SetAccount", "SurplusKey", "StakeKey"} : At(w, do)
    /\ Fault("redis")
    /\ \/ UNCHANGED redisVars
       \/ /\ At(w, "Mark")
          /\ played' = played \cup {GameKey(Msg(w))}
          /\ UNCHANGED account
       \/ /\ At(w, "SetAccount")
          /\ account' = [account EXCEPT ![Player(w)] = [name |-> Name(w), key |-> NewKey(w)]]
          /\ UNCHANGED played
    /\ Abandon(w)
    /\ UNCHANGED <<chain, queue, unchangedByJob>>

-----------------------------------------------------------------------------
(* Transactions.  The chain takes a transfer that is signed with the key of *)
(* its sender, who has the amount, to an account that exists; balances stay *)
(* within the supply.                                                       *)

CreateOnChain(w) ==
    /\ At(w, "Create")
    /\ IF chain[Name(w)] = Nil
       THEN /\ chain' = [chain EXCEPT ![Name(w)] = [key |-> worker[w].key, coin |-> 0]]
            /\ Become(w, [worker[w] EXCEPT !.at = "TopUp",
                                           !.created = @ \cup {worker[w].role}])
       ELSE /\ UNCHANGED chain
            /\ Abandon(w)
    /\ UNCHANGED <<redisVars, queue, faults, unchangedByJob>>

\* transferTo and loserTransferToWinner: who pays whom.
From(w) == IF At(w, "TopUp") THEN Official ELSE Name(w)
To(w)   == CASE At(w, "TopUp")   -> Name(w)
             [] At(w, "Surplus") -> Official
             [] OTHER            -> worker[w].name["winner"]
Signer(w) == IF At(w, "TopUp") THEN Official ELSE worker[w].key

Accepted(w) ==
    /\ chain[From(w)] # Nil /\ chain[To(w)] # Nil
    /\ chain[From(w)].key = Signer(w)
    /\ worker[w].amount <= chain[From(w)].coin
    /\ chain[To(w)].coin + worker[w].amount <= Supply

Paid(w) == LET spent == [chain EXCEPT ![From(w)].coin = @ - worker[w].amount]
           IN  [spent EXCEPT ![To(w)].coin = @ + worker[w].amount]

Transfers(w) == At(w, "TopUp") \/ At(w, "Surplus") \/ At(w, "Stake")

\* Mutant of Transfer: the answer of the chain is not looked at.
TransferBlind(w) ==
    /\ Transfers(w)
    /\ chain' = IF Accepted(w) THEN Paid(w) ELSE chain
    /\ Become(w, IF At(w, "Stake") THEN IdleWorker ELSE Settled(w))
    /\ UNCHANGED <<redisVars, queue, faults, unchangedByJob>>

Transfer(w) ==
    /\ Transfers(w)
    /\ chain' = IF Accepted(w) THEN Paid(w) ELSE chain
    /\ Become(w, IF At(w, "Stake") \/ ~Accepted(w) THEN IdleWorker ELSE Settled(w))
    /\ UNCHANGED <<redisVars, queue, faults, unchangedByJob>>

\* The transaction is lost, or only its answer.
BroadcastFails(w) ==
    /\ Transfers(w) \/ At(w, "Create")
    /\ Fault("broadcast")
    /\ \/ UNCHANGED chain
       \/ Transfers(w) /\ Accepted(w) /\ chain' = Paid(w)
       \/ /\ At(w, "Create") /\ chain[Name(w)] = Nil
          /\ chain' = [chain EXCEPT ![Name(w)] = [key |-> worker[w].key, coin |-> 0]]
    /\ Abandon(w)
    /\ UNCHANGED <<redisVars, queue, unchangedByJob>>

\* The process dies and is started again.
Crash ==
    /\ Fault("crash")
    /\ queue' = [w \in Jobs |-> <<>>]
    /\ worker' = [w \in Jobs |-> IdleWorker]
    /\ stage' = [r \in Reqs |-> IF stage[r] \in {"check", "put"} THEN "Lost" ELSE stage[r]]
    /\ UNCHANGED <<redisVars, chain, game>>

Work(w) == \/ Mark(w) \/ ReadName(w) \/ QueryInfo(w) \/ QueryFails(w)
           \/ SetAccount(w) \/ CreateOnChain(w) \/ ReadKey(w) \/ Transfer(w)
           \/ RedisFails(w) \/ BroadcastFails(w)

Next ==
    \/ \E r \in Reqs : Check(r) \/ CheckFails(r) \/ Put(r)
    \/ \E r \in Reqs, b \in Bodies : Arrive(r, b)
    \/ \E w \in Jobs : Take(w) \/ Work(w)
    \/ Crash

Spec == Init /\ [][Next]_vars

-----------------------------------------------------------------------------
(* Properties.                                                              *)

\* Two games of one loser are never served at the same time, though requests
\* for them come at the same time: what the worker read of the loser's balance
\* is not spent by another game that she lost (sendMsg by loserId).
OneGamePerLoser ==
    \A v, w \in Jobs : v # w /\ worker[v].cur # Nil /\ worker[w].cur # Nil =>
        Msg(v).loser # Msg(w).loser

\* Whatever failed on the way, a stake is only sent between accounts that the
\* chain has, unless the player had nothing before the game: then a missing
\* account and an empty one look the same.
AccountsBeforeStake ==
    \A w \in Jobs : At(w, "Stake") => \A x \in Roles :
        Before(Msg(w), x) # 0 => chain[worker[w].name[x]] # Nil

\* The step in which the stake of worker w's game is moved.
StakeMoves(w) == At(w, "Stake") /\ worker'[w].cur = Nil /\ chain' # chain

\* A winner whose account was created for the game got all that the game
\* reported already (worker.go:139), and gets the stake as well.
WinnerEndsWith(w) ==
    Msg(w).wcos + (IF "winner" \in worker[w].created THEN Msg(w).cos ELSE 0)

\* A game whose stake is moved, and that overlapped with no other game of its
\* players, leaves the loser with no more than the game reported, and the winner
\* with that exactly, or with the stake more if the failed query of her account
\* had it created: also when it is settled for the second time, after games that
\* were abandoned half way, and when the reported amounts make uint64 wrap.
Settles == [][\A w \in Jobs : StakeMoves(w) /\ worker[w].undisturbed =>
                /\ chain'[worker[w].name["winner"]].coin = WinnerEndsWith(w)
                /\ chain'[worker[w].name["loser"]].coin <= Msg(w).lcos]_vars

-----------------------------------------------------------------------------
(* What comments say and the code does not do.                              *)

\* "The cos that the loser has, as reported by 2048" (worker.go:59, on Lcos):
\* with her surplus sent away (worker.go:189), the loser, too, ends with what
\* the game reported.
LoserSettles == [][\A w \in Jobs : StakeMoves(w) /\ worker[w].undisturbed =>
                     chain'[worker[w].name["loser"]].coin = Msg(w).lcos]_vars

\* "if account not exist in chain, create if firstly" (worker.go:130): the
\* player of a top-up has an account on the chain.
PlayersCreated ==
    \A w \in Jobs : At(w, "TopUp") => chain[Name(w)] # Nil

=============================================================================
