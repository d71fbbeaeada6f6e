----------------------------- MODULE GameProofs -----------------------------
(***************************************************************************)
(* Proofs about Game2048 for any players, games, workers and amounts.      *)
(***************************************************************************)
EXTENDS Game2048, SequenceTheorems, TLAPS

\* A message is of a game that came, and is on the worker of its loser.
Sent(r, w) == /\ stage[r] # "none"
              /\ JobOf(game[r]) = w

Known ==
    /\ \A r \in Reqs : stage[r] # "none" => game[r] \in Bodies
    /\ \A w \in Jobs : \A k \in DOMAIN queue[w] : Sent(queue[w][k], w)
    /\ \A w \in Jobs : worker[w].cur # Nil => Sent(worker[w].cur, w)

\* The names that p's account may have: they are no other player's.
OwnNames(p) == {Own(p)} \cup {n \in Reqs \X Roles : /\ stage[n[1]] # "none"
                                                     /\ PlayerOf(game[n[1]], n[2]) = p}

NamesOwned ==
    /\ \A p \in Players : account[p] # Nil => account[p].name \in OwnNames(p)
    /\ \A w \in Jobs : worker[w].cur # Nil =>
          \A x \in Roles : worker[w].name[x] \in OwnNames(PlayerOf(Msg(w), x))

\* What a worker holds for the step to come.
Ready(s) ==
    /\ s.at = "Create" => s.key # Nil
    /\ s.at \in {"StakeKey", "Stake"} => s.role = "loser"
    /\ s.at = "Stake" => s.amount = game[s.cur].cos

AllReady == \A w \in Jobs : worker[w].cur # Nil => Ready(worker[w])

GameBase == TypeOK /\ Known /\ NamesOwned /\ AllReady

-----------------------------------------------------------------------------
(* Lemmas on the operators.                                                 *)

\* The worker of a game's loser.
LEMMA JobOfGame == ASSUME NEW b \in Bodies PROVE JobOf(b) \in Jobs
<1>1. b.loser \in Nat /\ JobCount \in Nat \ {0}
  BY GameAssumption DEF GameAssumption
<1> QED
  BY <1>1 DEF JobOf, Jobs

\* What a game says.
LEMMA BodyType ==
    ASSUME NEW b \in Bodies
    PROVE  /\ b.winner \in Players /\ b.loser \in Players
           /\ b.wcos \in Uint64 /\ b.lcos \in Uint64 /\ b.cos \in Uint64
           /\ b # Nil /\ GameKey(b) \in Seq(0 .. 9)
           /\ \A x \in Roles : PlayerOf(b, x) \in Players
<1>1. /\ b \in [id: Seq(0 .. 9), winner: Players, loser: Players,
                wcos: Uint64, lcos: Uint64, cos: Uint64]
      /\ b # Nil
  BY GameAssumption DEF GameAssumption
<1>2. Digits[b.loser] \in Seq(0 .. 9)
  BY <1>1, GameAssumption DEF GameAssumption
<1>3. GameKey(b) \in Seq(0 .. 9)
  BY <1>1, <1>2 DEF GameKey
<1> QED
  BY <1>1, <1>3 DEF PlayerOf

\* The bounds of amounts.
LEMMA Numbers == Modulus \in Nat /\ Supply \in Nat /\ 2 * Supply < Modulus
  BY GameAssumption DEF GameAssumption

\* uint64 arithmetic stays within uint64.
LEMMA Wraps ==
    ASSUME NEW a \in Uint64, NEW b \in Uint64
    PROVE  /\ Minus(a, b) \in Uint64 /\ Plus(a, b) \in Uint64
           /\ a < b => b - a \in Uint64
  BY Numbers DEF Uint64, Minus, Plus

\* Coins are uint64.
LEMMA CoinType == Balances \subseteq Uint64
  BY Numbers DEF Balances, Uint64

\* The amounts that a game asks for.
LEMMA AmountType ==
    ASSUME NEW b \in Bodies, NEW x \in Roles, NEW c \in Balances
    PROVE  /\ Before(b, x) \in Uint64 /\ Grant(b, x) \in Uint64
           /\ Surplus(b, x, c) \in Uint64
           /\ c < Before(b, x) => Before(b, x) - c \in Uint64
<1>1. c \in Uint64
  BY CoinType
<1>2. Before(b, x) \in Uint64 /\ Grant(b, x) \in Uint64
  BY BodyType, Wraps DEF Before, Grant
<1>3. /\ Minus(c, b.wcos) \in Uint64 /\ Minus(c, b.lcos) \in Uint64
  BY <1>1, BodyType, Wraps
<1>4. Surplus(b, x, c) \in Uint64
  BY <1>3, BodyType, Wraps DEF Surplus
<1>5. c < Before(b, x) => Before(b, x) - c \in Uint64
  BY <1>1, <1>2, Wraps
<1> QED
  BY <1>2, <1>4, <1>5

\* Names of different players differ.
LEMMA NamesApart ==
    ASSUME NEW p, NEW q, p # q PROVE OwnNames(p) \cap OwnNames(q) = {}
<1> SUFFICES ASSUME NEW n, n \in OwnNames(p), n \in OwnNames(q) PROVE FALSE
  OBVIOUS
<1>1. CASE n = Own(p) /\ n = Own(q)
  BY <1>1 DEF Own
<1>2. CASE \E z : n = Own(z) /\ n \in Reqs \X Roles
  BY <1>2 DEF Own, Roles
<1>3. CASE PlayerOf(game[n[1]], n[2]) = p /\ PlayerOf(game[n[1]], n[2]) = q
  BY <1>3
<1> QED
  BY <1>1, <1>2, <1>3 DEF OwnNames

\* A player's own names are names, and stay hers while games come.
LEMMA OwnNamesType == ASSUME NEW p \in Players PROVE OwnNames(p) \subseteq Names
  BY DEF OwnNames, Names

\* The message of a busy worker.
LEMMA MsgType ==
    ASSUME GameBase, NEW w \in Jobs, worker[w].cur # Nil
    PROVE  /\ worker[w] \in WorkerStates /\ worker[w].cur \in Reqs
           /\ Msg(w) \in Bodies
           /\ worker[w].role \in Roles
           /\ Player(w) \in Players /\ Player(w) = PlayerOf(Msg(w), worker[w].role)
           /\ \A x \in Roles : worker[w].name[x] \in Names
           /\ Name(w) \in Names /\ Name(w) \in OwnNames(Player(w))
           /\ NewKey(w) \in Names
<1>1. worker[w] \in WorkerStates /\ worker[w].cur \in Reqs /\ worker[w].role \in Roles
  BY DEF GameBase, TypeOK, WorkerStates
<1>2. Msg(w) \in Bodies
  BY <1>1 DEF GameBase, Known, Sent, Msg
<1>3. Player(w) = PlayerOf(Msg(w), worker[w].role) /\ Player(w) \in Players
  BY <1>1, <1>2, BodyType DEF Player
<1>4. \A x \in Roles : worker[w].name[x] \in OwnNames(PlayerOf(Msg(w), x))
  BY DEF GameBase, NamesOwned
<1>5. \A x \in Roles : worker[w].name[x] \in Names
  BY <1>2, <1>4, BodyType, OwnNamesType
<1>6. Name(w) \in Names /\ Name(w) \in OwnNames(Player(w))
  BY <1>1, <1>3, <1>4, <1>5 DEF Name
<1>7. NewKey(w) \in Names
  BY <1>1 DEF NewKey, Names
<1> QED
  BY <1>1, <1>2, <1>3, <1>5, <1>6, <1>7

-----------------------------------------------------------------------------
(* The initial state, and the steps of handlers.                            *)

\* What TypeOK says of the server and the queues.
LEMMA ServerType ==
    ASSUME TypeOK
    PROVE  /\ game \in [Reqs -> Bodies \cup {Nil}]
           /\ stage \in [Reqs -> {"none", "check", "put", "OK", "GameIdExist",
                                  "ServerError", "Lost"}]
           /\ queue \in [Jobs -> Seq(Reqs)]
           /\ worker \in [Jobs -> WorkerStates]
           /\ account \in [Players -> [name: Names, key: Accounts] \cup {Nil}]
           /\ chain \in [Accounts -> [key: Accounts, coin: Balances] \cup {Nil}]
           /\ faults \in 0 .. MaxFaults /\ MaxFaults \in Nat
  BY GameAssumption DEF GameAssumption, TypeOK

LEMMA IdleType == IdleWorker \in WorkerStates /\ IdleWorker.cur = Nil
  BY Numbers DEF IdleWorker, WorkerStates, Roles, Uint64

\* Another worker takes a message about the same player.
Disturbed(s) == [s EXCEPT !.undisturbed = FALSE]

LEMMA DisturbedType ==
    ASSUME NEW s \in WorkerStates
    PROVE  /\ Disturbed(s) \in WorkerStates
           /\ Disturbed(s).cur = s.cur /\ Disturbed(s).at = s.at
           /\ Disturbed(s).role = s.role /\ Disturbed(s).name = s.name
           /\ Disturbed(s).amount = s.amount /\ Disturbed(s).key = s.key
           /\ Disturbed(s).created = s.created /\ Disturbed(s).undisturbed = FALSE
  BY DEF Disturbed, WorkerStates

LEMMA FaultType ==
    ASSUME TypeOK, NEW k, Fault(k) PROVE faults' \in 0 .. MaxFaults
  BY ServerType DEF Fault

LEMMA InitBase == Init => GameBase
<1> SUFFICES ASSUME Init PROVE GameBase
  OBVIOUS
<1> USE DEF Init
<1>1. account \in [Players -> [name: Names, key: Accounts] \cup {Nil}]
  BY DEF Names, Accounts
<1>2. chain \in [Accounts -> [key: Accounts, coin: Balances] \cup {Nil}]
  <2>1. PICK coins \in Endowments :
          chain = [a \in Accounts |->
                     CASE a = Official -> [key |-> a, coin |-> coins[a]]
                       [] a \in {Own(p) : p \in Registered} -> [key |-> a, coin |-> coins[a[1]]]
                       [] OTHER -> Nil]
    OBVIOUS
  <2>2. coins \in [Registered \cup {Official} -> Balances]
    BY GameAssumption DEF GameAssumption
  <2>3. ASSUME NEW a \in Accounts PROVE chain[a] \in [key: Accounts, coin: Balances] \cup {Nil}
    <3>1. CASE a = Official
      <4>1. coins[a] \in Balances
        BY <2>2, <3>1
      <4>2. a \notin {Own(p) : p \in Registered}
        BY <3>1, GameAssumption DEF GameAssumption, Names
      <4>3. chain[a] = [key |-> a, coin |-> coins[a]]
        BY <2>1, <3>1, <4>2
      <4> QED
        BY <4>1, <4>3
    <3>2. CASE a # Official /\ a \in {Own(p) : p \in Registered}
      <4>1. a[1] \in Registered
        BY <3>2 DEF Own
      <4> QED
        BY <2>1, <2>2, <3>2, <4>1
    <3>3. CASE a # Official /\ a \notin {Own(p) : p \in Registered}
      BY <2>1, <3>3
    <3> QED
      BY <3>1, <3>2, <3>3
  <2> QED
    BY <2>1, <2>3
<1>3. /\ queue \in [Jobs -> Seq(Reqs)] /\ \A w \in Jobs : queue[w] = <<>>
      /\ \A w \in Jobs : Len(queue[w]) <= QueueSize
  BY GameAssumption DEF GameAssumption
<1>4. TypeOK
  BY <1>1, <1>2, <1>3, IdleType, GameAssumption DEF GameAssumption, TypeOK
<1>5. Known
  BY <1>3, IdleType DEF Known
<1>6. NamesOwned
  BY IdleType DEF NamesOwned, OwnNames
<1>7. AllReady
  BY IdleType DEF AllReady
<1> QED
  BY <1>4, <1>5, <1>6, <1>7 DEF GameBase

\* A game that came does not change.
GamesStay == \A r \in Reqs : stage[r] # "none" => stage'[r] # "none" /\ game'[r] = game[r]

LEMMA OwnNamesGrow ==
    ASSUME GamesStay, NEW p PROVE OwnNames(p) \subseteq OwnNames(p)'
<1>1. ASSUME NEW n \in Reqs \X Roles, stage[n[1]] # "none"
      PROVE  stage'[n[1]] # "none" /\ game'[n[1]] = game[n[1]]
  BY <1>1 DEF GamesStay
<1> QED
  BY <1>1 DEF OwnNames

\* A step that only adds a game or moves a handler.
LEMMA HandlerFrame ==
    ASSUME GameBase, TypeOK', GamesStay,
           \A r \in Reqs : stage'[r] # "none" => game'[r] \in Bodies,
           UNCHANGED <<account, worker>>,
           \A w \in Jobs : \A k \in DOMAIN queue'[w] :
              \/ k \in DOMAIN queue[w] /\ queue'[w][k] = queue[w][k]
              \/ Sent(queue[w][k], w)'
    PROVE  GameBase'
<1> USE ServerType DEF GameBase
<1>0. TypeOK
  OBVIOUS
<1>1. ASSUME NEW r \in Reqs, NEW w, Sent(r, w) PROVE Sent(r, w)'
  BY <1>1 DEF GamesStay, Sent, JobOf
<1>2. \A w \in Jobs : \A k \in DOMAIN queue[w] : queue[w][k] \in Reqs
  BY <1>0
<1>3. \A w \in Jobs : worker[w].cur # Nil => worker[w].cur \in Reqs
  BY <1>0 DEF WorkerStates
<1>4. Known'
  <2>1. ASSUME NEW w \in Jobs, NEW k \in DOMAIN queue'[w] PROVE Sent(queue[w][k], w)'
    <3>1. CASE k \in DOMAIN queue[w] /\ queue'[w][k] = queue[w][k]
      BY <1>1, <1>2, <3>1 DEF Known, Sent
    <3> QED
      BY <3>1
  <2>2. ASSUME NEW w \in Jobs, worker[w].cur # Nil PROVE Sent(worker[w].cur, w)'
    BY <1>1, <1>3, <2>2 DEF Known, Sent
  <2> QED
    BY <2>1, <2>2 DEF Known
<1>5. \A w \in Jobs : worker[w].cur # Nil => Msg(w)' = Msg(w)
  BY <1>3 DEF Known, Sent, Msg, GamesStay
<1>6. ASSUME NEW p \in Players, account[p] # Nil PROVE account[p].name \in OwnNames(p)'
  BY <1>6, OwnNamesGrow DEF NamesOwned
<1>7. ASSUME NEW w \in Jobs, worker[w].cur # Nil, NEW x \in Roles
      PROVE  worker[w].name[x] \in OwnNames(PlayerOf(Msg(w), x))'
  <2>1. PICK p : p = PlayerOf(Msg(w), x) /\ p = PlayerOf(Msg(w), x)'
    BY <1>5, <1>7 DEF PlayerOf
  <2>2. worker[w].name[x] \in OwnNames(p)
    BY <1>7, <2>1 DEF NamesOwned
  <2>3. worker[w].name[x] \in OwnNames(p)'
    BY <2>2, OwnNamesGrow
  <2> QED
    BY <2>1, <2>3 DEF OwnNames
<1>8. NamesOwned'
  BY <1>6, <1>7 DEF NamesOwned
<1>9. AllReady'
  <2> SUFFICES ASSUME NEW w \in Jobs, worker[w].cur # Nil PROVE Ready(worker[w])'
    BY DEF AllReady
  <2>1. game'[worker[w].cur] = game[worker[w].cur] /\ Ready(worker[w])
    BY <1>3 DEF Known, Sent, GamesStay, AllReady
  <2> QED
    BY <2>1 DEF Ready
<1> QED
  BY <1>4, <1>8, <1>9

LEMMA ArriveBase ==
    ASSUME GameBase, NEW r \in Reqs, NEW b \in Bodies, Arrive(r, b) PROVE GameBase'
<1> USE ServerType DEF Arrive, redisVars
<1>0. TypeOK
  BY DEF GameBase
<1>1. game' \in [Reqs -> Bodies \cup {Nil}]
  BY <1>0
<1>2. TypeOK'
  BY <1>0, <1>1 DEF TypeOK
<1>3. GamesStay /\ \A q \in Reqs : stage'[q] # "none" => game'[q] \in Bodies
  BY <1>0 DEF GamesStay, GameBase, Known
<1> QED
  BY <1>2, <1>3, HandlerFrame

LEMMA CheckBase ==
    ASSUME GameBase, NEW r \in Reqs, Check(r) \/ CheckFails(r) PROVE GameBase'
<1> USE ServerType DEF Check, CheckFails, redisVars
<1>0. TypeOK
  BY DEF GameBase
<1>1. faults' \in 0 .. MaxFaults
  BY <1>0, FaultType
<1>2. TypeOK'
  BY <1>0, <1>1 DEF TypeOK
<1>3. GamesStay /\ \A q \in Reqs : stage'[q] # "none" => game'[q] \in Bodies
  BY <1>0 DEF GamesStay, GameBase, Known
<1> QED
  BY <1>2, <1>3, HandlerFrame

LEMMA PutBase ==
    ASSUME GameBase, NEW r \in Reqs, Put(r) PROVE GameBase'
<1> DEFINE w == JobOf(game[r])
<1> USE ServerType DEF Put, redisVars
<1>0. TypeOK /\ game[r] \in Bodies /\ w \in Jobs
  BY JobOfGame DEF GameBase, Known
<1>1. queue' = [queue EXCEPT ![w] = Append(queue[w], r)] /\ queue[w] \in Seq(Reqs)
  BY <1>0
<1>2. Append(queue[w], r) \in Seq(Reqs) /\ Len(queue[w]) + 1 <= QueueSize
  BY <1>0, <1>1, GameAssumption DEF GameAssumption
<1>3. /\ queue' \in [Jobs -> Seq(Reqs)]
      /\ \A v \in Jobs : Len(queue'[v]) <= QueueSize
  BY <1>0, <1>1, <1>2 DEF TypeOK
<1>4. TypeOK'
  BY <1>0, <1>3 DEF TypeOK
<1>5. GamesStay /\ \A q \in Reqs : stage'[q] # "none" => game'[q] \in Bodies
  BY <1>0 DEF GamesStay, GameBase, Known
<1>6. ASSUME NEW v \in Jobs, NEW k \in DOMAIN queue'[v]
      PROVE  \/ k \in DOMAIN queue[v] /\ queue'[v][k] = queue[v][k]
             \/ Sent(queue[v][k], v)'
  <2>1. CASE v # w \/ k \in DOMAIN queue[v]
    BY <1>0, <1>1, <2>1
  <2>2. CASE v = w /\ k \notin DOMAIN queue[v]
    <3>1. queue'[v][k] = r
      BY <1>0, <1>1, <2>2
    <3>2. stage'[r] # "none" /\ JobOf(game'[r]) = v
      BY <1>0, <2>2
    <3> QED
      BY <3>1, <3>2 DEF Sent, JobOf
  <2> QED
    BY <2>1, <2>2
<1> HIDE DEF w
<1> QED
  BY <1>4, <1>5, <1>6, HandlerFrame

LEMMA CrashBase == ASSUME GameBase, Crash PROVE GameBase'
<1> USE ServerType DEF Crash, redisVars
<1>0. TypeOK
  BY DEF GameBase
<1>1. faults' \in 0 .. MaxFaults
  BY <1>0, FaultType
<1>2. /\ queue' \in [Jobs -> Seq(Reqs)] /\ \A w \in Jobs : queue'[w] = <<>>
      /\ \A w \in Jobs : Len(queue'[w]) <= QueueSize
  BY GameAssumption DEF GameAssumption
<1>3. worker' \in [Jobs -> WorkerStates] /\ \A w \in Jobs : worker'[w].cur = Nil
  BY IdleType
<1>4. TypeOK'
  BY <1>0, <1>1, <1>2, <1>3 DEF TypeOK
<1>5. GamesStay /\ \A q \in Reqs : stage'[q] # "none" => game'[q] \in Bodies
  BY <1>0 DEF GamesStay, GameBase, Known
<1>6. Known'
  BY <1>2, <1>3, <1>5 DEF Known
<1>7. \A p \in Players : OwnNames(p) \subseteq OwnNames(p)'
  BY <1>5, OwnNamesGrow
<1>8. NamesOwned'
  BY <1>3, <1>7 DEF NamesOwned, GameBase
<1>9. AllReady'
  BY <1>3 DEF AllReady
<1> QED
  BY <1>4, <1>6, <1>8, <1>9 DEF GameBase

-----------------------------------------------------------------------------
(* The steps of workers.                                                    *)

\* The first message of a channel, and those behind it.
LEMMA HeadTail ==
    ASSUME NEW S, NEW q \in Seq(S), q # <<>>
    PROVE  /\ 1 \in DOMAIN q /\ Head(q) = q[1] /\ Head(q) \in S
           /\ Tail(q) \in Seq(S) /\ Len(Tail(q)) = Len(q) - 1
           /\ \A k \in DOMAIN Tail(q) : k + 1 \in DOMAIN q /\ Tail(q)[k] = q[k + 1]
  OBVIOUS

LEMMA TakeBase == ASSUME GameBase, NEW w \in Jobs, Take(w) PROVE GameBase'
<1> DEFINE r == Head(queue[w])
           rival == {v \in Jobs : /\ worker[v].cur # Nil
                                  /\ Pair(r) \cap Pair(worker[v].cur) # {}}
           fresh == [IdleWorker EXCEPT !.cur = r, !.at = "Mark",
                                       !.name = [x \in Roles |-> <<r, x>>],
                                       !.undisturbed = (rival = {})]
<1> USE ServerType DEF redisVars, unchangedByJob
<1>0. /\ TypeOK /\ Known /\ NamesOwned
      /\ UNCHANGED <<account, played, chain, faults, game, stage>>
      /\ queue' = [queue EXCEPT ![w] = Tail(queue[w])]
      /\ worker[w].cur = Nil
  BY DEF GameBase, Take
<1>1. queue[w] \in Seq(Reqs) /\ queue[w] # <<>>
  BY <1>0 DEF Take
<1>2. r \in Reqs /\ Sent(r, w)
  BY <1>0, <1>1, HeadTail DEF Known
<1>3. Tail(queue[w]) \in Seq(Reqs) /\ Len(Tail(queue[w])) <= QueueSize
  <2>1. Len(queue[w]) <= QueueSize /\ Len(queue[w]) \in Nat /\ QueueSize \in Nat
    BY <1>0, <1>1, GameAssumption DEF GameAssumption, TypeOK
  <2> QED
    BY <1>1, <2>1, HeadTail
<1>4. /\ queue' \in [Jobs -> Seq(Reqs)] /\ \A v \in Jobs : Len(queue'[v]) <= QueueSize
  BY <1>0, <1>3 DEF TypeOK
<1>5. fresh \in WorkerStates /\ fresh.cur = r /\ fresh.at = "Mark" /\ fresh.name = [x \in Roles |-> <<r, x>>]
  <2>1. [x \in Roles |-> <<r, x>>] \in [Roles -> Names \cup {Nil}]
    BY <1>2 DEF Names
  <2> HIDE DEF rival, r
  <2> QED
    BY <1>2, <2>1, IdleType DEF IdleWorker, WorkerStates
<1>6. /\ worker'[w] = fresh
      /\ \A v \in Jobs \ {w} : worker'[v] = worker[v]
                               \/ worker'[v] = Disturbed(worker[v])
      /\ worker' = [v \in Jobs |-> worker'[v]]
  <2>1. worker' = [v \in Jobs |->
                        CASE v = w      -> fresh
                          [] v \in rival -> [worker[v] EXCEPT !.undisturbed = FALSE]
                          [] OTHER      -> worker[v]]
    BY DEF Take
  <2>2. w \notin rival
    BY <1>0
  <2> HIDE DEF rival, fresh
  <2> QED
    BY <2>1, <2>2 DEF Disturbed
<1> HIDE DEF fresh, r
<1>7. worker' \in [Jobs -> WorkerStates]
  <2>1. \A v \in Jobs : worker'[v] \in WorkerStates
    <3> SUFFICES ASSUME NEW v \in Jobs PROVE worker'[v] \in WorkerStates
      OBVIOUS
    <3>1. CASE v = w
      BY <1>5, <1>6, <3>1
    <3>2. CASE v # w
      <4>1. worker[v] \in WorkerStates
        BY <1>0
      <4> QED
        BY <1>6, <3>2, <4>1, DisturbedType
    <3> QED
      BY <3>1, <3>2
  <2> QED
    BY <1>6, <2>1
<1>8. TypeOK'
  BY <1>0, <1>4, <1>7 DEF TypeOK
<1>9. \A v \in Jobs \ {w} : worker'[v].cur = worker[v].cur /\ worker'[v].name = worker[v].name
  <2> TAKE v \in Jobs \ {w}
  <2>1. worker[v] \in WorkerStates
    BY <1>0
  <2> QED
    BY <1>6, <2>1, DisturbedType
<1>10. ASSUME NEW q, NEW v, Sent(q, v) PROVE Sent(q, v)'
  BY <1>0, <1>10 DEF Sent, JobOf
<1>11. Known'
  <2>1. ASSUME NEW v \in Jobs, NEW k \in DOMAIN queue'[v] PROVE Sent(queue[v][k], v)'
    <3>1. CASE v # w
      BY <1>0, <1>10, <3>1 DEF Known
    <3>2. CASE v = w
      <4>1. k + 1 \in DOMAIN queue[w] /\ queue'[w][k] = queue[w][k + 1]
        BY <1>0, <1>1, <3>2, HeadTail
      <4> QED
        BY <1>0, <1>10, <3>2, <4>1 DEF Known
    <3> QED
      BY <3>1, <3>2
  <2>2. ASSUME NEW v \in Jobs, worker'[v].cur # Nil PROVE Sent(worker[v].cur, v)'
    BY <1>0, <1>2, <1>5, <1>6, <1>9, <1>10, <2>2 DEF Known
  <2> QED
    BY <1>0, <2>1, <2>2 DEF Known
<1>12. \A p : OwnNames(p)' = OwnNames(p)
  BY <1>0 DEF OwnNames
<1>13. ASSUME NEW v \in Jobs, worker'[v].cur # Nil, NEW x \in Roles
       PROVE  worker'[v].name[x] \in OwnNames(PlayerOf(Msg(v), x))'
  <2>1. CASE v = w
    <3>1. worker'[v].name[x] = <<r, x>> /\ Msg(v)' = game[r]
      BY <1>0, <1>5, <1>6, <2>1 DEF Msg
    <3>2. <<r, x>> \in OwnNames(PlayerOf(game[r], x))
      BY <1>2 DEF OwnNames, Sent
    <3> QED
      BY <1>12, <3>1, <3>2
  <2>2. CASE v # w
    <3>1. Msg(v)' = Msg(v)
      BY <1>0, <1>9, <2>2 DEF Msg
    <3>2. worker'[v].name[x] \in OwnNames(PlayerOf(Msg(v), x))
      BY <1>0, <1>9, <1>13, <2>2 DEF NamesOwned
    <3> QED
      BY <1>12, <3>1, <3>2
  <2> QED
    BY <2>1, <2>2
<1>14. NamesOwned'
  BY <1>0, <1>12, <1>13 DEF NamesOwned
<1>15. ASSUME NEW v \in Jobs, worker'[v].cur # Nil PROVE Ready(worker[v])'
  <2>1. CASE v = w
    BY <1>5, <1>6, <2>1 DEF Ready
  <2>2. CASE v # w
    <3>1. worker[v] \in WorkerStates /\ Ready(worker[v])
      BY <1>0, <1>9, <1>15, <2>2 DEF AllReady, GameBase
    <3>2. Ready(Disturbed(worker[v]))
      BY <3>1, DisturbedType DEF Ready
    <3>3. Ready(worker'[v])
      BY <1>6, <2>2, <3>1, <3>2
    <3> QED
      BY <1>0, <3>3 DEF Ready
  <2> QED
    BY <2>1, <2>2
<1> QED
  BY <1>8, <1>11, <1>14, <1>15 DEF GameBase, AllReady

\* A step of a busy worker: it goes on with its message, or abandons it.
LEMMA WorkFrame ==
    ASSUME GameBase, NEW w \in Jobs, worker[w].cur # Nil,
           NEW s \in WorkerStates, Become(w, s),
           s.cur # Nil => /\ s.cur = worker[w].cur /\ Ready(s)
                          /\ \A x \in Roles : s.name[x] \in OwnNames(PlayerOf(Msg(w), x)),
           UNCHANGED <<queue, game, stage>>,
           faults' \in 0 .. MaxFaults, played' \subseteq Seq(0 .. 9),
           chain' \in [Accounts -> [key: Accounts, coin: Balances] \cup {Nil}],
           account' \in [Players -> [name: Names, key: Accounts] \cup {Nil}],
           \A p \in Players : account'[p] = account[p] \/ account'[p].name \in OwnNames(p)
    PROVE  GameBase'
<1> USE ServerType DEF Become
<1>0. TypeOK /\ Known /\ NamesOwned
  BY DEF GameBase
<1>1. worker'[w] = s /\ \A v \in Jobs \ {w} : worker'[v] = worker[v]
  BY <1>0
<1>2. TypeOK'
  BY <1>0 DEF TypeOK
<1>3. Known'
  BY <1>0, <1>1 DEF Known, Sent, JobOf
<1>4. \A p : OwnNames(p)' = OwnNames(p)
  BY DEF OwnNames
<1>5. ASSUME NEW v \in Jobs, worker'[v].cur # Nil, NEW x \in Roles
      PROVE  worker'[v].name[x] \in OwnNames(PlayerOf(Msg(v), x))'
  <2>1. worker'[v].cur = worker[v].cur
    BY <1>1, <1>5
  <2>2. Msg(v)' = Msg(v)
    BY <2>1 DEF Msg
  <2>3. worker'[v].name[x] \in OwnNames(PlayerOf(Msg(v), x))
    BY <1>0, <1>1, <1>5, <2>1 DEF NamesOwned
  <2> QED
    BY <1>4, <2>2, <2>3
<1>6. NamesOwned'
  BY <1>0, <1>4, <1>5 DEF NamesOwned
<1>7. AllReady'
  <2> SUFFICES ASSUME NEW v \in Jobs, worker'[v].cur # Nil PROVE Ready(worker[v])'
    BY DEF AllReady
  <2>1. Ready(worker'[v])
    BY <1>1 DEF GameBase, AllReady
  <2> QED
    BY <2>1 DEF Ready
<1> QED
  BY <1>2, <1>3, <1>6, <1>7 DEF GameBase

\* What a worker does next is of its message, or it is idle.
Goes(w, s) ==
    /\ s \in WorkerStates
    /\ s = IdleWorker \/ /\ s.cur = worker[w].cur /\ Ready(s)
                         /\ \A x \in Roles : s.name[x] \in OwnNames(PlayerOf(Msg(w), x))

LEMMA GoesFrame ==
    ASSUME GameBase, NEW w \in Jobs, worker[w].cur # Nil,
           NEW s, Goes(w, s), Become(w, s), UNCHANGED <<queue, game, stage>>,
           faults' \in 0 .. MaxFaults, played' \subseteq Seq(0 .. 9),
           chain' \in [Accounts -> [key: Accounts, coin: Balances] \cup {Nil}],
           account' \in [Players -> [name: Names, key: Accounts] \cup {Nil}],
           \A p \in Players : account'[p] = account[p] \/ account'[p].name \in OwnNames(p)
    PROVE  GameBase'
  BY WorkFrame, IdleType DEF Goes

\* The chain and redis keep their types in a step that leaves them.
LEMMA StoresType ==
    ASSUME GameBase
    PROVE  /\ played \subseteq Seq(0 .. 9) /\ faults \in 0 .. MaxFaults
           /\ chain \in [Accounts -> [key: Accounts, coin: Balances] \cup {Nil}]
           /\ account \in [Players -> [name: Names, key: Accounts] \cup {Nil}]
  BY DEF GameBase, TypeOK

\* Going on with the names, or giving up.
LEMMA GoesKeep ==
    ASSUME GameBase, NEW w \in Jobs, worker[w].cur # Nil, NEW s \in WorkerStates,
           s.cur = worker[w].cur, s.name = worker[w].name, Ready(s)
    PROVE  Goes(w, s)
  BY DEF Goes, GameBase, NamesOwned

LEMMA GoesIdle == ASSUME NEW w PROVE Goes(w, IdleWorker)
  BY IdleType DEF Goes

LEMMA SettledGoes ==
    ASSUME GameBase, NEW w \in Jobs, worker[w].cur # Nil
    PROVE  Goes(w, Settled(w))
<1>1. /\ Settled(w) \in WorkerStates
      /\ Settled(w).cur = worker[w].cur /\ Settled(w).name = worker[w].name
  BY MsgType DEF Settled, WorkerStates, Roles
<1>2. Ready(Settled(w))
  BY MsgType DEF Settled, WorkerStates, Roles, Ready
<1> QED
  BY <1>1, <1>2, GoesKeep

LEMMA MarkBase == ASSUME GameBase, NEW w \in Jobs, Mark(w) PROVE GameBase'
<1> DEFINE s == [worker[w] EXCEPT !.at = "Name"]
<1>1. /\ worker[w].cur # Nil /\ Become(w, s)
      /\ UNCHANGED <<queue, game, stage, account, chain, faults>>
      /\ played' = played \cup {GameKey(Msg(w))}
  BY DEF Mark, At, unchangedByJob
<1>2. s \in WorkerStates /\ s.cur = worker[w].cur /\ s.name = worker[w].name /\ Ready(s)
  BY <1>1, MsgType DEF WorkerStates, Ready
<1>3. Goes(w, s)
  BY <1>1, <1>2, GoesKeep
<1>4. GameKey(Msg(w)) \in Seq(0 .. 9)
  BY <1>1, MsgType, BodyType
<1> HIDE DEF s
<1> QED
  BY <1>1, <1>3, <1>4, GoesFrame, StoresType

LEMMA ReadNameBase == ASSUME GameBase, NEW w \in Jobs, ReadName(w) PROVE GameBase'
<1> DEFINE known == IF account[Player(w)] = Nil THEN worker[w]
                    ELSE [worker[w] EXCEPT !.name[worker[w].role] = account[Player(w)].name]
           s == IF worker[w].role = "winner" THEN [known EXCEPT !.role = "loser"]
                ELSE [known EXCEPT !.role = "winner", !.at = "Info"]
<1>1. /\ worker[w].cur # Nil /\ Become(w, s)
      /\ UNCHANGED <<queue, game, stage, account, chain, played, faults>>
  BY DEF ReadName, At, unchangedByJob, redisVars
<1>2. /\ known \in WorkerStates /\ known.at = "Name" /\ known.cur = worker[w].cur
      /\ \A x \in Roles : known.name[x] \in OwnNames(PlayerOf(Msg(w), x))
  <2>1. CASE account[Player(w)] = Nil
    BY <1>1, <2>1, MsgType DEF GameBase, NamesOwned, ReadName, At
  <2>2. CASE account[Player(w)] # Nil
    <3>1. /\ account[Player(w)].name \in Names
          /\ account[Player(w)].name \in OwnNames(PlayerOf(Msg(w), worker[w].role))
      BY <1>1, <2>2, MsgType, StoresType DEF GameBase, NamesOwned
    <3>2. PICK n : n = account[Player(w)].name
      OBVIOUS
    <3>3. known = [worker[w] EXCEPT !.name[worker[w].role] = n]
      BY <2>2, <3>2
    <3>4. worker[w] \in WorkerStates /\ worker[w].role \in Roles
      BY <1>1, MsgType
    <3>5. /\ known \in WorkerStates /\ known.cur = worker[w].cur
          /\ known.at = worker[w].at
          /\ known.name = [worker[w].name EXCEPT ![worker[w].role] = n]
      BY <3>1, <3>2, <3>3, <3>4 DEF WorkerStates
    <3>6. \A x \in Roles : known.name[x] = IF x = worker[w].role THEN n ELSE worker[w].name[x]
      BY <3>4, <3>5 DEF WorkerStates
    <3> QED
      BY <1>1, <3>1, <3>2, <3>5, <3>6 DEF GameBase, NamesOwned, ReadName, At
  <2> QED
    BY <2>1, <2>2
<1> HIDE DEF known
<1>3. s \in WorkerStates /\ s.cur = known.cur /\ s.name = known.name /\ Ready(s)
  BY <1>2 DEF WorkerStates, Roles, Ready
<1>4. Goes(w, s)
  BY <1>2, <1>3 DEF Goes
<1> HIDE DEF s
<1> QED
  BY <1>1, <1>4, GoesFrame, StoresType

\* What the chain answers: a balance.
LEMMA CoinInfo ==
    ASSUME GameBase, NEW w \in Jobs, worker[w].cur # Nil
    PROVE  (IF chain[Name(w)] = Nil THEN 0 ELSE chain[Name(w)].coin) \in Balances
  BY MsgType, StoresType, Numbers DEF Accounts, Balances

LEMMA QueryInfoBase == ASSUME GameBase, NEW w \in Jobs, QueryInfo(w) PROVE GameBase'
<1> DEFINE coin == IF chain[Name(w)] = Nil THEN 0 ELSE chain[Name(w)].coin
           due  == Before(Msg(w), worker[w].role)
           up   == [worker[w] EXCEPT !.at = "TopUp", !.amount = due - coin]
           down == [worker[w] EXCEPT !.at = "SurplusKey",
                                     !.amount = Surplus(Msg(w), worker[w].role, coin)]
<1>1. /\ worker[w].cur # Nil
      /\ UNCHANGED <<queue, game, stage, account, chain, played, faults>>
      /\ \/ coin < due /\ Become(w, up)
         \/ coin > due /\ Become(w, down)
         \/ coin = due /\ Become(w, Settled(w))
  BY DEF QueryInfo, At, unchangedByJob, redisVars
<1>2. /\ coin < due => due - coin \in Uint64
      /\ Surplus(Msg(w), worker[w].role, coin) \in Uint64
  BY <1>1, CoinInfo, MsgType, AmountType
<1>3. worker[w] \in WorkerStates
  BY <1>1, MsgType
<1> HIDE DEF coin, due
<1>4. CASE coin < due /\ Become(w, up)
  <2>1. up \in WorkerStates /\ up.cur = worker[w].cur /\ up.name = worker[w].name /\ Ready(up)
    BY <1>2, <1>3, <1>4 DEF WorkerStates, Ready
  <2>2. Goes(w, up)
    BY <1>1, <2>1, GoesKeep
  <2> HIDE DEF up
  <2> QED
    BY <1>1, <1>4, <2>2, GoesFrame, StoresType
<1>5. CASE Become(w, down)
  <2>1. down \in WorkerStates /\ down.cur = worker[w].cur /\ down.name = worker[w].name /\ Ready(down)
    BY <1>2, <1>3 DEF WorkerStates, Ready
  <2>2. Goes(w, down)
    BY <1>1, <2>1, GoesKeep
  <2> HIDE DEF down
  <2> QED
    BY <1>1, <1>5, <2>2, GoesFrame, StoresType
<1>6. CASE Become(w, Settled(w))
  BY <1>1, <1>6, SettledGoes, GoesFrame, StoresType
<1> QED
  BY <1>1, <1>4, <1>5, <1>6

LEMMA QueryFailsBase == ASSUME GameBase, NEW w \in Jobs, QueryFails(w) PROVE GameBase'
<1> DEFINE s == [worker[w] EXCEPT !.at = "SetAccount",
                                  !.amount = Grant(Msg(w), worker[w].role)]
<1>1. /\ worker[w].cur # Nil /\ Become(w, s) /\ Fault("query")
      /\ UNCHANGED <<queue, game, stage, account, chain, played>>
  BY DEF QueryFails, At, unchangedByJob, redisVars
<1>2. Grant(Msg(w), worker[w].role) \in Uint64 /\ worker[w] \in WorkerStates
  BY <1>1, MsgType, BodyType DEF Grant
<1>3. s \in WorkerStates /\ s.cur = worker[w].cur /\ s.name = worker[w].name /\ Ready(s)
  BY <1>2 DEF WorkerStates, Ready
<1>4. Goes(w, s)
  BY <1>1, <1>3, GoesKeep
<1>5. faults' \in 0 .. MaxFaults
  BY <1>1, FaultType DEF GameBase
<1> HIDE DEF s
<1> QED
  BY <1>1, <1>4, <1>5, GoesFrame, StoresType

\* The record that createAccount writes is the player's own.
LEMMA RecordType ==
    ASSUME GameBase, NEW w \in Jobs, worker[w].cur # Nil,
           account' = [account EXCEPT ![Player(w)] = [name |-> Name(w), key |-> NewKey(w)]]
    PROVE  /\ account' \in [Players -> [name: Names, key: Accounts] \cup {Nil}]
           /\ \A p \in Players : account'[p] = account[p] \/ account'[p].name \in OwnNames(p)
<1>1. [name |-> Name(w), key |-> NewKey(w)] \in [name: Names, key: Accounts]
  BY MsgType DEF Accounts
<1> QED
  BY <1>1, MsgType, StoresType

LEMMA SetAccountBase == ASSUME GameBase, NEW w \in Jobs, SetAccount(w) PROVE GameBase'
<1> DEFINE s == [worker[w] EXCEPT !.at = "Create", !.key = NewKey(w)]
<1>1. /\ worker[w].cur # Nil /\ Become(w, s)
      /\ account' = [account EXCEPT ![Player(w)] = [name |-> Name(w), key |-> NewKey(w)]]
      /\ UNCHANGED <<queue, game, stage, chain, played, faults>>
  BY DEF SetAccount, At, unchangedByJob
<1>2. worker[w] \in WorkerStates /\ NewKey(w) \in Accounts /\ NewKey(w) # Nil
  BY <1>1, MsgType, GameAssumption DEF Accounts, GameAssumption
<1>3. s \in WorkerStates /\ s.cur = worker[w].cur /\ s.name = worker[w].name /\ Ready(s)
  BY <1>2 DEF WorkerStates, Ready
<1>4. Goes(w, s)
  BY <1>1, <1>3, GoesKeep
<1> HIDE DEF s
<1> QED
  BY <1>1, <1>4, RecordType, GoesFrame, StoresType

LEMMA ReadKeyBase == ASSUME GameBase, NEW w \in Jobs, ReadKey(w) PROVE GameBase'
<1> DEFINE stake   == [worker[w] EXCEPT !.key = account[Player(w)].key,
                                        !.at = "Stake", !.amount = Msg(w).cos]
           surplus == [worker[w] EXCEPT !.key = account[Player(w)].key, !.at = "Surplus"]
<1>1. /\ worker[w].cur # Nil
      /\ UNCHANGED <<queue, game, stage, account, chain, played, faults>>
      /\ \/ Become(w, IdleWorker)
         \/ /\ account[Player(w)] # Nil
            /\ (Become(w, stake) /\ At(w, "StakeKey")) \/ Become(w, surplus)
  BY DEF ReadKey, At, unchangedByJob, redisVars, Abandon
<1>2. worker[w] \in WorkerStates /\ Msg(w).cos \in Uint64
  BY <1>1, MsgType, BodyType
<1>3. CASE Become(w, IdleWorker)
  BY <1>1, <1>3, GoesIdle, GoesFrame, StoresType
<1>4. CASE /\ account[Player(w)] # Nil
           /\ (Become(w, stake) /\ At(w, "StakeKey")) \/ Become(w, surplus)
  <2>1. account[Player(w)].key \in Accounts
    BY <1>1, <1>4, MsgType, StoresType
  <2>2. /\ stake \in WorkerStates /\ stake.cur = worker[w].cur /\ stake.name = worker[w].name
        /\ stake.at = "Stake" /\ stake.amount = Msg(w).cos /\ stake.role = worker[w].role
        /\ surplus \in WorkerStates /\ surplus.cur = worker[w].cur
        /\ surplus.name = worker[w].name /\ surplus.at = "Surplus"
    BY <1>2, <2>1 DEF WorkerStates
  <2>3. Ready(surplus) /\ (At(w, "StakeKey") => Ready(stake))
    BY <1>1, <2>2 DEF Ready, At, GameBase, AllReady, Msg
  <2>4. Goes(w, surplus) /\ (At(w, "StakeKey") => Goes(w, stake))
    BY <1>1, <2>2, <2>3, GoesKeep
  <2> HIDE DEF stake, surplus
  <2> QED
    BY <1>1, <1>4, <2>4, GoesFrame, StoresType
<1> QED
  BY <1>1, <1>3, <1>4

LEMMA RedisFailsBase == ASSUME GameBase, NEW w \in Jobs, RedisFails(w) PROVE GameBase'
<1>1. /\ worker[w].cur # Nil /\ Become(w, IdleWorker) /\ Fault("redis")
      /\ UNCHANGED <<queue, game, stage, chain>>
      /\ \/ UNCHANGED <<account, played>>
         \/ played' = played \cup {GameKey(Msg(w))} /\ UNCHANGED account
         \/ /\ account' = [account EXCEPT ![Player(w)] = [name |-> Name(w), key |-> NewKey(w)]]
            /\ UNCHANGED played
  BY DEF RedisFails, At, unchangedByJob, redisVars, Abandon
<1>2. faults' \in 0 .. MaxFaults
  BY <1>1, FaultType DEF GameBase
<1>3. GameKey(Msg(w)) \in Seq(0 .. 9)
  BY <1>1, MsgType, BodyType
<1>4. played' \subseteq Seq(0 .. 9)
  BY <1>1, <1>3, StoresType
<1>5. /\ account' \in [Players -> [name: Names, key: Accounts] \cup {Nil}]
      /\ \A p \in Players : account'[p] = account[p] \/ account'[p].name \in OwnNames(p)
  BY <1>1, RecordType, StoresType
<1> QED
  BY <1>1, <1>2, <1>4, <1>5, GoesIdle, GoesFrame, StoresType

-----------------------------------------------------------------------------
(* Transactions.                                                            *)

Pay(c, f, t, a) == LET spent == [c EXCEPT ![f].coin = @ - a]
                   IN  [spent EXCEPT ![t].coin = @ + a]

\* A payment within the supply moves coins between its two accounts only.
LEMMA Payment ==
    ASSUME NEW c \in [Accounts -> [key: Accounts, coin: Balances] \cup {Nil}],
           NEW f \in Accounts, NEW t \in Accounts, c[f] # Nil, c[t] # Nil,
           NEW a \in Uint64, a <= c[f].coin, c[t].coin + a <= Supply,
           NEW p, p = Pay(c, f, t, a)
    PROVE  /\ p \in [Accounts -> [key: Accounts, coin: Balances] \cup {Nil}]
           /\ \A n \in Accounts : c[n] # Nil => p[n] # Nil
           /\ \A n \in Accounts \ {f, t} : p[n] = c[n]
           /\ f # t => p[f].coin = c[f].coin - a /\ p[t].coin = c[t].coin + a
           /\ f = t => p = c
<1> DEFINE A == [key: Accounts, coin: Balances]
           d == [c EXCEPT ![f].coin = @ - a]
<1>0. a \in Nat /\ Supply \in Nat
  BY Numbers DEF Uint64
<1>1. c[f] \in A /\ c[t] \in A
  OBVIOUS
<1>2. c[f].coin \in Balances /\ c[t].coin \in Balances
  BY <1>1
<1>3. c[f].coin - a \in Balances
  BY <1>0, <1>2 DEF Balances
<1>4. d[f] = [c[f] EXCEPT !.coin = c[f].coin - a] /\ d[f] \in A /\ d[f].coin = c[f].coin - a
  BY <1>1, <1>3
<1>5. d \in [Accounts -> A \cup {Nil}] /\ \A n \in Accounts \ {f} : d[n] = c[n]
  BY <1>4
<1>6. d[t] \in A /\ d[t].coin + a \in Balances
  <2>1. CASE f = t
    BY <1>0, <1>2, <1>4, <2>1 DEF Balances
  <2>2. CASE f # t
    <3>1. d[t] = c[t]
      BY <1>5, <2>2
    <3> QED
      BY <1>0, <1>1, <1>2, <3>1 DEF Balances
  <2> QED
    BY <2>1, <2>2
<1>7. p = [d EXCEPT ![t].coin = d[t].coin + a]
  BY DEF Pay
<1> HIDE DEF d
<1>8. p[t] = [d[t] EXCEPT !.coin = d[t].coin + a] /\ \A n \in Accounts \ {t} : p[n] = d[n]
  BY <1>5, <1>7
<1>9. p[t] \in A /\ p[t].coin = d[t].coin + a
  BY <1>6, <1>8
<1>10. p \in [Accounts -> A \cup {Nil}]
  BY <1>5, <1>7, <1>9
<1>11. Nil \notin A
  BY GameAssumption DEF GameAssumption
<1>12. \A n \in Accounts : c[n] # Nil => p[n] # Nil
  BY <1>4, <1>5, <1>8, <1>9, <1>11
<1>13. \A n \in Accounts \ {f, t} : p[n] = c[n]
  BY <1>5, <1>8
<1>14. ASSUME f # t PROVE p[f].coin = c[f].coin - a /\ p[t].coin = c[t].coin + a
  BY <1>4, <1>5, <1>8, <1>9, <1>14
<1>15. ASSUME f = t PROVE p = c
  <2>1. c[t].coin - a + a = c[t].coin
    BY <1>0, <1>2 DEF Balances
  <2>2. p[t] = c[t]
    BY <1>1, <1>4, <1>8, <1>15, <2>1
  <2>3. \A n \in Accounts : p[n] = c[n]
    BY <1>13, <1>15, <2>2
  <2> QED
    BY <1>10, <2>3
<1> QED
  BY <1>10, <1>12, <1>13, <1>14, <1>15

\* The parties of a transfer, and what it does.
LEMMA TransferType ==
    ASSUME GameBase, NEW w \in Jobs, Transfers(w), Accepted(w)
    PROVE  /\ worker[w].cur # Nil /\ From(w) \in Accounts /\ To(w) \in Accounts
           /\ Paid(w) \in [Accounts -> [key: Accounts, coin: Balances] \cup {Nil}]
           /\ \A n \in Accounts : chain[n] # Nil => Paid(w)[n] # Nil
           /\ \A n \in Accounts \ {From(w), To(w)} : Paid(w)[n] = chain[n]
           /\ From(w) # To(w) =>
                 /\ Paid(w)[From(w)].coin = chain[From(w)].coin - worker[w].amount
                 /\ Paid(w)[To(w)].coin = chain[To(w)].coin + worker[w].amount
           /\ From(w) = To(w) => Paid(w) = chain
<1>1. worker[w].cur # Nil
  BY DEF Transfers, At
<1>2. Name(w) \in Accounts /\ worker[w].name["winner"] \in Accounts /\ Official \in Accounts
  BY <1>1, MsgType DEF Accounts, Roles
<1>3. From(w) \in Accounts /\ To(w) \in Accounts
  BY <1>2 DEF From, To
<1>4. worker[w].amount \in Uint64
  BY <1>1, MsgType DEF WorkerStates
<1>5a. PICK p : p = Paid(w) /\ p = Pay(chain, From(w), To(w), worker[w].amount)
  BY DEF Paid, Pay
<1>5b. PICK f \in Accounts, t \in Accounts, a \in Uint64 :
          f = From(w) /\ t = To(w) /\ a = worker[w].amount
  BY <1>3, <1>4, Zenon
<1>5. f = From(w) /\ t = To(w) /\ a = worker[w].amount /\ p = Paid(w)
  BY <1>5a, <1>5b
<1>6. p = Pay(chain, f, t, a)
  BY <1>5a, <1>5
<1>7. chain[f] # Nil /\ chain[t] # Nil /\ a <= chain[f].coin /\ chain[t].coin + a <= Supply
  BY <1>5 DEF Accepted
<1>8. /\ p \in [Accounts -> [key: Accounts, coin: Balances] \cup {Nil}]
      /\ \A n \in Accounts : chain[n] # Nil => p[n] # Nil
      /\ \A n \in Accounts \ {f, t} : p[n] = chain[n]
      /\ f # t => p[f].coin = chain[f].coin - a /\ p[t].coin = chain[t].coin + a
      /\ f = t => p = chain
  BY <1>6, <1>7, StoresType, Payment
<1> QED
  BY <1>1, <1>3, <1>5, <1>8

\* The chain gets an account without coins.
LEMMA NewAccount ==
    ASSUME GameBase, NEW w \in Jobs, worker[w].cur # Nil, worker[w].key # Nil,
           chain' = [chain EXCEPT ![Name(w)] = [key |-> worker[w].key, coin |-> 0]]
    PROVE  chain' \in [Accounts -> [key: Accounts, coin: Balances] \cup {Nil}]
<1>1. worker[w].key \in Accounts /\ 0 \in Balances /\ Name(w) \in Accounts
  BY MsgType, Numbers DEF WorkerStates, Balances, Accounts
<1> QED
  BY <1>1, StoresType

\* A worker that has created the account of its role tops it up.
LEMMA CreatedType ==
    ASSUME NEW s \in WorkerStates,
           NEW t, t = [s EXCEPT !.at = "TopUp", !.created = @ \cup {s.role}]
    PROVE  /\ t \in WorkerStates /\ t.cur = s.cur /\ t.at = "TopUp" /\ t.role = s.role
           /\ t.name = s.name /\ t.amount = s.amount /\ t.key = s.key
           /\ t.created = s.created \cup {s.role} /\ t.undisturbed = s.undisturbed
<1>1. PICK made : made = s.created \cup {s.role}
  OBVIOUS
<1>2. made \in SUBSET Roles
  BY <1>1 DEF WorkerStates
<1>3. t = [s EXCEPT !.at = "TopUp", !.created = made]
  BY <1>1
<1> QED
  BY <1>1, <1>2, <1>3 DEF WorkerStates

LEMMA CreateBase == ASSUME GameBase, NEW w \in Jobs, CreateOnChain(w) PROVE GameBase'
<1> DEFINE s == [worker[w] EXCEPT !.at = "TopUp", !.created = @ \cup {worker[w].role}]
<1>1. /\ worker[w].cur # Nil /\ At(w, "Create")
      /\ UNCHANGED <<queue, game, stage, account, played, faults>>
      /\ \/ /\ chain' = [chain EXCEPT ![Name(w)] = [key |-> worker[w].key, coin |-> 0]]
            /\ Become(w, s)
         \/ UNCHANGED chain /\ Become(w, IdleWorker)
  BY DEF CreateOnChain, At, unchangedByJob, redisVars, Abandon
<1>2. worker[w].key # Nil
  BY <1>1 DEF At, GameBase, AllReady, Ready
<1>3. s \in WorkerStates /\ s.cur = worker[w].cur /\ s.name = worker[w].name /\ Ready(s)
  BY <1>1, MsgType, CreatedType DEF Ready
<1>4. Goes(w, s)
  BY <1>1, <1>3, GoesKeep
<1> HIDE DEF s
<1> QED
  BY <1>1, <1>2, <1>4, NewAccount, GoesIdle, GoesFrame, StoresType

LEMMA TransferBase == ASSUME GameBase, NEW w \in Jobs, Transfer(w) PROVE GameBase'
<1>1. /\ worker[w].cur # Nil /\ Transfers(w)
      /\ UNCHANGED <<queue, game, stage, account, played, faults>>
      /\ UNCHANGED chain \/ (Accepted(w) /\ chain' = Paid(w))
      /\ Become(w, Settled(w)) \/ Become(w, IdleWorker)
  <2>1. PICK s : /\ s = IF At(w, "Stake") \/ ~Accepted(w) THEN IdleWorker ELSE Settled(w)
                 /\ Become(w, s)
    BY DEF Transfer
  <2>2. s = Settled(w) \/ s = IdleWorker
    BY <2>1
  <2>3. /\ Transfers(w) /\ UNCHANGED <<queue, game, stage, account, played, faults>>
        /\ UNCHANGED chain \/ (Accepted(w) /\ chain' = Paid(w))
    BY DEF Transfer, unchangedByJob, redisVars
  <2> QED
    BY <2>1, <2>2, <2>3 DEF Transfers, At
<1>2. chain' \in [Accounts -> [key: Accounts, coin: Balances] \cup {Nil}]
  BY <1>1, TransferType, StoresType
<1> QED
  BY <1>1, <1>2, SettledGoes, GoesIdle, GoesFrame, StoresType

LEMMA BroadcastFailsBase == ASSUME GameBase, NEW w \in Jobs, BroadcastFails(w) PROVE GameBase'
<1>1. /\ worker[w].cur # Nil /\ Fault("broadcast") /\ Become(w, IdleWorker)
      /\ UNCHANGED <<queue, game, stage, account, played>>
      /\ \/ UNCHANGED chain
         \/ Transfers(w) /\ Accepted(w) /\ chain' = Paid(w)
         \/ /\ At(w, "Create")
            /\ chain' = [chain EXCEPT ![Name(w)] = [key |-> worker[w].key, coin |-> 0]]
  BY DEF BroadcastFails, Transfers, At, unchangedByJob, redisVars, Abandon
<1>2. At(w, "Create") => worker[w].key # Nil
  BY <1>1 DEF At, GameBase, AllReady, Ready
<1>3. chain' \in [Accounts -> [key: Accounts, coin: Balances] \cup {Nil}]
  BY <1>1, <1>2, NewAccount, TransferType, StoresType
<1>4. faults' \in 0 .. MaxFaults
  BY <1>1, FaultType DEF GameBase
<1> QED
  BY <1>1, <1>3, <1>4, GoesIdle, GoesFrame, StoresType

LEMMA BaseStep == ASSUME GameBase, [Next]_vars PROVE GameBase'
<1>1. CASE \E r \in Reqs : Check(r) \/ CheckFails(r) \/ Put(r)
  BY <1>1, CheckBase, PutBase
<1>2. CASE \E r \in Reqs, b \in Bodies : Arrive(r, b)
  BY <1>2, ArriveBase
<1>3. CASE \E w \in Jobs : Take(w)
  BY <1>3, TakeBase
<1>4. CASE \E w \in Jobs : Work(w)
  BY <1>4, MarkBase, ReadNameBase, QueryInfoBase, QueryFailsBase, SetAccountBase,
     CreateBase, ReadKeyBase, TransferBase, RedisFailsBase, BroadcastFailsBase DEF Work
<1>5. CASE Crash
  BY <1>5, CrashBase
<1>6. CASE UNCHANGED vars
  BY <1>6 DEF vars, GameBase, TypeOK, Known, NamesOwned, AllReady, Ready, Sent, OwnNames,
     PlayerOf, Msg, JobOf
<1> QED
  BY <1>1, <1>2, <1>3, <1>4, <1>5, <1>6 DEF Next

LEMMA BaseCorrect == Spec => []GameBase
  BY InitBase, BaseStep, PTL DEF Spec

\* The variables keep their types, the channels their capacity and balances
\* the range of the supply, whatever amounts are reported: uint64 that wraps
\* included.
THEOREM GameTypeCorrect == Spec => []TypeOK
<1>1. GameBase => TypeOK
  BY DEF GameBase
<1> QED
  BY <1>1, BaseCorrect, PTL

\* The games of one loser are served one after the other, for any number of
\* players and workers: sendMsg picks the worker by the loser's id.
THEOREM OneAtATime == Spec => []OneGamePerLoser
<1>1. GameBase => OneGamePerLoser
  BY DEF GameBase, Known, Sent, JobOf, OneGamePerLoser, Msg
<1> QED
  BY <1>1, BaseCorrect, PTL

-----------------------------------------------------------------------------
(* What a worker knows of its two players on the chain.                     *)

\* The account of role x is dealt with.
Passed(s, x) == \/ s.at \in {"StakeKey", "Stake"}
                \/ x = "winner" /\ s.role = "loser" /\ s.at \notin {"Mark", "Name"}

\* What the account of role x has to have for the stake of game b, if the worker
\* has created the accounts of the roles in made.
Due(b, x, made) == IF x \in made THEN Grant(b, x) ELSE Before(b, x)

\* Account a of role x is ready for the stake of game b.
Right(b, x, made, a) ==
    a = Nil \/ IF x = "winner" THEN a.coin = Due(b, x, made)
                               ELSE a.coin <= b.lcos + b.cos \/ a.coin < b.cos

Reached(s, b, c) ==
    \A x \in Roles : Passed(s, x) /\ Before(b, x) # 0 => c[s.name[x]] # Nil

\* An account that the worker has created is dealt with, or about to be topped up.
Created(s) == \A x \in s.created : Passed(s, x) \/ (s.at = "TopUp" /\ x = s.role)

\* With accounts c, what worker state s says of game b is still so.
Exact(s, b, c) ==
    /\ \A x \in Roles : Passed(s, x) => Right(b, x, s.created, c[s.name[x]])
    /\ s.at \in {"SetAccount", "Create"} => s.amount = Grant(b, s.role)
    /\ s.at = "TopUp" =>
          \/ c[s.name[s.role]] = Nil
          \/ c[s.name[s.role]].coin + s.amount = Due(b, s.role, s.created)
    /\ s.at \in {"SurplusKey", "Surplus"} =>
          /\ c[s.name[s.role]] # Nil
          /\ c[s.name[s.role]].coin > Before(b, s.role)
          /\ s.amount = Surplus(b, s.role, c[s.name[s.role]].coin)

\* The worker's two accounts are two, and hers alone.
Distinct(s) == s.undisturbed /\ s.name["winner"] # s.name["loser"]

Sound(s, b, c) == Reached(s, b, c) /\ Created(s) /\ (Distinct(s) => Exact(s, b, c))

AllSound == \A w \in Jobs : worker[w].cur # Nil => Sound(worker[w], Msg(w), chain)

\* No other worker serves a player of an undisturbed one.
Alone ==
    \A v, w \in Jobs : /\ v # w /\ worker[v].cur # Nil /\ worker[w].cur # Nil
                       /\ worker[v].undisturbed
                       => Pair(worker[v].cur) \cap Pair(worker[w].cur) = {}

GameInv == GameBase /\ AllSound /\ Alone

\* A worker touches its players' accounts and the official one.
Touched(w, n) == n = Official \/ \E x \in Roles : n = worker[w].name[x]

Grows == \A n \in Accounts : chain[n] # Nil => chain'[n] # Nil

LEMMA PairRoles ==
    ASSUME NEW r, NEW x \in Roles PROVE PlayerOf(game[r], x) \in Pair(r)
  BY DEF PlayerOf, Pair

\* The accounts of an undisturbed worker's players are hers alone to touch.
LEMMA Untouched ==
    ASSUME GameBase, Alone, NEW v \in Jobs, NEW w \in Jobs, v # w,
           worker[v].cur # Nil, worker[w].cur # Nil, worker[v].undisturbed,
           NEW x \in Roles
    PROVE  ~Touched(w, worker[v].name[x])
<1> SUFFICES ASSUME Touched(w, worker[v].name[x]) PROVE FALSE
  OBVIOUS
<1>1. worker[v].name[x] # Official
  BY MsgType, GameAssumption DEF GameAssumption
<1>2. PICK y \in Roles : worker[v].name[x] = worker[w].name[y]
  BY <1>1 DEF Touched
<1>3. /\ worker[v].name[x] \in OwnNames(PlayerOf(Msg(v), x))
      /\ worker[w].name[y] \in OwnNames(PlayerOf(Msg(w), y))
  BY DEF GameBase, NamesOwned
<1>4. PlayerOf(Msg(v), x) = PlayerOf(Msg(w), y)
  BY <1>2, <1>3, NamesApart
<1>5. /\ PlayerOf(Msg(v), x) \in Pair(worker[v].cur)
      /\ PlayerOf(Msg(w), y) \in Pair(worker[w].cur)
  BY PairRoles DEF Msg
<1> QED
  BY <1>4, <1>5 DEF Alone

\* Sound depends on the two players' accounts.
LEMMA SoundSame ==
    ASSUME NEW s \in WorkerStates, NEW b, NEW c, NEW d, Sound(s, b, c),
           \A x \in Roles : s.name[x] \in Accounts,
           \A n \in Accounts : c[n] # Nil => d[n] # Nil,
           s.undisturbed => \A x \in Roles : d[s.name[x]] = c[s.name[x]]
    PROVE  Sound(s, b, d)
<1>1. Reached(s, b, d) /\ Created(s)
  BY DEF Sound, Reached
<1>2. ASSUME Distinct(s) PROVE Exact(s, b, d)
  <2>1. Exact(s, b, c) /\ s.role \in Roles /\ \A x \in Roles : d[s.name[x]] = c[s.name[x]]
    BY <1>2 DEF Sound, Distinct, WorkerStates
  <2> QED
    BY <2>1 DEF Exact
<1> QED
  BY <1>1, <1>2 DEF Sound

\* Nobody is disturbed by a handler's step, or by a worker that stops.
LEMMA SoundFrame ==
    ASSUME GameInv, NEW w \in Jobs, worker[w].cur # Nil,
           NEW s \in WorkerStates, Become(w, s), UNCHANGED game, Grows,
           \A n \in Accounts : ~Touched(w, n) => chain'[n] = chain[n],
           s.cur # Nil => /\ s.cur = worker[w].cur
                          /\ s.undisturbed => worker[w].undisturbed
                          /\ Sound(s, Msg(w), chain')
    PROVE  AllSound' /\ Alone'
<1>0. worker \in [Jobs -> WorkerStates]
  BY DEF GameInv, GameBase, TypeOK
<1>1. worker'[w] = s /\ \A v \in Jobs \ {w} : worker'[v] = worker[v]
  BY <1>0 DEF Become
<1>2. ASSUME NEW v \in Jobs, worker'[v].cur # Nil
      PROVE  Sound(worker[v], Msg(v), chain)'
  <2>1. worker'[v].cur = worker[v].cur /\ worker[v].cur # Nil
    BY <1>1, <1>2
  <2>2. Msg(v)' = Msg(v)
    BY <2>1 DEF Msg
  <2>3. Sound(worker'[v], Msg(v), chain')
    <3>1. CASE v = w
      BY <1>1, <1>2, <3>1
    <3>2. CASE v # w
      <4>1. /\ worker[v] \in WorkerStates /\ Sound(worker[v], Msg(v), chain)
            /\ \A x \in Roles : worker[v].name[x] \in Accounts
        BY <1>0, <2>1, MsgType DEF GameInv, AllSound, Accounts
      <4>2. worker[v].undisturbed =>
               \A x \in Roles : chain'[worker[v].name[x]] = chain[worker[v].name[x]]
        BY <2>1, <3>2, <4>1, Untouched DEF GameInv
      <4>3. Sound(worker[v], Msg(v), chain')
        BY <4>1, <4>2, SoundSame DEF Grows
      <4> QED
        BY <1>1, <3>2, <4>3
    <3> QED
      BY <3>1, <3>2
  <2> QED
    BY <2>2, <2>3 DEF Sound, Reached, Created, Distinct, Exact, Right, Due, Grant, Passed, Before,
       Surplus, Minus, Plus
<1>3. AllSound'
  BY <1>2 DEF AllSound
<1>4. Alone'
  <2>1. \A r : Pair(r)' = Pair(r)
    BY DEF Pair
  <2>2. \A v \in Jobs : worker'[v].cur # Nil =>
           /\ worker'[v].cur = worker[v].cur
           /\ worker'[v].undisturbed => worker[v].undisturbed
    BY <1>1
  <2> QED
    BY <2>1, <2>2 DEF Alone, GameInv
<1> QED
  BY <1>3, <1>4

-----------------------------------------------------------------------------
(* Each step keeps AllSound and Alone.                                      *)

LEMMA InitSound == Init => AllSound /\ Alone
  BY IdleType DEF Init, AllSound, Alone

LEMMA HandlerSound ==
    ASSUME GameInv, GamesStay, UNCHANGED <<chain, worker>> PROVE AllSound' /\ Alone'
<1>1. ASSUME NEW w \in Jobs, worker[w].cur # Nil
      PROVE  game'[worker[w].cur] = game[worker[w].cur]
  BY <1>1, MsgType DEF GameInv, GameBase, Known, Sent, GamesStay
<1>2. ASSUME NEW w \in Jobs, worker[w].cur # Nil PROVE Sound(worker[w], Msg(w), chain)'
  <2>1. Msg(w)' = Msg(w)
    BY <1>1, <1>2 DEF Msg
  <2>2. Sound(worker'[w], Msg(w), chain')
    BY <1>2 DEF GameInv, AllSound
  <2> QED
    BY <2>1, <2>2 DEF Sound, Reached, Created, Distinct, Exact, Right, Due, Grant, Passed, Before,
       Surplus, Minus, Plus
<1>3. \A w \in Jobs : worker[w].cur # Nil => Pair(worker[w].cur)' = Pair(worker[w].cur)
  BY <1>1 DEF Pair
<1> QED
  BY <1>2, <1>3 DEF AllSound, Alone, GameInv

LEMMA CrashSound == ASSUME GameInv, Crash PROVE AllSound' /\ Alone'
<1>1. \A w \in Jobs : worker'[w].cur = Nil
  BY IdleType DEF Crash
<1> QED
  BY <1>1 DEF AllSound, Alone

LEMMA TakeSound == ASSUME GameInv, NEW w \in Jobs, Take(w) PROVE AllSound' /\ Alone'
<1> DEFINE r == Head(queue[w])
           rival == {v \in Jobs : /\ worker[v].cur # Nil
                                  /\ Pair(r) \cap Pair(worker[v].cur) # {}}
           fresh == [IdleWorker EXCEPT !.cur = r, !.at = "Mark",
                                       !.name = [x \in Roles |-> <<r, x>>],
                                       !.undisturbed = (rival = {})]
<1>1. /\ worker[w].cur = Nil /\ UNCHANGED <<chain, game>>
      /\ worker' = [v \in Jobs |->
                        CASE v = w      -> fresh
                          [] v \in rival -> [worker[v] EXCEPT !.undisturbed = FALSE]
                          [] OTHER      -> worker[v]]
  BY DEF Take, unchangedByJob
<1>2. w \notin rival
  BY <1>1
<1>3. /\ fresh.cur = r /\ fresh.at = "Mark" /\ fresh.role = "winner"
      /\ fresh.created = {} /\ fresh.undisturbed = (rival = {})
  BY DEF IdleWorker
<1>4. /\ worker'[w] = fresh
      /\ \A v \in rival : worker'[v] = Disturbed(worker[v])
      /\ \A v \in Jobs \ {w} : v \notin rival => worker'[v] = worker[v]
  <2> HIDE DEF rival, fresh
  <2>1. \A v \in Jobs : worker'[v] =
            CASE v = w      -> fresh
              [] v \in rival -> [worker[v] EXCEPT !.undisturbed = FALSE]
              [] OTHER      -> worker[v]
    BY <1>1
  <2>2. rival \subseteq Jobs
    BY DEF rival
  <2> QED
    BY <1>2, <2>1, <2>2 DEF Disturbed
<1> HIDE DEF fresh, r
<1>5. \A v \in Jobs : worker[v] \in WorkerStates
  BY DEF GameInv, GameBase, TypeOK
<1>6. \A v \in Jobs \ {w} : /\ worker'[v].cur = worker[v].cur
                            /\ worker'[v].undisturbed =>
                                  worker[v].undisturbed /\ worker'[v] = worker[v] /\ v \notin rival
  <2> TAKE v \in Jobs \ {w}
  <2>1. CASE v \in rival
    BY <1>4, <1>5, <2>1, DisturbedType
  <2>2. CASE v \notin rival
    BY <1>4, <2>2
  <2> QED
    BY <2>1, <2>2
<1>7. ASSUME NEW v \in Jobs, worker'[v].cur # Nil PROVE Sound(worker[v], Msg(v), chain)'
  <2>1. CASE v = w
    <3>1. Sound(fresh, game[r], chain)
      BY <1>3 DEF Sound, Reached, Created, Exact, Passed
    <3>2. Sound(worker'[v], game[r], chain')
      BY <1>1, <1>4, <2>1, <3>1
    <3>3. Msg(v)' = game[r]
      BY <1>1, <1>3, <1>4, <2>1 DEF Msg
    <3> QED
      BY <3>2, <3>3 DEF Sound, Reached, Created, Distinct, Exact, Right, Due, Grant, Passed, Before,
       Surplus, Minus, Plus
  <2>2. CASE v # w
    <3>1. worker[v].cur # Nil /\ Msg(v)' = Msg(v) /\ Sound(worker[v], Msg(v), chain)
      BY <1>1, <1>6, <1>7, <2>2 DEF Msg, GameInv, AllSound
    <3>2. Sound(Disturbed(worker[v]), Msg(v), chain)
      BY <1>5, <3>1, DisturbedType DEF Sound, Reached, Created, Distinct, Passed
    <3>3. worker'[v] = worker[v] \/ worker'[v] = Disturbed(worker[v])
      BY <1>4, <2>2
    <3>4. Sound(worker'[v], Msg(v), chain')
      BY <1>1, <3>1, <3>2, <3>3
    <3> QED
      BY <3>1, <3>4 DEF Sound, Reached, Created, Distinct, Exact, Right, Due, Grant, Passed, Before,
       Surplus, Minus, Plus
  <2> QED
    BY <2>1, <2>2
<1>8. ASSUME NEW v \in Jobs, NEW u \in Jobs, v # u, worker'[v].cur # Nil, worker'[u].cur # Nil,
             worker'[v].undisturbed
      PROVE  Pair(worker'[v].cur) \cap Pair(worker'[u].cur) = {}
  <2>1. CASE v = w
    <3>1. rival = {}
      BY <1>3, <1>4, <1>8, <2>1
    <3>2. worker[u].cur # Nil /\ worker'[u].cur = worker[u].cur /\ worker'[v].cur = r
      BY <1>3, <1>4, <1>6, <1>8, <2>1
    <3> QED
      BY <3>1, <3>2
  <2>2. CASE u = w
    <3>1. v \notin rival /\ worker[v].cur # Nil /\ worker'[v].cur = worker[v].cur
      BY <1>6, <1>8, <2>2
    <3>2. worker'[u].cur = r
      BY <1>3, <1>4, <2>2
    <3> QED
      BY <3>1, <3>2
  <2>3. CASE v # w /\ u # w
    BY <1>6, <1>8, <2>3 DEF GameInv, Alone
  <2> QED
    BY <2>1, <2>2, <2>3
<1>9. \A q : Pair(q)' = Pair(q)
  BY <1>1 DEF Pair
<1> QED
  BY <1>7, <1>8, <1>9 DEF AllSound, Alone

\* A step of worker w to state s that leaves the chain.
LEMMA QuietFrame ==
    ASSUME GameInv, NEW w \in Jobs, worker[w].cur # Nil,
           NEW s \in WorkerStates, Become(w, s), UNCHANGED <<game, chain>>,
           s.cur # Nil => /\ s.cur = worker[w].cur
                          /\ s.undisturbed => worker[w].undisturbed
                          /\ Sound(s, Msg(w), chain)
    PROVE  AllSound' /\ Alone'
<1>1. Grows /\ \A n \in Accounts : ~Touched(w, n) => chain'[n] = chain[n]
  BY DEF Grows
<1> QED
  BY <1>1, SoundFrame

LEMMA EarlySound ==
    ASSUME NEW s, NEW b, NEW c, s.created = {},
           s.at \in {"Mark", "Name"} \/ (s.at = "Info" /\ s.role = "winner")
    PROVE  Sound(s, b, c)
  BY DEF Sound, Reached, Created, Exact, Passed

LEMMA EarlyStepsSound ==
    ASSUME GameInv, NEW w \in Jobs, Mark(w) \/ ReadName(w) PROVE AllSound' /\ Alone'
<1>1. worker[w].cur # Nil /\ UNCHANGED <<game, chain>>
  BY DEF Mark, ReadName, At, unchangedByJob, redisVars
<1>2. /\ worker[w] \in WorkerStates /\ worker[w].role \in Roles
      /\ worker[w].created = {}
  <2>1. worker[w] \in WorkerStates /\ worker[w].role \in Roles /\ Created(worker[w])
    BY <1>1, MsgType DEF GameInv, AllSound, Sound
  <2>2. worker[w].at \in {"Mark", "Name"}
    BY DEF Mark, ReadName, At
  <2>3. \A x \in worker[w].created : FALSE
    BY <2>1, <2>2 DEF Created, Passed
  <2> QED
    BY <2>1, <2>3
<1>3. CASE Mark(w)
  <2> DEFINE s == [worker[w] EXCEPT !.at = "Name"]
  <2>1. /\ s \in WorkerStates /\ Become(w, s) /\ s.cur = worker[w].cur
        /\ s.undisturbed = worker[w].undisturbed /\ s.at = "Name" /\ s.created = {}
    BY <1>2, <1>3 DEF Mark, WorkerStates
  <2> HIDE DEF s
  <2> QED
    BY <1>1, <2>1, EarlySound, QuietFrame
<1>4. CASE ReadName(w)
  <2> DEFINE known == IF account[Player(w)] = Nil THEN worker[w]
                      ELSE [worker[w] EXCEPT !.name[worker[w].role] = account[Player(w)].name]
             s == IF worker[w].role = "winner" THEN [known EXCEPT !.role = "loser"]
                  ELSE [known EXCEPT !.role = "winner", !.at = "Info"]
  <2>1. Become(w, s) /\ worker[w].at = "Name"
    BY <1>4 DEF ReadName, At
  <2>2. /\ known \in WorkerStates /\ known.cur = worker[w].cur /\ known.at = "Name"
        /\ known.undisturbed = worker[w].undisturbed /\ known.role = worker[w].role
        /\ known.created = {}
    <3>1. account[Player(w)] # Nil => account[Player(w)].name \in Names
      BY <1>1, MsgType, StoresType DEF GameInv
    <3> QED
      BY <1>2, <2>1, <3>1 DEF WorkerStates
  <2> HIDE DEF known
  <2>3. /\ s \in WorkerStates /\ s.cur = worker[w].cur
        /\ s.undisturbed = worker[w].undisturbed /\ s.created = {}
        /\ s.at = "Name" \/ (s.at = "Info" /\ s.role = "winner")
    BY <1>2, <2>2 DEF WorkerStates, Roles
  <2> HIDE DEF s
  <2> QED
    BY <1>1, <2>1, <2>3, EarlySound, QuietFrame
<1> QED
  BY <1>3, <1>4

\* A top-up brings a balance to what it was before the game, or that of a new
\* account to the grant.
LEMMA ToppedUp ==
    ASSUME NEW b \in Bodies, NEW x \in Roles, NEW made, NEW a, a.coin = Due(b, x, made)
    PROVE  Right(b, x, made, a)
<1>1. /\ b.lcos \in Nat /\ b.cos \in Nat /\ Modulus \in Nat
  BY BodyType, Numbers DEF Uint64
<1>2. Plus(b.lcos, b.cos) <= b.lcos + b.cos
  BY <1>1 DEF Plus
<1>3. CASE x = "winner"
  BY <1>3 DEF Right
<1>4. CASE x # "winner"
  BY <1>1, <1>2, <1>4 DEF Right, Due, Before, Grant
<1> QED
  BY <1>3, <1>4

\* A surplus that can be paid leaves the winner with what she had, and the
\* loser with no more, even where the sums wrap.
LEMMA SurplusPaid ==
    ASSUME NEW b \in Bodies, NEW x \in Roles, NEW made, x \notin made,
           NEW c \in Balances, c > Before(b, x),
           Surplus(b, x, c) <= c, NEW a, a.coin = c - Surplus(b, x, c)
    PROVE  Right(b, x, made, a)
<1>1. PICK W, L, K : /\ W = b.wcos /\ L = b.lcos /\ K = b.cos
                     /\ W \in 0 .. Modulus - 1 /\ L \in 0 .. Modulus - 1 /\ K \in 0 .. Modulus - 1
  BY BodyType DEF Uint64
<1>2. c \in 0 .. Supply /\ Modulus \in Nat /\ Supply \in Nat /\ 2 * Supply < Modulus
  BY Numbers DEF Balances
<1>3. CASE x = "winner"
  <2>1. c > Minus(W, K) /\ Surplus(b, x, c) = Plus(Minus(c, W), K)
    BY <1>1, <1>3 DEF Before, Surplus
  <2>2. c - Plus(Minus(c, W), K) = Minus(W, K)
    BY <1>1, <1>2, <2>1 DEF Minus, Plus
  <2> QED
    BY <1>1, <1>3, <2>1, <2>2 DEF Right, Due, Before
<1>4. CASE x # "winner"
  <2>1. /\ c > Plus(L, K) /\ Surplus(b, x, c) = Plus(Minus(c, L), K)
        /\ Plus(Minus(c, L), K) <= c
    BY <1>1, <1>4 DEF Before, Surplus
  <2>2. \/ c - Plus(Minus(c, L), K) <= L + K
        \/ c - Plus(Minus(c, L), K) < K
    BY <1>1, <1>2, <2>1 DEF Minus, Plus
  <2> QED
    BY <1>1, <1>4, <2>1, <2>2 DEF Right
<1> QED
  BY <1>3, <1>4

LEMMA SettledSound ==
    ASSUME GameBase, NEW w \in Jobs, worker[w].cur # Nil,
           worker[w].at \in {"Info", "TopUp", "Surplus"}, NEW d,
           Before(Msg(w), worker[w].role) # 0 => d[Name(w)] # Nil,
           Reached(worker[w], Msg(w), d), Created(worker[w]),
           Distinct(worker[w]) =>
              /\ Right(Msg(w), worker[w].role, worker[w].created, d[Name(w)])
              /\ \A x \in Roles : Passed(worker[w], x) =>
                    Right(Msg(w), x, worker[w].created, d[worker[w].name[x]])
    PROVE  /\ Settled(w) \in WorkerStates /\ Settled(w).cur = worker[w].cur
           /\ Settled(w).undisturbed = worker[w].undisturbed
           /\ Sound(Settled(w), Msg(w), d)
<1>1. worker[w] \in WorkerStates /\ worker[w].role \in Roles
  BY MsgType
<1>2. /\ Settled(w) \in WorkerStates /\ Settled(w).cur = worker[w].cur
      /\ Settled(w).undisturbed = worker[w].undisturbed
      /\ Settled(w).name = worker[w].name /\ Settled(w).created = worker[w].created
      /\ Settled(w).at \in {"Info", "StakeKey"}
  BY <1>1 DEF Settled, WorkerStates, Roles
<1>3. \A x \in Roles : Passed(Settled(w), x) <=> Passed(worker[w], x) \/ x = worker[w].role
  <2>1. CASE worker[w].role = "winner"
    BY <1>1, <2>1 DEF Settled, WorkerStates, Passed
  <2>2. CASE worker[w].role = "loser"
    BY <1>1, <2>2 DEF Settled, WorkerStates, Passed, Roles
  <2> QED
    BY <1>1, <2>1, <2>2 DEF Roles
<1>4. Reached(Settled(w), Msg(w), d)
  BY <1>2, <1>3 DEF Reached, Name
<1>5. ASSUME Distinct(worker[w]) PROVE Exact(Settled(w), Msg(w), d)
  BY <1>2, <1>3, <1>5 DEF Exact, Name
<1>6. Created(Settled(w))
  <2>1. worker[w].created \subseteq Roles
    BY <1>1 DEF WorkerStates
  <2> QED
    BY <1>2, <1>3, <2>1 DEF Created
<1> QED
  BY <1>2, <1>4, <1>5, <1>6 DEF Sound, Distinct

LEMMA QueryInfoSound ==
    ASSUME GameInv, NEW w \in Jobs, QueryInfo(w) PROVE AllSound' /\ Alone'
<1> DEFINE coin == IF chain[Name(w)] = Nil THEN 0 ELSE chain[Name(w)].coin
           due  == Before(Msg(w), worker[w].role)
           up   == [worker[w] EXCEPT !.at = "TopUp", !.amount = due - coin]
           down == [worker[w] EXCEPT !.at = "SurplusKey",
                                     !.amount = Surplus(Msg(w), worker[w].role, coin)]
<1>1. /\ worker[w].cur # Nil /\ UNCHANGED <<game, chain>> /\ worker[w].at = "Info"
      /\ \/ coin < due /\ Become(w, up)
         \/ coin > due /\ Become(w, down)
         \/ coin = due /\ Become(w, Settled(w))
  BY DEF QueryInfo, At, unchangedByJob, redisVars
<1>2. /\ worker[w] \in WorkerStates /\ worker[w].role \in Roles /\ Msg(w) \in Bodies
      /\ GameBase /\ Sound(worker[w], Msg(w), chain)
      /\ coin \in Balances
  BY <1>1, MsgType, CoinInfo DEF GameInv, AllSound
<1>2a. worker[w].role \notin worker[w].created
  BY <1>1, <1>2 DEF Sound, Created, Passed
<1>3. /\ coin < due => due - coin \in Uint64
      /\ Surplus(Msg(w), worker[w].role, coin) \in Uint64 /\ due \in Uint64
  BY <1>2, AmountType
<1>4. CASE coin < due /\ Become(w, up)
  <2>1. /\ up \in WorkerStates /\ up.cur = worker[w].cur /\ up.at = "TopUp"
        /\ up.undisturbed = worker[w].undisturbed /\ up.name = worker[w].name
        /\ up.role = worker[w].role /\ up.amount = due - coin
        /\ up.created = worker[w].created
    BY <1>2, <1>3, <1>4 DEF WorkerStates
  <2> HIDE DEF up
  <2>2. \A x : Passed(up, x) <=> Passed(worker[w], x)
    BY <1>1, <2>1 DEF Passed
  <2>3. coin \in Nat /\ due \in Nat
    BY <1>2, <1>3, Numbers DEF Balances, Uint64
  <2>4. chain[Name(w)] # Nil => chain[Name(w)].coin + up.amount = due
    BY <2>1, <2>3
  <2>5. Sound(up, Msg(w), chain)
    BY <1>1, <1>2, <1>2a, <2>1, <2>2, <2>4
       DEF Sound, Reached, Created, Distinct, Exact, Due, Name
  <2> QED
    BY <1>1, <1>4, <2>1, <2>5, QuietFrame
<1>5. CASE coin > due /\ Become(w, down)
  <2>1. /\ down \in WorkerStates /\ down.cur = worker[w].cur /\ down.at = "SurplusKey"
        /\ down.undisturbed = worker[w].undisturbed /\ down.name = worker[w].name
        /\ down.role = worker[w].role /\ down.amount = Surplus(Msg(w), worker[w].role, coin)
        /\ down.created = worker[w].created
    BY <1>2, <1>3 DEF WorkerStates
  <2> HIDE DEF down
  <2>2. \A x : Passed(down, x) <=> Passed(worker[w], x)
    BY <1>1, <2>1 DEF Passed
  <2>3. due \in Nat
    BY <1>3, Numbers DEF Uint64
  <2>4. chain[Name(w)] # Nil /\ coin = chain[Name(w)].coin
    BY <1>5, <2>3
  <2>5. Sound(down, Msg(w), chain)
    BY <1>1, <1>2, <1>5, <2>1, <2>2, <2>4
       DEF Sound, Reached, Created, Distinct, Exact, Name
  <2> QED
    BY <1>1, <1>5, <2>1, <2>5, QuietFrame
<1>6. CASE coin = due /\ Become(w, Settled(w))
  <2>1. Before(Msg(w), worker[w].role) # 0 => chain[Name(w)] # Nil
    BY <1>6
  <2>2. Right(Msg(w), worker[w].role, worker[w].created, chain[Name(w)])
    <3>1. CASE chain[Name(w)] = Nil
      BY <3>1 DEF Right
    <3>2. CASE chain[Name(w)] # Nil
      <4>1. chain[Name(w)].coin = Due(Msg(w), worker[w].role, worker[w].created)
        BY <1>2a, <1>6, <3>2 DEF Due
      <4> QED
        BY <1>2, <4>1, ToppedUp
    <3> QED
      BY <3>1, <3>2
  <2>3. /\ Reached(worker[w], Msg(w), chain) /\ Created(worker[w])
        /\ Distinct(worker[w]) => \A x \in Roles : Passed(worker[w], x) =>
                    Right(Msg(w), x, worker[w].created, chain[worker[w].name[x]])
    BY <1>2 DEF Sound, Exact
  <2>4. /\ Settled(w) \in WorkerStates /\ Settled(w).cur = worker[w].cur
        /\ Settled(w).undisturbed = worker[w].undisturbed
        /\ Sound(Settled(w), Msg(w), chain)
    BY <1>1, <1>2, <2>1, <2>2, <2>3, SettledSound
  <2> QED
    BY <1>1, <1>6, <2>4, QuietFrame
<1> QED
  BY <1>1, <1>4, <1>5, <1>6

\* On the way to create an account, for which the grant is due.
LEMMA CreatingSound ==
    ASSUME GameInv, NEW w \in Jobs, QueryFails(w) \/ SetAccount(w)
    PROVE  AllSound' /\ Alone'
<1> DEFINE s == [worker[w] EXCEPT !.at = "SetAccount",
                                  !.amount = Grant(Msg(w), worker[w].role)]
           t == [worker[w] EXCEPT !.at = "Create", !.key = NewKey(w)]
<1>1. /\ worker[w].cur # Nil /\ UNCHANGED <<game, chain>>
      /\ worker[w].at \in {"Info", "SetAccount"}
      /\ Become(w, s) \/ (Become(w, t) /\ worker[w].at = "SetAccount")
  BY DEF QueryFails, SetAccount, At, unchangedByJob, redisVars
<1>2. /\ worker[w] \in WorkerStates /\ Sound(worker[w], Msg(w), chain)
      /\ Grant(Msg(w), worker[w].role) \in Uint64 /\ NewKey(w) \in Accounts
  BY <1>1, MsgType, BodyType DEF GameInv, AllSound, Grant, Accounts
<1>3. /\ s \in WorkerStates /\ s.cur = worker[w].cur /\ s.at = "SetAccount"
      /\ s.name = worker[w].name /\ s.role = worker[w].role
      /\ s.amount = Grant(Msg(w), worker[w].role)
      /\ t \in WorkerStates /\ t.cur = worker[w].cur /\ t.at = "Create"
      /\ t.name = worker[w].name /\ t.role = worker[w].role /\ t.amount = worker[w].amount
      /\ s.created = worker[w].created /\ s.undisturbed = worker[w].undisturbed
      /\ t.created = worker[w].created /\ t.undisturbed = worker[w].undisturbed
  BY <1>2 DEF WorkerStates
<1> HIDE DEF s, t
<1>4. \A x : /\ Passed(s, x) <=> Passed(worker[w], x)
             /\ Passed(t, x) <=> Passed(worker[w], x)
  BY <1>1, <1>3 DEF Passed
<1>5. Sound(s, Msg(w), chain)
  BY <1>1, <1>2, <1>3, <1>4 DEF Sound, Reached, Created, Distinct, Exact
<1>6. worker[w].at = "SetAccount" => Sound(t, Msg(w), chain)
  BY <1>2, <1>3, <1>4 DEF Sound, Reached, Created, Distinct, Exact
<1> QED
  BY <1>1, <1>3, <1>5, <1>6, QuietFrame

LEMMA ReadKeySound ==
    ASSUME GameInv, NEW w \in Jobs, ReadKey(w) PROVE AllSound' /\ Alone'
<1> DEFINE stake   == [worker[w] EXCEPT !.key = account[Player(w)].key,
                                        !.at = "Stake", !.amount = Msg(w).cos]
           surplus == [worker[w] EXCEPT !.key = account[Player(w)].key, !.at = "Surplus"]
<1>1. /\ worker[w].cur # Nil /\ UNCHANGED <<game, chain>>
      /\ \/ Become(w, IdleWorker)
         \/ /\ account[Player(w)] # Nil
            /\ \/ Become(w, stake) /\ worker[w].at = "StakeKey"
               \/ Become(w, surplus) /\ worker[w].at = "SurplusKey"
  <2>1. CASE At(w, "StakeKey")
    BY <2>1 DEF ReadKey, At, unchangedByJob, redisVars, Abandon
  <2>2. CASE ~At(w, "StakeKey")
    BY <2>2 DEF ReadKey, At, unchangedByJob, redisVars, Abandon
  <2> QED
    BY <2>1, <2>2
<1>2. /\ worker[w] \in WorkerStates /\ Msg(w).cos \in Uint64
      /\ Sound(worker[w], Msg(w), chain)
      /\ account[Player(w)] # Nil => account[Player(w)].key \in Accounts
  BY <1>1, MsgType, BodyType, StoresType DEF GameInv, AllSound
<1>3. CASE Become(w, IdleWorker)
  BY <1>1, <1>3, IdleType, QuietFrame
<1>4. CASE account[Player(w)] # Nil /\ Become(w, stake) /\ worker[w].at = "StakeKey"
  <2>1. /\ stake \in WorkerStates /\ stake.cur = worker[w].cur /\ stake.at = "Stake"
        /\ stake.name = worker[w].name /\ stake.undisturbed = worker[w].undisturbed
        /\ stake.created = worker[w].created
    BY <1>2, <1>4 DEF WorkerStates
  <2> HIDE DEF stake
  <2>2. Sound(stake, Msg(w), chain)
    BY <1>2, <1>4, <2>1 DEF Sound, Reached, Created, Distinct, Exact, Passed
  <2> QED
    BY <1>1, <1>4, <2>1, <2>2, QuietFrame
<1>5. CASE account[Player(w)] # Nil /\ Become(w, surplus) /\ worker[w].at = "SurplusKey"
  <2>1. /\ surplus \in WorkerStates /\ surplus.cur = worker[w].cur /\ surplus.at = "Surplus"
        /\ surplus.name = worker[w].name /\ surplus.undisturbed = worker[w].undisturbed
        /\ surplus.role = worker[w].role /\ surplus.amount = worker[w].amount
        /\ surplus.created = worker[w].created
    BY <1>2, <1>5 DEF WorkerStates
  <2> HIDE DEF surplus
  <2>2. Sound(surplus, Msg(w), chain)
    BY <1>2, <1>5, <2>1 DEF Sound, Reached, Created, Distinct, Exact, Passed
  <2> QED
    BY <1>1, <1>5, <2>1, <2>2, QuietFrame
<1> QED
  BY <1>1, <1>3, <1>4, <1>5

LEMMA RedisFailsSound ==
    ASSUME GameInv, NEW w \in Jobs, RedisFails(w) PROVE AllSound' /\ Alone'
<1>1. worker[w].cur # Nil /\ Become(w, IdleWorker) /\ UNCHANGED <<game, chain>>
  BY DEF RedisFails, At, unchangedByJob, Abandon
<1> QED
  BY <1>1, IdleType, QuietFrame

\* No player has the official account.
LEMMA NotOfficial ==
    ASSUME GameBase, NEW w \in Jobs, worker[w].cur # Nil
    PROVE  \A x \in Roles : worker[w].name[x] \in Accounts \ {Official}
  BY MsgType, GameAssumption DEF GameAssumption, Accounts

\* Who pays whom, and what the payment leaves.
LEMMA Parties ==
    ASSUME GameBase, NEW w \in Jobs, Transfers(w), Accepted(w)
    PROVE  /\ Touched(w, From(w)) /\ Touched(w, To(w))
           /\ ~At(w, "Stake") => From(w) # To(w)
           /\ From(w) = To(w) => Paid(w) = chain
           /\ At(w, "TopUp") => From(w) = Official /\ To(w) = Name(w)
           /\ At(w, "Surplus") => From(w) = Name(w) /\ To(w) = Official
           /\ At(w, "Stake") => /\ From(w) = worker[w].name["loser"]
                                /\ To(w) = worker[w].name["winner"]
           /\ chain[From(w)] # Nil /\ chain[To(w)] # Nil
           /\ worker[w].amount <= chain[From(w)].coin
           /\ chain[To(w)].coin + worker[w].amount <= Supply
           /\ \A n \in Accounts : chain[n] # Nil => Paid(w)[n] # Nil
           /\ \A n \in Accounts : n \notin {From(w), To(w)} => Paid(w)[n] = chain[n]
           /\ From(w) # To(w) =>
                 /\ Paid(w)[From(w)].coin = chain[From(w)].coin - worker[w].amount
                 /\ Paid(w)[To(w)].coin = chain[To(w)].coin + worker[w].amount
<1>1. worker[w].cur # Nil /\ worker[w].at \in {"TopUp", "Surplus", "Stake"}
  BY DEF Transfers, At
<1>2. /\ worker[w].role \in Roles
      /\ worker[w].at = "Stake" => worker[w].role = "loser"
  BY <1>1, MsgType DEF GameBase, AllReady, Ready
<1>3. /\ At(w, "TopUp") => From(w) = Official /\ To(w) = Name(w)
      /\ At(w, "Surplus") => From(w) = Name(w) /\ To(w) = Official
      /\ At(w, "Stake") => /\ From(w) = worker[w].name["loser"]
                           /\ To(w) = worker[w].name["winner"]
  BY <1>1, <1>2 DEF From, To, At, Name
<1>4. At(w, "TopUp") \/ At(w, "Surplus") \/ At(w, "Stake")
  BY DEF Transfers
<1>5. /\ Touched(w, From(w)) /\ Touched(w, To(w))
      /\ ~At(w, "Stake") => From(w) # To(w)
  BY <1>1, <1>2, <1>3, <1>4, NotOfficial DEF Touched, Name, Roles
<1>6. /\ chain[From(w)] # Nil /\ chain[To(w)] # Nil
      /\ worker[w].amount <= chain[From(w)].coin
      /\ chain[To(w)].coin + worker[w].amount <= Supply
  BY DEF Accepted
<1>7. /\ \A n \in Accounts : chain[n] # Nil => Paid(w)[n] # Nil
      /\ \A n \in Accounts : n \notin {From(w), To(w)} => Paid(w)[n] = chain[n]
      /\ From(w) = To(w) => Paid(w) = chain
      /\ From(w) # To(w) =>
            /\ Paid(w)[From(w)].coin = chain[From(w)].coin - worker[w].amount
            /\ Paid(w)[To(w)].coin = chain[To(w)].coin + worker[w].amount
  BY TransferType
<1> QED
  BY <1>3, <1>5, <1>6, <1>7

\* After an accepted top-up or surplus the account is ready for the stake.
LEMMA PaidRight ==
    ASSUME GameInv, NEW w \in Jobs, Transfers(w), Accepted(w), ~At(w, "Stake"),
           Distinct(worker[w])
    PROVE  Right(Msg(w), worker[w].role, worker[w].created, Paid(w)[Name(w)])
<1>1. /\ worker[w].cur # Nil
      /\ At(w, "TopUp") \/ At(w, "Surplus")
      /\ GameBase
  BY DEF Transfers, At, GameInv
<1>2. /\ Exact(worker[w], Msg(w), chain) /\ Created(worker[w])
      /\ Msg(w) \in Bodies /\ worker[w].role \in Roles
      /\ Name(w) = worker[w].name[worker[w].role] /\ Name(w) \in Accounts
  BY <1>1, MsgType DEF GameInv, AllSound, Sound, Name, Accounts
<1>3. CASE At(w, "TopUp")
  <2>1. chain[Name(w)] # Nil /\ Paid(w)[Name(w)].coin = chain[Name(w)].coin + worker[w].amount
    BY <1>1, <1>3, Parties
  <2>2. Paid(w)[Name(w)].coin = Due(Msg(w), worker[w].role, worker[w].created)
    BY <1>2, <1>3, <2>1 DEF Exact, At
  <2> QED
    BY <1>2, <2>2, ToppedUp
<1>4. CASE At(w, "Surplus")
  <2>1. PICK c : c = chain[Name(w)].coin
    OBVIOUS
  <2>2. /\ chain[Name(w)] # Nil /\ worker[w].amount <= c
        /\ Paid(w)[Name(w)].coin = c - worker[w].amount
    BY <1>1, <1>4, <2>1, Parties
  <2>3. c > Before(Msg(w), worker[w].role) /\ worker[w].amount = Surplus(Msg(w), worker[w].role, c)
    BY <1>2, <1>4, <2>1 DEF Exact, At
  <2>4. c \in Balances
    BY <1>1, <1>2, <2>1, <2>2, StoresType
  <2>5. worker[w].role \notin worker[w].created
    BY <1>2, <1>4 DEF Created, Passed, At
  <2> QED
    BY <1>2, <2>2, <2>3, <2>4, <2>5, SurplusPaid
<1> QED
  BY <1>1, <1>3, <1>4

LEMMA TransferSound ==
    ASSUME GameInv, NEW w \in Jobs, Transfer(w) PROVE AllSound' /\ Alone'
<1>1. /\ worker[w].cur # Nil /\ Transfers(w) /\ UNCHANGED game /\ GameBase
      /\ chain' = IF Accepted(w) THEN Paid(w) ELSE chain
  BY DEF Transfer, Transfers, At, unchangedByJob, GameInv
<1>2. PICK s : /\ s = IF At(w, "Stake") \/ ~Accepted(w) THEN IdleWorker ELSE Settled(w)
               /\ Become(w, s)
  BY DEF Transfer
<1>3. Grows /\ \A n \in Accounts : ~Touched(w, n) => chain'[n] = chain[n]
  BY <1>1, Parties DEF Grows
<1>4. CASE At(w, "Stake") \/ ~Accepted(w)
  BY <1>1, <1>2, <1>3, <1>4, IdleType, SoundFrame
<1>5. CASE ~At(w, "Stake") /\ Accepted(w)
  <2>1. /\ worker[w].at \in {"TopUp", "Surplus"} /\ chain' = Paid(w) /\ s = Settled(w)
        /\ worker[w].role \in Roles /\ Sound(worker[w], Msg(w), chain)
        /\ Name(w) = worker[w].name[worker[w].role] /\ Name(w) \in Accounts
        /\ \A x \in Roles : worker[w].name[x] \in Accounts
    BY <1>1, <1>2, <1>5, MsgType DEF Transfers, At, GameInv, AllSound, Name, Accounts
  <2>2. {From(w), To(w)} = {Official, Name(w)} /\ chain[Name(w)] # Nil
    BY <1>1, <1>5, Parties DEF Transfers
  <2>3. chain'[Name(w)] # Nil
    BY <1>3, <2>1, <2>2 DEF Grows
  <2>4. Reached(worker[w], Msg(w), chain')
    BY <1>3, <2>1 DEF Sound, Reached, Grows
  <2>5. ASSUME Distinct(worker[w]), NEW x \in Roles, Passed(worker[w], x)
        PROVE  Right(Msg(w), x, worker[w].created, chain'[worker[w].name[x]])
    <3>1. x = "winner" /\ worker[w].role = "loser"
      BY <2>1, <2>5 DEF Passed
    <3>2. worker[w].name[x] \notin {From(w), To(w)}
      BY <1>1, <2>1, <2>2, <2>5, <3>1, NotOfficial DEF Distinct
    <3>3. chain'[worker[w].name[x]] = chain[worker[w].name[x]]
      BY <1>1, <1>5, <2>1, <3>2, Parties
    <3> QED
      BY <2>1, <2>5, <3>3 DEF Sound, Exact
  <2>6. Distinct(worker[w]) =>
           Right(Msg(w), worker[w].role, worker[w].created, chain'[Name(w)])
    BY <1>1, <1>5, <2>1, PaidRight
  <2>7. /\ s \in WorkerStates /\ s.cur = worker[w].cur
        /\ s.undisturbed = worker[w].undisturbed /\ Sound(s, Msg(w), chain')
    BY <1>1, <2>1, <2>3, <2>4, <2>5, <2>6, SettledSound DEF Sound
  <2> QED
    BY <1>1, <1>2, <1>3, <2>7, SoundFrame
<1> QED
  BY <1>4, <1>5

\* A new account is one of the worker's.
LEMMA NewAccountTouches ==
    ASSUME GameBase, NEW w \in Jobs, At(w, "Create"),
           chain' = [chain EXCEPT ![Name(w)] = [key |-> worker[w].key, coin |-> 0]]
    PROVE  Grows /\ \A n \in Accounts : ~Touched(w, n) => chain'[n] = chain[n]
<1>1. /\ Name(w) \in Accounts /\ worker[w].key \in Accounts /\ 0 \in Balances
      /\ Touched(w, Name(w))
  <2>1. worker[w].key # Nil /\ worker[w].cur # Nil
    BY DEF At, GameBase, AllReady, Ready
  <2> QED
    BY <2>1, MsgType, Numbers DEF Accounts, Balances, WorkerStates, Touched, Name
<1>2. [key |-> worker[w].key, coin |-> 0] # Nil
  BY <1>1, GameAssumption DEF GameAssumption
<1> QED
  BY <1>1, <1>2, StoresType DEF Grows

LEMMA CreateSound ==
    ASSUME GameInv, NEW w \in Jobs, CreateOnChain(w) PROVE AllSound' /\ Alone'
<1> DEFINE s == [worker[w] EXCEPT !.at = "TopUp", !.created = @ \cup {worker[w].role}]
<1>1. /\ worker[w].cur # Nil /\ At(w, "Create") /\ UNCHANGED game /\ GameBase
      /\ \/ /\ chain' = [chain EXCEPT ![Name(w)] = [key |-> worker[w].key, coin |-> 0]]
            /\ Become(w, s)
         \/ UNCHANGED chain /\ Become(w, IdleWorker)
  BY DEF CreateOnChain, At, unchangedByJob, Abandon, GameInv
<1>2. CASE UNCHANGED chain /\ Become(w, IdleWorker)
  BY <1>1, <1>2, IdleType, QuietFrame
<1>3. CASE /\ chain' = [chain EXCEPT ![Name(w)] = [key |-> worker[w].key, coin |-> 0]]
           /\ Become(w, s)
  <2>1. Grows /\ \A n \in Accounts : ~Touched(w, n) => chain'[n] = chain[n]
    BY <1>1, <1>3, NewAccountTouches
  <2>2. /\ s \in WorkerStates /\ s.cur = worker[w].cur /\ s.at = "TopUp"
        /\ s.name = worker[w].name /\ s.role = worker[w].role
        /\ s.amount = worker[w].amount /\ s.undisturbed = worker[w].undisturbed
        /\ s.created = worker[w].created \cup {worker[w].role}
    BY <1>1, MsgType, CreatedType
  <2> HIDE DEF s
  <2>3. /\ Sound(worker[w], Msg(w), chain) /\ worker[w].at = "Create"
        /\ worker[w].role \in Roles /\ Msg(w) \in Bodies
        /\ Name(w) = worker[w].name[worker[w].role]
        /\ \A x \in Roles : worker[w].name[x] \in Accounts
    BY <1>1, MsgType DEF GameInv, AllSound, At, Name, Accounts
  <2>4. \A x : Passed(s, x) <=> Passed(worker[w], x)
    BY <2>2, <2>3 DEF Passed
  <2>5. Reached(s, Msg(w), chain') /\ Created(s)
    BY <2>1, <2>2, <2>3, <2>4 DEF Sound, Reached, Created, Grows
  <2>6. ASSUME Distinct(s) PROVE Exact(s, Msg(w), chain')
    <3>1. Exact(worker[w], Msg(w), chain)
      BY <2>2, <2>3, <2>6 DEF Sound, Distinct
    <3>2. ASSUME NEW x \in Roles, Passed(s, x)
          PROVE  Right(Msg(w), x, s.created, chain'[s.name[x]])
      <4>1. x # worker[w].role
        BY <2>2, <2>3, <3>2 DEF Passed
      <4>2. chain'[s.name[x]] = chain[s.name[x]]
        BY <1>1, <1>3, <2>2, <2>3, <2>6, <4>1, StoresType DEF Distinct, Roles
      <4>3. Right(Msg(w), x, worker[w].created, chain[s.name[x]])
        BY <2>2, <2>4, <3>1, <3>2 DEF Exact
      <4>4. Due(Msg(w), x, s.created) = Due(Msg(w), x, worker[w].created)
        BY <2>2, <4>1 DEF Due
      <4> QED
        BY <4>2, <4>3, <4>4 DEF Right
    <3>3. chain'[s.name[s.role]].coin + s.amount = Due(Msg(w), s.role, s.created)
      <4>1. chain'[Name(w)].coin = 0
        BY <1>1, <1>3, <2>3, StoresType
      <4>2. s.amount = Grant(Msg(w), worker[w].role) /\ s.amount \in Nat
        BY <2>2, <2>3, <3>1, Numbers DEF Exact, WorkerStates, Uint64
      <4> QED
        BY <2>2, <2>3, <4>1, <4>2 DEF Due
    <3> QED
      BY <2>2, <3>2, <3>3 DEF Exact
  <2>7. Sound(s, Msg(w), chain')
    BY <2>5, <2>6 DEF Sound
  <2> QED
    BY <1>1, <1>3, <2>1, <2>2, <2>7, SoundFrame
<1> QED
  BY <1>1, <1>2, <1>3

LEMMA BroadcastFailsSound ==
    ASSUME GameInv, NEW w \in Jobs, BroadcastFails(w) PROVE AllSound' /\ Alone'
<1>1. /\ worker[w].cur # Nil /\ Become(w, IdleWorker) /\ UNCHANGED game /\ GameBase
      /\ \/ UNCHANGED chain
         \/ Transfers(w) /\ Accepted(w) /\ chain' = Paid(w)
         \/ /\ At(w, "Create")
            /\ chain' = [chain EXCEPT ![Name(w)] = [key |-> worker[w].key, coin |-> 0]]
  BY DEF BroadcastFails, Transfers, At, unchangedByJob, Abandon, GameInv
<1>2. Grows /\ \A n \in Accounts : ~Touched(w, n) => chain'[n] = chain[n]
  <2>1. CASE UNCHANGED chain
    BY <2>1 DEF Grows
  <2>2. CASE Transfers(w) /\ Accepted(w) /\ chain' = Paid(w)
    BY <1>1, <2>2, Parties DEF Grows
  <2>3. CASE /\ At(w, "Create")
             /\ chain' = [chain EXCEPT ![Name(w)] = [key |-> worker[w].key, coin |-> 0]]
    BY <1>1, <2>3, NewAccountTouches
  <2> QED
    BY <1>1, <2>1, <2>2, <2>3
<1> QED
  BY <1>1, <1>2, IdleType, SoundFrame

-----------------------------------------------------------------------------
(* The invariant, and the theorems that it gives.                           *)

LEMMA GameInvStep == ASSUME GameInv, [Next]_vars PROVE GameInv'
<1>1. GameBase'
  BY BaseStep DEF GameInv
<1>2. CASE \E r \in Reqs : Check(r) \/ CheckFails(r) \/ Put(r)
  <2>1. PICK r \in Reqs : Check(r) \/ CheckFails(r) \/ Put(r)
    BY <1>2
  <2>2. UNCHANGED <<chain, worker, game>>
    BY <2>1 DEF Check, CheckFails, Put
  <2>3. \A q \in Reqs : stage[q] # "none" => stage'[q] # "none"
    BY <2>1 DEF Check, CheckFails, Put, GameInv, GameBase, TypeOK
  <2> QED
    BY <1>1, <2>2, <2>3, HandlerSound DEF GamesStay, GameInv
<1>3. CASE \E r \in Reqs, b \in Bodies : Arrive(r, b)
  <2>1. PICK r \in Reqs, b \in Bodies : Arrive(r, b)
    BY <1>3
  <2>2. UNCHANGED <<chain, worker>> /\ GamesStay
    BY <2>1 DEF Arrive, GamesStay, GameInv, GameBase, TypeOK
  <2> QED
    BY <1>1, <2>2, HandlerSound DEF GameInv
<1>4. CASE \E w \in Jobs : Take(w)
  BY <1>1, <1>4, TakeSound DEF GameInv
<1>5. CASE \E w \in Jobs : Work(w)
  BY <1>1, <1>5, EarlyStepsSound, QueryInfoSound, CreatingSound, ReadKeySound,
     RedisFailsSound, TransferSound, CreateSound, BroadcastFailsSound DEF Work, GameInv
<1>6. CASE Crash
  BY <1>1, <1>6, CrashSound DEF GameInv
<1>7. CASE UNCHANGED vars
  <2>1. UNCHANGED <<chain, worker>> /\ GamesStay
    BY <1>7 DEF vars, GamesStay
  <2> QED
    BY <1>1, <2>1, HandlerSound DEF GameInv
<1> QED
  BY <1>2, <1>3, <1>4, <1>5, <1>6, <1>7 DEF Next

LEMMA GameInvCorrect == Spec => []GameInv
  BY InitBase, InitSound, GameInvStep, PTL DEF Spec, GameInv

\* Whatever fails or is started again, a worker that sends a stake has seen
\* to it that both accounts exist, or there was nothing to send them before.
THEOREM StakeBetweenAccounts == Spec => []AccountsBeforeStake
<1>1. GameInv => AccountsBeforeStake
  BY DEF GameInv, AllSound, Sound, Reached, Passed, At, AccountsBeforeStake
<1> QED
  BY <1>1, GameInvCorrect, PTL

\* A stake is moved by its own worker only.
LEMMA StakeStep ==
    ASSUME GameInv, [Next]_vars, NEW w \in Jobs, StakeMoves(w)
    PROVE  Transfers(w) /\ Accepted(w) /\ chain' = Paid(w)
<1>1. /\ At(w, "Stake") /\ worker[w].cur # Nil /\ worker'[w].cur = Nil /\ chain' # chain
      /\ worker \in [Jobs -> WorkerStates]
  BY DEF StakeMoves, At, GameInv, GameBase, TypeOK
<1>2. \E v \in Jobs : CreateOnChain(v) \/ Transfer(v) \/ BroadcastFails(v)
  BY <1>1 DEF Next, vars, Check, CheckFails, Put, Arrive, Take, Crash, Work, Mark, ReadName,
     QueryInfo, QueryFails, SetAccount, ReadKey, RedisFails, redisVars, unchangedByJob
<1>3. PICK v \in Jobs : CreateOnChain(v) \/ Transfer(v) \/ BroadcastFails(v)
  BY <1>2
<1>4. \A u \in Jobs : u # v => worker'[u] = worker[u]
  BY <1>1, <1>3 DEF CreateOnChain, Transfer, BroadcastFails, Become, Abandon
<1>5. v = w
  BY <1>1, <1>4
<1>6. ~At(w, "Create")
  BY <1>1 DEF At
<1> QED
  BY <1>1, <1>3, <1>5, <1>6 DEF CreateOnChain, Transfer, BroadcastFails, Transfers

LEMMA SettlesStep ==
    ASSUME GameInv, [Next]_vars, NEW w \in Jobs, StakeMoves(w), worker[w].undisturbed
    PROVE  /\ chain'[worker[w].name["winner"]].coin = WinnerEndsWith(w)
           /\ chain'[worker[w].name["loser"]].coin <= Msg(w).lcos
<1>1. /\ Transfers(w) /\ Accepted(w) /\ chain' = Paid(w)
      /\ chain' # chain
      /\ At(w, "Stake") /\ worker[w].cur # Nil /\ worker[w].at = "Stake" /\ GameBase
  BY StakeStep DEF StakeMoves, At, GameInv
<1>2. PICK n, m \in Accounts : n = worker[w].name["winner"] /\ m = worker[w].name["loser"]
  BY <1>1, MsgType DEF Accounts, Roles
<1>3. /\ From(w) = m /\ To(w) = n /\ n # m /\ chain[m] # Nil /\ chain[n] # Nil
      /\ worker[w].amount <= chain[m].coin
      /\ chain[n].coin + worker[w].amount <= Supply
      /\ chain'[m].coin = chain[m].coin - worker[w].amount
      /\ chain'[n].coin = chain[n].coin + worker[w].amount
  BY <1>1, <1>2, Parties
<1>4. worker[w].amount = Msg(w).cos /\ Msg(w) \in Bodies
  BY <1>1, MsgType DEF GameBase, AllReady, Ready, Msg
<1>5. /\ chain[n].coin = Due(Msg(w), "winner", worker[w].created)
      /\ chain[m].coin <= Msg(w).lcos + Msg(w).cos \/ chain[m].coin < Msg(w).cos
  BY <1>1, <1>2, <1>3 DEF GameInv, AllSound, Sound, Distinct, Exact, Passed, Right, Roles
<1>6. chain[n].coin \in Balances /\ chain[m].coin \in Balances
  BY <1>1, <1>3, StoresType
<1>7. PICK W, L, K : /\ W = Msg(w).wcos /\ L = Msg(w).lcos /\ K = Msg(w).cos
                     /\ W \in 0 .. Modulus - 1 /\ L \in 0 .. Modulus - 1 /\ K \in 0 .. Modulus - 1
  BY <1>4, BodyType DEF Uint64
<1>8. chain'[n].coin = WinnerEndsWith(w)
  <2>1. CASE "winner" \in worker[w].created
    BY <1>3, <1>4, <1>5, <2>1 DEF Due, Grant, WinnerEndsWith
  <2>2. CASE "winner" \notin worker[w].created
    <3>1. chain[n].coin = Minus(W, K) /\ chain[n].coin + K <= Supply
      BY <1>3, <1>4, <1>5, <1>7, <2>2 DEF Due, Before
    <3>2. Minus(W, K) + K = W
      BY <1>6, <1>7, <3>1, Numbers DEF Minus, Balances
    <3>3. chain'[n].coin = W
      BY <1>3, <1>4, <1>7, <3>1, <3>2
    <3>4. WinnerEndsWith(w) = W
      BY <1>7, <2>2 DEF WinnerEndsWith
    <3> QED
      BY <3>3, <3>4
  <2> QED
    BY <2>1, <2>2
<1>9. chain'[m].coin <= L
  BY <1>3, <1>4, <1>5, <1>6, <1>7, Numbers DEF Balances
<1> QED
  BY <1>2, <1>7, <1>8, <1>9

\* For any players, any reported uint64 amounts and a supply below 2^63, a stake
\* that is moved leaves the loser with no more than the game reported, and the
\* winner with just that, or with the stake more if her account was created for
\* the game, unless a game of one of them overlapped.
THEOREM SettlesCorrect == Spec => Settles
<1>1. ASSUME GameInv, [Next]_vars
      PROVE  [\A w \in Jobs : StakeMoves(w) /\ worker[w].undisturbed =>
                /\ chain'[worker[w].name["winner"]].coin = WinnerEndsWith(w)
                /\ chain'[worker[w].name["loser"]].coin <= Msg(w).lcos]_vars
  BY <1>1, SettlesStep
<1> QED
  BY <1>1, GameInvCorrect, PTL DEF Spec, Settles

=============================================================================
