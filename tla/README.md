# contento_proxy in TLA+

`contento_proxy` is an HTTP server between game servers and a Contentos chain.
It keeps a record for every user (a chain account name and a key pair) in redis,
turns each request into a message, and answers `1000` as soon as the message is
on the channel of a worker; the worker later signs a transaction with the user's
key and broadcasts it. A second part follows the irreversible blocks of the chain
and adds rewards to the users' records.

The interesting questions are all about what lies between the answer and the
chain: redis commands are separate round trips without transactions, several
workers and handlers share the same keys, nothing is retried, nothing is undone,
and the channels are lost with the process.

Source paths below are relative to the repository's root `src/`.

## 1. Inventory

| Component | Source | State | Operations | Model |
|---|---|---|---|---|
| HTTP handlers | `server/handler.go`, `server/http.go` | none of their own; read redis, Put on channels | account, post, like, comment, follow, unfollow, signin | `Handlers` |
| Workers and channels | `job/job.go`, `job/worker.go`, `job/common.go` | one buffered channel and one goroutine per worker; locals of the message in hand | `Put`, `Start`, nine `process…Msg` functions, `createAccount`, `accountExistInChain`, `call`, `transferTo` | `Workers`; `processGame2048Msg` in `Game2048` |
| Redis access | `database/db.go` | user hashes, post hashes, unique keys, block height, reward counters | one command per function | variables of `ProxyState`, `RewardJob` |
| Composition, death and restart | `app/main.go`, `server/http.go:64,236` | – | start, signal, panic | `Proxy`; what it promises: `Delivery`, `ProxyDelivery` |
| Chain client pool | `rpc/rpc_client.go` | the slice of clients, a mark `alive` per client, one mutex | `GetClient`, `SetAlive`, `checkAlive`, the five calls | `RpcPool`; what it promises: `ClientPool`, `RpcClientPool` |
| Reward job | `job/reward_job.go` | the counted height and the rewards (in redis) | `Start`, `queryReward`, `setBlockHeight` | `RewardJob` |
| 2048 settlement | `server/handler.go:62`, `job/worker.go:103`, `job/common.go:25,59,86` | balances on the chain (uint64) | a check and a Put; then two adjustments of a balance and a transfer | `Game2048` |
| Read-only endpoints | `server/handler.go:174,869` | – | actionlist, getname | not modelled |
| Rate limiter | `server/http.go:113` | a library's token bucket | – | not modelled |
| Keys, names, transactions | `utils/*` | – | random names and keys, signing | fresh values |
| Configuration | `config/config.go`, `define/define.go` | read once | – | constants |

**How they interact.** `main` builds one pool of redis connections, one `RpcPool`,
`JobCount` workers and the reward job. `net/http` runs each request in a goroutine
of its own, which reads redis and calls `sendMsg` (`handler.go:925`), i.e.
`Put` on the worker `id % JobCount`. Workers, handlers and the reward job share redis;
workers share the `RpcPool`; the reward job keeps one client of it for ever.

**Which behaviours are hard.**

* A check is made by a handler, its key is written later by a worker: two handlers,
  or a handler and a worker, interleave between the two (sign-in, account, follow,
  unfollow, like).
* The worker of one user creates accounts of *other* users (the one followed, the
  owner of a post), concurrently with their own worker.
* A worker's function is a dozen commands; each can fail, and then what was done stays.
* A failed *query* is taken for a negative answer.
* A game is settled by comparing balances that were read several calls before they are acted on, in
  unsigned arithmetic on numbers from a form.
* `BroadcastTrx` is the one call without a timeout: a worker may wait for ever.
* Order is kept only by the choice of the channel, and full channels block handlers.
* The pool of clients is read without its mutex; failures are reported long after
  the call that failed was begun.
* The reward job dies between adding rewards and recording the height, and the test net's
  chain may be cleaned and start again.

**What makes each component correct.**

* Handlers and workers: per-user order and at-most-once on the chain; nobody signs
  for an account that is not there; redis and the chain agree on keys and on who
  follows whom; every accepted message is worked off; every request is answered.
* 2048 settlement: games of one loser one after the other; no stake between accounts that do not
  exist; after a moved stake each player has what the game reported.
* Pool: no client is ever lost; a dead one is handed out only when none is alive; a node that
  answers again is used again.
* Reward job: no block is passed over; none is counted twice without a reason.

`PROJECT.json` lists under `hazards` each place in the code where one of these could go
wrong, with the properties that watch it.

## 2. Modules

```
ProxyState  <- Handlers \
            <- Workers   >- Proxy <- ProxyDelivery <- MCProxy
                              |           :  implements
                              |        Delivery
                              +- ProxyProofs <- RepairProofs <- FollowProofs
                              |        ^              ^-------- KeyProofs
                              |        +------- DeliveryProofs (of ProxyDelivery)
                              +- OneClient <- MCOneClient
Game2048  <- MCGame2048,  GameProofs
RpcPool   <- RpcClientPool <- MCRpcPool,  RpcPoolProofs
                   :  implements
               ClientPool
RewardJob <- MCRewardJob, RewardProofs
```

### ProxyState: redis, chain, channels

* `account[id]`, `post[id]` – the hashes that `SetAccount` and `SetPostInfo` write with
  one `HMSET` each, hence one record per id. `marker` – the set of unique keys
  (`SET key 1`, `DEL key`).
* `chainKey[name]` – the public key with which the chain created an account;
  `ledger[id]` – what the user's key signed and the chain accepted, in order.
* `req`, `checks`, `reply` – the HTTP request, the reads its handler still has to
  make, and its answer. `queue`, `worker` – the channels and the local state of each worker's
  goroutine. `ticket`, `clock` – history: the order of all Puts.

A request is named by an identity from `Reqs`. What the code draws at random for
a request (account name, uuid of a post, key pair) is named after the request: fresh,
as collisions of the random values are left out.

### Handlers

Each endpoint is the list of the redis reads it makes, in the order of the code
(`likeChecks == <<"Id", "Target", "NewMark">>`, …). `CheckPasses`, `CheckRefuses`, `CheckFails` are the three
outcomes of one read (`Passes` and `Refusal` give the condition and the answer code of each), `Put` is `sendMsg`
with the blocking send and the answer. A like or comment for an unknown post is
answered `PostIdNotExist` but is *still* sent, as a fake message, after
one more read (`TurnsFake`).

### Workers

A process function is the list of its redis commands and chain calls
(`processFollowMsg == <<Name, Name of the other, Mark, Exist, Exist of the other, Key, Call>>`); a
missing account splices `createAccount` in front of what is left. Every command is a step of
its own, so that every other goroutine may run between any two. `RedisFails`,
`QueryFails`, `BroadcastFails` are the errors: the message is dropped, except that a
failed *query* goes on as if the account were missing (`common.go:109`). A failed write or
broadcast may have been applied.

### Proxy and OneClient

`Proxy` composes the two and adds `Crash` (signal or panic, then restart): channels and
goroutines are lost, redis and the chain stay. The workers of `Stuck` are not obliged to go on: theirs is
the broadcast that never returns. `OneClient` restricts the requests to those of one client
who waits for each answer before it sends the next request.

### Delivery and ProxyDelivery

`Delivery` is all that the proxy promises about an accepted request, in one page: every user has a
lane; `Accept` puts a request in flight on it, `Deliver` moves the first one in flight to what the chain
got from its user, `Lose` drops the first one, `Restart` everything in flight. There are no handlers, redis or
keys in it. `ProxyDelivery` gives the refinement mapping: a request is accepted once it has a
ticket, the lane of a worker is its message in hand and its channel behind it, delivered is the ledger. An
entry carries what the request *asks for*, so that the mapping also says that a request that was put does
not change on its way (`TurnsFake` rewrites it before, never after).

### Game2048

The endpoint that reports a game and the function that settles it. `Arrive`, `Check`, `CheckFails`, `Put` are the
handler (`handler.go:62`); one request is a body with both players, what each has after the
game, and the stake. `Mark`, `ReadName`, `QueryInfo`, `QueryFails`, `SetAccount`, `CreateOnChain`, `ReadKey`, `Transfer`,
`RedisFails`, `BroadcastFails` are the steps of `processGame2048Msg` (`worker.go:103`), first for the winner, then for the
loser, then for the stake. `Before` is the balance that a player had before the game, `Surplus` what
is sent away when she has more, as the two branches of the code compute them, with `Plus` and `Minus` in
uint64. `game` and `stage` are the request and its handler. Two fields of a worker are history: `created`, the
roles whose account it has put on the chain for this message, which only happens after a failed query, and `undisturbed`, that no
other worker has served one of the players since the message was taken.
It is a module of its own, not a kind of `Workers`: the balances matter here and nowhere else, and the
function shares only `createAccount` and the transfers with the others.

### RpcPool

`Lock`, `Look`, `Move`, `Place` are `GetClient` between `Lock` and `Unlock`, with one step per
mark read and one per assignment of the swap `r.pool[0], r.pool[i] = …`, since
`checkAlive` ranges over the slice without the mutex. `Report` is `SetAlive(false)` after a failed
call. `CheckRead`, `CheckLook`, `CheckProbe`, `CheckSet` are one round of
`checkAlive`, of which only `CheckLook` takes the mutex. The race on the slice and on the
`bool` is real in the code (a data race in Go's terms); a word-sized read is taken to see the old or
the new value, the outcomes a build of this code has.

### ClientPool and RpcClientPool

`ClientPool` is the pool as its users see it: there is no slice, no swap and no `checkAlive` in it. A user asks
(`Ask`), is served alone and gets a client (`Give`), which is marked alive if one was when the turn came (`sure`); the call
succeeds or fails; a failure is reported (`Report`), which takes the mark of that client away, while nobody is
served; and a client without a mark may get it back at any time (`Revive`). `Keepers` are the users that
never ask again: the reward job. `RpcClientPool` gives the mapping: who is served holds the mutex, a client is given from
the unlock to the end of the call. Between two swaps, and in a scan, nothing is seen to happen.

### RewardJob

`GetHeight`, `GetStatus`, `GetReward`, `Credit` (one per cashout), `Save` are a round of
`Start`; `CallFails`, `CreditFails`, `SaveFails`, `Crash` the failures; `Grow` and
`Clean` the chain.

### Modelling decisions to know about

* Refusals before the first redis read (missing or malformed parameter, following
  oneself) touch no state and are not generated; nor are the ids of other applications: ids are
  those of one `type`.
* The `EXISTS(owner)` at `worker.go:395` is folded into the read of the owner's name
  after it: both give the message up when the owner has no record.
* A missing hash field reads as `""` or `0`, as `HGETString`/`HGETUint64` answer `redis.ErrNil`.
* `transferTo` (`Fund`) succeeds or fails as a broadcast; balances are kept in `Game2048` only, where no
  other endpoint moves coins.
* `Game2048`: the chain takes a transfer signed with the sender's key, if the sender has the amount and both
  accounts exist; all coins together are `Supply`, less than half of `2^64`. As in the handler, a player may win against
  herself and the stake may be 0; whether the chain takes a transfer of nothing, or to its own sender, makes no difference to a
  balance. The key of a game is the concatenation of two numbers' digits, as in the code, so that
  two games may share it.
* The chain applies an accepted transaction before the broadcast returns, or
  never. It refuses to create a name it has, and an operation not signed with the account's key.
* The creator account of the configuration exists.
* An exhausted connection pool (no `Wait`) is the failure `redis`; a worker's panic is `Crash`.
* Nothing under `src` writes the index from account name to id that the reward job reads
  (`GETId`): it is the constant `Indexed`.

## 3. Runs

### Properties that hold

| Run | Instance | States | Shows |
|---|---|---|---|
| `core` | 2 users, 2 workers, channels of 1, 3 requests of any of the seven endpoints, 1 failure of any kind | 1.4 M | `TypeOK`, `LedgerInOrder`, `AccountsBeforeCall`, `MarkedOnChain`, `Delivers` |
| `follows` | 4 follow/unfollow requests of two users, no failures | 112 k | `FollowAgreement` |
| `own_worker` | 2 workers of which one may wait for ever, 3 requests to create accounts and to like, 1 failure, but no failed query; fair | 114 k | `KeyAgreement`, `Answered`, `WorkedOff` |
| `games` | 3 players (2 registered) and the official account sharing 9 coins, 2 workers, 2 games, also against oneself, 2 failures of any kind, amounts modulo 32 | 1.8 M | `TypeOK`, `OneGamePerLoser`, `AccountsBeforeStake`, `Settles` |
| `pool` | 3 nodes, 2 workers, the reward job, 1 outage, 2 timeouts; fair | 391 k | `TypeOK`, `PoolComplete`, `BestClient`, `NodesComeBack`, `GivesOut` |
| `rewards` | 3 blocks of 2 cashouts, 1 cleaning, 2 failures or crashes; fair | 40 k | `TypeOK`, `CountedAtLeastOnce`, `CountedAgainOnlyAfterLoss`, `CatchesUp` |

* `LedgerInOrder`: whatever overlaps or fails, a user's operations reach the chain in the order of the
  Puts, each at most once. It rests on `id % JobCount` and on the absence of retries.
* `AccountsBeforeCall`: when a worker is about to broadcast, each account it names is on
  the chain: the repair in each process function suffices even though *any* earlier message may have been
  abandoned half-way.
* `MarkedOnChain`: a like or sign-in on the chain has its unique key; the converse fails by
  design (§ 5).
* `FollowAgreement`: though follow and unfollow decide on keys read before their own earlier messages are worked
  off, redis and the chain agree whenever the pair is not in work: the
  worker writes the key and sends the operation in the same order.
* `Delivers`: the proxy implements `Delivery` under every failure and restart.
* `KeyAgreement`: as long as only a user's own worker creates her account and queries are reliable, redis
  never holds a key that the chain does not have for the name, whatever else fails and however often the
  process is started again. Both conditions are necessary (below).
* `Answered`, `WorkedOff`: every request of a user whose worker goes on is answered and worked off, even
  though the other worker waits for the chain for ever and its channel fills up: a stuck broadcast
  holds up the users of its own channel and nobody else.
* `OneGamePerLoser`: the handler queues a game on the loser's worker, so that two settlements never work
  on the same loser's account at once. Nothing of the kind holds for winners.
* `AccountsBeforeStake`: the surplus is taken and the stake is moved only between accounts that exist, or there was
  nothing to send, though nothing in the code looks for the accounts: the transfers before have failed
  otherwise.
* `Settles`: when a stake moves, the winner then has exactly what the game reported, and the loser no
  more than it, for all amounts, those that wrap included, unless a game of one of the two overlapped. A winner
  whose account was created because the query of it failed has the stake *more*: she was granted all of `Wcos` before
  (`worker.go:139`). That is the code's doing; by the comment on the field (`worker.go:57`) `Wcos` is what she has.
* `GivesOut`: the pool implements `ClientPool`: in particular no mark falls during a scan or by `checkAlive`, which writes
  marks without the mutex.
* `BestClient`, `NodesComeBack`: although `checkAlive` reads the slice during swaps and may
  pass over a client in one round, and although a late report may mark a healthy node dead,
  the next rounds find it.
* `CountedAtLeastOnce`, `CountedAgainOnlyAfterLoss`: between them, exactly-once up to the failures
  named: one extra count per crash or failed record of the height, one loss per failed `AddReward`.

**Why the bounds are enough.** Interactions in this code are between at most two messages
(the reader and the writer of one key, or two creators of one account); three
requests are two of those and one that prepares or observes. Two users are the
smallest number with two workers, and with a follower and the one followed. A channel of one
place is full as soon as a message waits. One failure lets every step be abandoned once; runs about
the effects of several (`games`, `rewards`) have two. Three nodes give `GetClient` a
swap that is not with its neighbour and the checker one entry to be passed over. Two games are a game and the one that disturbs it; four of the matches have the
players meet in either role, on one worker and on two, in the fifth a player without an account meets herself, and the results include both that make
`Wcos - Cos` and `Lcos + Cos` wrap and one without a stake. Two cashouts give
the reward job a place between two credits. Requests are symmetric (`ReqSymmetry`),
used only in runs without liveness.

`CHECK_DEADLOCK FALSE` in the proxy's configurations: requests are finite in number and the system
rests once they are worked off. `pool` and `rewards` never stop and are checked for deadlock.

### Where the code departs from what is said of it

Each of these runs checks one property that a comment or the API document states, and TLC
finds a behaviour of the code that violates it.

| Run | Property | What happens |
|---|---|---|
| `keys_race` | `KeyAgreement` | Two workers find the same account missing, the one of its owner and the one of a follower. Each writes its own key pair to redis and sends its own create; the chain keeps the first key, redis the last. The user can never sign again. |
| `keys_timeout` | `KeyAgreement` | One failed `GetAccountByName` counts as "not on the chain" (`common.go:109`); new keys replace the good ones in redis, the chain refuses the create. |
| `account_twice` | `OneAccountPerId` | Two requests for one id are both answered 1000; the second record replaces the first, whose account stays on the chain with its key lost. API document 3.1: the id must not repeat. |
| `unfollow_lost` | `LastAnsweredWins` | A client follows, is answered OK, unfollows at once, is answered OK without anything having been sent, and goes on following. API document 3.8, 3.9. |
| `game_surplus` | `LoserSettles` | A loser with more than `Lcos + Cos` gives away `getCoin - Lcos + Cos`, twice the stake too much (`worker.go:200`), and ends with less than `Lcos`, which is what she has by the comment on the field (`worker.go:59`). |
| `game_new_player` | `PlayersCreated` | "if account not exist in chain, create if firstly" (`worker.go:130`): `getAccountInfo` answers for an account that does not exist, too, so that none is created. |

That both of two overlapping sign-ins are signed (`handler.go:328`, `worker.go:334`) is no such run: no document
says that they are not. It is listed as a hazard.

## 4. Fairness

* Proxy: weak fairness of each handler, and of each worker that is not in `Stuck`. A goroutine that can run is
  scheduled, and redis connections (3 s, `db.go:20`) and the queries of the chain have timeouts. `BroadcastTrx`
  has none (`rpc_client.go:129`): whether it returns is up to the node, so that `Stuck` workers are given no
  fairness at all. Nothing obliges a client to send.
* Pool: weak fairness of the goroutine that holds the mutex, and of `checkAlive`; strong fairness of
  its `CheckLook`, the one step that needs the mutex while others may keep taking it: Go's
  `sync.Mutex` hands itself over to a goroutine that has waited for a millisecond.
  No fairness for nodes: `NodesComeBack` assumes the node to be up from some time on.
* Reward job: weak fairness of a round. That queries succeed in the end follows from the bound on
  failures, as `CatchesUp` is about a chain that answers.

## 5. Proofs

All theorems are for arbitrary constants that satisfy the named assumptions
(`ConfigAssumption`, `FreshNames`, `GameAssumption`, `PoolAssumption`, `RewardAssumption`): any number of users, workers, requests,
players, amounts, nodes, callers, blocks, failures, crashes. The assumptions ask for natural numbers where the
configuration has them and for `Nil` to be none of the values; `FreshNames` says of the names that are drawn at random
what the model says of them everywhere, that they are not those of the accounts at start-up. `GameAssumption` asks for one thing more, that all
coins together are less than `Modulus / 2`, i.e. 2^63: otherwise a loser's surplus could wrap to an amount that can be paid. It asks nothing of the reported
games but that their amounts are uint64.
Every invariant and every action property of the runs that hold is a theorem. Two of them, `FollowAgreement` and `KeyAgreement`, hold under a
condition, which the theorem states as a hypothesis; below is why they need it.

**ProxyProofs.** `TypeCorrect == Spec => []TypeOK` needs `IndInv`. `TypeOK` alone is not inductive:
that the name a worker sends is a name, and not `Nil`, depends on its *script*. `WorkerOK` therefore says of
every step that is left that what it uses is either there or is set by an earlier
step that is left too (`SuitedStep`), which survives both taking a step and the splicing
of `createAccount`. `RequestOK` says the same of a handler's remaining
reads, and `Accepted` that a request on a channel does not change any more.

`InOrder == Spec => []LedgerInOrder` needs `OrderInv`: along one worker, tickets grow from the
ledgers of its users, over the message in hand, to the end of its channel
(`Ticketed`). Put appends the largest ticket, Take moves the smallest into the hand, Call
moves it into the ledger and drops it, a failure or a crash only removes; none can break the chain. The theorem
covers every failure the model has.

**RepairProofs.** `AccountsThere == Spec => []AccountsBeforeCall` and `MarksKept == Spec =>
[]MarkedOnChain` rest on `RepairInv`. Neither property says anything about a worker that is not yet about to call;
`Repairs` does, of every call that is left in a script: each role's account is looked for or created before it
(`Covered`), or is on the chain already and its name is not read again. It needs `NameFirst`, that a name is
read before the account is looked for under it; otherwise reading could undo what looking has found.
`Marks` says the same of the unique key. Every step of a worker is shown to be one of three (`Progress`): it
drops the message, it makes the first step with what that step promises (`Advances`), or it splices in the
creation of an account (`Creates`). The frame is `Kept`: no step of anyone takes back an accepted request, an account
on the chain, or the key of a like or a sign-in: `DEL` is only used on follows. This is where the proof depends on
what other workers do.

**FollowProofs.** `FollowsAgree == Spec /\ [][Served]_vars => []FollowAgreement` asks nothing of the constants. `Served` is the
condition under which the property holds: no worker drops a follow or unfollow that it has taken, but with a call
that the chain accepts. Everything else may fail, and the process may stop with messages on the channels; but a broadcast of a follow that fails after its key
was written leaves the two different until the next one about the pair.
The difficulty is that the property says nothing about a pair that is in work. `FollowInv` says what holds there
(`PairOK`): either the unique key is as the message in hand wants it already, or redis and the ledger still agree
and the write is due before the call (`Due`). When the call is accepted, its entry becomes the last one about the pair (`LastAppend`) and
agrees with the key. That no other worker disturbs the pair is the frame: unique keys of follows are written, and entries are made, only by the worker
of the follower (`OrderInv`'s `Ticketed`).

`FollowsAgreeUnfailing` has the condition discharged, for the constants with which nothing fails
(`NoFaults`) and every user has an account to begin with: `Established` says that every record has the key that the chain has, that no
account request gets past its check, and that what a worker has read so far is what the records say
(`Settled`), so that no step of a follow can be the one that drops it. The run `follows` is an instance.

**KeyProofs.** `KeysAgree == "query" \notin FaultKinds => (Spec /\ []OwnAccounts => []KeyAgreement)`. The two conditions are the
two ways in which the code is known to lose a key: `keys_timeout` violates `KeyAgreement` with a failed query, `keys_race` when a worker finds missing the account of a
user of another worker (`OwnAccounts` says that this does not happen). All other failures and restarts are allowed. `KeyInv` says whose a name is
(`Owned`: an account of start-up, or the one that a request for an account brought, whose message has been `Taken`), that a record has a name
of its own id and a key that the chain does not contradict (`RecordOK`), and that an account is created only by the worker of its user and right after its
record was written (`CreateOK`, `CreateNext`): between the write to redis and the broadcast only that worker could
write the record again, and it is busy. A new name has no account on the chain before its message is taken, which is why
replacing the record of an id is harmless to the agreement (though not to the first account, `account_twice`).

Two corollaries have `OwnAccounts` discharged: `KeysAgreeOneWorker` for a single worker, and `KeysAgreeKnownPeers` for any number of
workers, when every user that others refer to has an account to begin with: all ids are registered, or there are no
posts, follows and unfollows, so that likes and comments are about the posts of start-up (`KnownPeers`, `PeerInv`). The run
`own_worker` is an instance of the second.

**DeliveryProofs.** `Implements == Spec => Delivers`: `IndInv` and `TicketInv` (a request has no
ticket while its handler runs, so that none is accepted twice) let each step of the proxy be mapped: `Put` to `Accept`, `Call` to `Deliver` or, if the chain
refuses the transaction, to `Lose`, every other end of a message to `Lose`, `Crash` to `Restart`, and all other steps to
stuttering, `Take` among them: the message moves from the channel to the hand and keeps its place in flight.

**GameProofs.** `GameTypeCorrect`, `OneAtATime == Spec => []OneGamePerLoser`, `StakeBetweenAccounts ==
Spec => []AccountsBeforeStake` and `SettlesCorrect == Spec => Settles` rest on `GameInv`. Its parts: `GameBase` (types, that a request on a
channel or in hand is a game of that worker, and that names and keys belong to the players they were generated for), `Alone` (a worker marked undisturbed shares no player with another, which `Take`
maintains by marking both) and `AllSound`: what a worker knows at each place of its function, e.g. at `Stake` that
both balances are what is due (`Due`: the grant for an account it created, else the balance before the game), if it was undisturbed and its two accounts are two
(`Distinct`). They may be one when a player meets herself; then the stake moves nothing. Arithmetic is for every `Modulus` and every `Supply` below half of it.

**RpcPoolProofs.** `PoolTypeCorrect`, `NoneLost == Spec => []PoolComplete`,
`BestReturned == Spec => BestClient` and `PoolImplements == Spec => GivesOut` rest on `ScanInv`: `Mutex` (who is between Lock and
Unlock holds it), `Swapping` (between the two writes the missing client is in the
caller's hand and its place is the free one), `Hopeful` (a scan that began with a client alive has one
among the entries it has not seen, or in hand) and `Checked` (`checkAlive` only writes marks of clients marked dead, so that
its unlocked write cannot take a scan's hope away). The refinement adds `ClientsHeld` (who calls has a client, and the reward job always the
same), and maps `Lock` to `Ask`, the step that unlocks to `Give`, a call to `Succeed` or `Fail`, `Report` to `Report`, a write of `checkAlive` to `Revive`
or, if the node did not answer, to stuttering like all other steps.

**RewardProofs.** `RewardTypeCorrect`, `EveryBlockCounted == Spec => []CountedAtLeastOnce` and
`NoneCountedAgain == Spec => []CountedAgainOnlyAfterLoss` rest on `RewardInv`: the block in hand is the
one after the recorded height and the chain has it (`InStep`), every cashout of a recorded block and those of the
block in hand up to the current place (`Done`) are counted (`Counted`), and what is not
done has been credited by lost rounds only (`Bounded`). For a chain that was cleaned
the invariant claims only the types.

**Model-checked only.** The liveness properties `Answered`, `WorkedOff`, `NodesComeBack`, `CatchesUp`: liveness under fairness and
`ENABLED` are out of the proof system's reach. That the conditions of `KeysAgree` cannot be dropped is shown by the
counterexamples of the runs, as are the other disagreements of § 3.

## 6. Not modelled, and why

* **Games beside other endpoints**: `Game2048` runs alone. A sign-in may have the official account top up a player
  between a query and a transfer of a game; `Settles` excepts games that others overlap for the same reason.
* **Text of numbers**: `07` and `7` are one worker and two records (`handler.go:111`); ids are numbers here.
* **actionlist, getname**: one read and one query, then formatting; no state changes.
* **Rate limiter**: a refused request never reaches a handler.
* **Name validation, response writing, logging**: no state that a property reads.
* **Time**: timeouts are failures that may happen; the 5 s write timeout of the server is a client
  that sends again; the 30 s expiry of transactions bounds a delay the model does not have.
* **The chain's order across users**: a like may overtake the post it is for. The ledger
  keeps each user's operations; what the chain does with a vote for an unknown uuid is not in this repository.
* **What is lost for good**: a like whose broadcast fails keeps its unique key, so that it is
  refused from then on (`worker.go:367`). This is what the code does and no document says otherwise, hence
  no property; `PROJECT.json` lists it as a hazard.
* **A cleaned chain that outgrew the recorded height** between two rounds goes unnoticed, and its first blocks are
  not counted; `CatchesUp` is only about the height.

## 7. Plan

Done so far: the models of § 2; theorems for all invariants and action properties of the runs; the refinements of `Delivery` and
of `ClientPool`. Left:

1. Weaker conditions for `FollowsAgreeUnfailing`: with one worker, or with follows only between users that exist, accounts
   need not all be there to begin with.
2. The games beside sign-ins, with balances shared, should a document ever promise something about them.
