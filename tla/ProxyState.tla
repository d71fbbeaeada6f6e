----------------------------- MODULE ProxyState -----------------------------
(***************************************************************************)
(* What the HTTP handlers (package server) and the job workers (package    *)
(* job) share: the redis keys, the chain they broadcast to, the queues     *)
(* between them, and the requests in flight.  Handlers.tla and             *)
(* Workers.tla give the steps, Proxy.tla composes them.                    *)
(***************************************************************************)
EXTENDS Naturals, Sequences, FiniteSets

CONSTANTS
    Ids,          \* user ids, the uint64 of the "id" form value
    PostIds,      \* post ids
    CommentIds,   \* comment ids
    Dates,        \* sign-in dates
    Reqs,         \* identities of HTTP requests: each is made at most once
    Kinds,        \* the endpoints exercised
    JobCount,     \* number of workers (config.go: JobCount)
    QueueSize,    \* capacity of a worker's channel (job.go: size)
    Registered,   \* ids that have a record and a chain account at start-up
    Published,    \* owner of each post that exists at start-up, else Nil
    FaultKinds,   \* the failures that may happen: subset of AllFaults
    MaxFaults,    \* bound on the number of failures
    Nil           \* "" or nil

AllKinds  == {"account", "post", "like", "comment", "follow", "unfollow", "signin"}
FakeKinds == {"fakeLike", "fakeComment"}
AllFaults == {"redis", "query", "broadcast", "crash"}
Roles     == {"self", "peer"}
Jobs      == 0 .. JobCount - 1

\* A record name is random (utils.GenerateName): it is taken to be as fresh
\* as the request it was generated for.  The same holds for a post's uuid and
\* for a key pair: a worker generates at most one per message and role.
Names == Reqs \cup Ids
Uuids == Reqs \cup PostIds
Keys  == Names \X Roles

VARIABLES
    account,   \* redis: hash of an id, its name and key pair, written together
    post,      \* redis: hash of a post or comment, its owner and uuid
    marker,    \* redis: the unique keys that exist (like, follow, sign-in)
    chainKey,  \* chain: public key of each account name, Nil when it has none
    ledger,    \* chain: what each user's key signed and the chain accepted
    req,       \* server: the request each identity stands for, Nil before it comes
    checks,    \* server: checks its handler still has to make
    reply,     \* server: its answer ("ret"), Nil while the handler runs
    queue,     \* job: the channel of each worker
    worker,    \* job: what each worker is doing
    ticket,    \* history: position of a request in the order of all Puts, 0 before
    clock,     \* history: number of Puts so far
    faults     \* number of failures so far

redisVars == <<account, post, marker>>
chainVars == <<chainKey, ledger>>
vars == <<account, post, marker, chainKey, ledger, req, checks, reply,
          queue, worker, ticket, clock, faults>>

-----------------------------------------------------------------------------
(* Requests and messages.  item is what a request creates, target what it   *)
(* refers to, name the account name a message carries.  A request that a    *)
(* handler refuses before it reads any state (ParamError, FollowSelf) is    *)
(* not generated.                                                           *)

Body(kinds, ids, items, targets, names) ==
    [kind: kinds, id: ids, item: items, target: targets, name: names]

Follows(kinds) ==
    {b \in Body(kinds, Ids, {Nil}, Ids, {Nil}) : b.id # b.target}

\* What an endpoint takes: the requests whose account name is in names.
Bodies(names) ==
    Body({"account"}, Ids, {Nil}, {Nil}, names)
    \cup Body({"post"}, Ids, PostIds, {Nil}, {Nil})
    \cup Body({"like"}, Ids, {Nil}, PostIds, {Nil})
    \cup Body({"comment"}, Ids, CommentIds, PostIds, {Nil})
    \cup Follows({"follow", "unfollow"})
    \cup Body({"signin"}, Ids, Dates, {Nil}, {Nil})

\* The requests r may make; an account request carries the name generated for it.
Requests(r) == {b \in Bodies({r}) : b.kind \in Kinds}

\* What the handlers turn them into; a fake one gets its name before it is put.
Messages == Bodies(Names)
            \cup Body({"fakeLike"}, Ids, {Nil}, PostIds, Names \cup {Nil})
            \cup Body({"fakeComment"}, Ids, CommentIds, PostIds, Names \cup {Nil})

\* Mutant of JobOf: messages are dealt to the workers in turn.
JobOfTurn(id) == clock % JobCount

\* sendMsg: the worker of a user id.
JobOf(id) == id % JobCount

\* The redis key that records a like, a follow or a sign-in.
UniqueKey(m) ==
    CASE m.kind \in {"follow", "unfollow"} -> <<"follow", m.id, m.target>>
      [] m.kind = "signin"                 -> <<"signin", m.id, m.item>>
      [] OTHER                             -> <<"like", m.id, m.target>>

UniqueKeys == ({"like"} \X Ids \X PostIds)
              \cup ({"follow"} \X Ids \X Ids)
              \cup ({"signin"} \X Ids \X Dates)

-----------------------------------------------------------------------------
Records == [name: Names, key: Keys]
PostRecords == [owner: Ids, uuid: Uuids]
Entries == [req: Reqs, op: AllKinds \cup FakeKinds, by: Names,
            on: Uuids \cup Names \cup {Nil}]
Steps == {"Name", "Mark", "Unmark", "SavePost", "Exist", "SetAccount",
          "Create", "Fund", "Owner", "Uuid", "Key", "Call"} \X Roles
Checks == {"Id", "NewId", "Peer", "NewItem", "Target", "NewMark",
           "Mark", "FakeName"}

IdleWorker == [cur |-> Nil, steps |-> <<>>,
               id   |-> [x \in Roles |-> Nil],
               name |-> [x \in Roles |-> Nil],
               uuid |-> Nil, key |-> Nil, fresh |-> Nil]

Workers == [cur: Reqs \cup {Nil}, steps: Seq(Steps),
            id: [Roles -> Ids \cup {Nil}],
            name: [Roles -> Names \cup {Nil}],
            uuid: Uuids \cup {Nil},
            key: Keys \cup {Nil}, fresh: Keys \cup {Nil}]

Replies == {"OK", "ServerError", "IdDuplicate", "IdNotExist",
            "PostIdDuplicate", "PostIdNotExist", "CommentIdDuplicate",
            "FuidNotExist", "LikePostDuplicate", "FollowDuplicate",
            "Signed", "Lost"}

\* Nil is like no other value.
ASSUME ConfigAssumption ==
    /\ JobCount \in Nat \ {0}
    /\ QueueSize \in Nat \ {0}
    /\ MaxFaults \in Nat
    /\ FaultKinds \subseteq AllFaults
    /\ Kinds \subseteq AllKinds
    /\ Ids \subseteq Nat
    /\ Registered \subseteq Ids
    /\ Published \in [PostIds -> Registered \cup {Nil}]
    /\ Nil \notin Reqs \cup Ids \cup PostIds \cup CommentIds \cup Keys
    /\ Nil \notin Messages \cup Replies \cup Records

\* A generated name is none of those that accounts have at start-up.
ASSUME FreshNames == Reqs \cap Ids = {}

TypeOK ==
    /\ account \in [Ids -> Records \cup {Nil}]
    /\ post \in [PostIds \cup CommentIds -> PostRecords \cup {Nil}]
    /\ marker \subseteq UniqueKeys
    /\ chainKey \in [Names -> Keys \cup {Nil}]
    /\ ledger \in [Ids -> Seq(Entries)]
    /\ req \in [Reqs -> Messages \cup {Nil}]
    /\ checks \in [Reqs -> Seq(Checks)]
    /\ reply \in [Reqs -> Replies \cup {Nil}]
    /\ queue \in [Jobs -> Seq(Reqs)]
    /\ \A w \in Jobs : Len(queue[w]) <= QueueSize
    /\ worker \in [Jobs -> Workers]
    /\ ticket \in [Reqs -> Nat]
    /\ clock \in Nat
    /\ faults \in 0 .. MaxFaults

\* Every registered id has the key the chain knows: the state in which
\* earlier runs that met no failure leave redis and the chain.
Init ==
    /\ account = [i \in Ids |-> IF i \in Registered
                                THEN [name |-> i, key |-> <<i, "self">>]
                                ELSE Nil]
    /\ post = [p \in PostIds \cup CommentIds |->
                 IF p \in PostIds /\ Published[p] # Nil
                 THEN [owner |-> Published[p], uuid |-> p]
                 ELSE Nil]
    /\ marker = {}
    /\ chainKey = [n \in Names |-> IF n \in Registered THEN <<n, "self">> ELSE Nil]
    /\ ledger = [i \in Ids |-> <<>>]
    /\ req = [r \in Reqs |-> Nil]
    /\ checks = [r \in Reqs |-> <<>>]
    /\ reply = [r \in Reqs |-> Nil]
    /\ queue = [w \in Jobs |-> <<>>]
    /\ worker = [w \in Jobs |-> IdleWorker]
    /\ ticket = [r \in Reqs |-> 0]
    /\ clock = 0
    /\ faults = 0

\* One more failure of kind k.
Fault(k) == /\ k \in FaultKinds
            /\ faults < MaxFaults
            /\ faults' = faults + 1

=============================================================================
