------------------------------ MODULE KeyProofs ------------------------------
(***************************************************************************)
(* The key pairs in redis and on the chain.  A worker that finds an        *)
(* account missing writes a new pair to redis and then to the chain.  The  *)
(* two stay the same unless a failed query passes for a missing account,   *)
(* or two workers find the same account missing.                           *)
(***************************************************************************)
EXTENDS RepairProofs

\* A worker that finds an account missing is the one of the account's user.
OwnAccounts ==
    \A w \in Jobs : At(w, "Exist") /\ chainKey[Name(w)] = Nil => JobOf(Id(w)) = w

\* The message of request r has left its channel, if it ever was on one.
OnQueue(r) == \E w \in Jobs : \E k \in DOMAIN queue[w] : queue[w][k] = r
Taken(r)   == Accepted(r) /\ ~OnQueue(r)

\* Account name n is of id i: it was at start-up, or a request for an account
\* of i brought it.
Owned(n, i) ==
    \/ n = i /\ i \in Registered
    \/ n \in Reqs /\ Taken(n) /\ req[n].kind = "account" /\ req[n].id = i

\* The record of i among accounts a, where the chain has keys c.
RecordOK(i, a, c) ==
    a[i] # Nil => Owned(a[i].name, i) /\ c[a[i].name] \in {Nil, a[i].key}

\* The name that a message carries.
ReqName(r) ==
    req[r] # Nil =>
        /\ req[r].kind = "account" => req[r].name = r
        /\ req[r].kind \in FakeKinds =>
              (req[r].name # Nil => Owned(req[r].name, req[r].id))

NamesOwned(st) ==
    \A x \in Roles : st.name[x] # Nil => Owned(st.name[x], st.id[x])

\* An account is written to redis at once, and then to the chain.
CreateNext(s) ==
    \A k \in DOMAIN s :
        /\ s[k][1] = "SetAccount" => k = 1
        /\ s[k][1] = "Create" => (k = 1 \/ (k = 2 /\ s[1] = <<"SetAccount", s[k][2]>>))

\* Worker w is in state st to make step do for its role x.
Next1(st, do, x) == st.steps # <<>> /\ Head(st.steps) = <<do, x>>

\* Worker w, in state st, only creates accounts of its users, and those that
\* the chain does not have.
CreateOK(w, st, a, c) ==
    /\ CreateNext(st.steps)
    /\ \A x \in Roles : Next1(st, "SetAccount", x) =>
          c[st.name[x]] = Nil /\ JobOf(st.id[x]) = w
    /\ \A x \in Roles : Next1(st, "Create", x) =>
          a[st.id[x]] = [name |-> st.name[x], key |-> st.fresh] /\ JobOf(st.id[x]) = w

KeyInv ==
    /\ \A i \in Ids : RecordOK(i, account, chainKey)
    /\ \A r \in Reqs : chainKey[r] # Nil => Taken(r)
    /\ \A r \in Reqs : ReqName(r)
    /\ \A w \in Jobs : /\ NamesOwned(worker[w])
                       /\ CreateOK(w, worker[w], account, chainKey)

-----------------------------------------------------------------------------
(* Owners.                                                                  *)

LEMMA OneOwner ==
    ASSUME NEW n, NEW i \in Ids, NEW j \in Ids, Owned(n, i), Owned(n, j)
    PROVE  i = j
  BY FreshNames, ConfigAssumption DEF Owned

LEMMA OwnedTaken ==
    ASSUME NEW r \in Reqs, NEW i \in Ids, Owned(r, i)
    PROVE  Taken(r)
  BY FreshNames, ConfigAssumption DEF Owned

\* A channel only gets messages that no worker has had.
LEMMA QueueStep ==
    ASSUME IndInv, [Next]_vars, NEW r, OnQueue(r)'
    PROVE  OnQueue(r) \/ (r \in Reqs /\ ~Accepted(r))
<1>1. PICK v \in Jobs : \E k \in DOMAIN queue'[v] : queue'[v][k] = r
  BY DEF OnQueue
<1>2. PICK k \in DOMAIN queue'[v] : queue'[v][k] = r
  BY <1>1
<1>3. queue \in [Jobs -> Seq(Reqs)]
  BY DEF IndInv, TypeOK
<1>4. CASE UNCHANGED queue
  BY <1>2, <1>4 DEF OnQueue
<1>5. ASSUME NEW q \in Reqs, Put(q)
      PROVE  OnQueue(r) \/ (r \in Reqs /\ ~Accepted(r))
  <2>1. PICK u : u = JobOf(req[q].id) /\ queue' = [queue EXCEPT ![u] = Append(@, q)]
    BY <1>5 DEF Put
  <2>2. ~Accepted(q)
    BY <1>5 DEF Put, Accepted
  <2>3. CASE v # u
    BY <1>2, <1>3, <2>1, <2>3 DEF OnQueue
  <2>4. CASE v = u
    <3> DEFINE f == queue[v]
    <3>1. /\ Append(f, q) \in Seq(Reqs) /\ Len(Append(f, q)) = Len(f) + 1
          /\ \A l \in 1 .. Len(f) : Append(f, q)[l] = f[l]
          /\ Append(f, q)[Len(f) + 1] = q
          /\ DOMAIN f = 1 .. Len(f) /\ Len(f) \in Nat
      BY <1>3, AppendProperties, LenProperties
    <3>2. queue'[v] = Append(f, q)
      BY <1>3, <2>1, <2>4
    <3> HIDE DEF f
    <3>3. DOMAIN queue'[v] = 1 .. Len(f) + 1
      BY <3>1, <3>2, LenProperties
    <3>4. k \in 1 .. Len(f) \/ k = Len(f) + 1
      BY <1>2, <3>1, <3>3
    <3>5. CASE k \in 1 .. Len(f)
      <4>1. queue[v][k] = r /\ k \in DOMAIN queue[v]
        BY <1>2, <3>1, <3>2, <3>5 DEF f
      <4> QED
        BY <4>1 DEF OnQueue
    <3>6. CASE k = Len(f) + 1
      BY <1>2, <2>2, <3>1, <3>2, <3>6
    <3> QED
      BY <3>4, <3>5, <3>6
  <2> QED
    BY <2>3, <2>4
<1>6. ASSUME NEW u \in Jobs, Take(u)
      PROVE  OnQueue(r)
  <2>1. queue' = [queue EXCEPT ![u] = Tail(@)] /\ queue[u] # <<>>
    BY <1>6 DEF Take
  <2>2. CASE v # u
    BY <1>2, <1>3, <2>1, <2>2 DEF OnQueue
  <2>3. CASE v = u
    <3>1. /\ queue'[v] = Tail(queue[v]) /\ queue[v] \in Seq(Reqs) /\ queue[v] # <<>>
      BY <1>3, <2>1, <2>3
    <3>2. k + 1 \in DOMAIN queue[v] /\ queue[v][k + 1] = r
      BY <1>2, <3>1
    <3> QED
      BY <3>2 DEF OnQueue
  <2> QED
    BY <2>2, <2>3
<1>7. CASE Crash
  BY <1>2, <1>7 DEF Crash
<1>8. ASSUME NEW w \in Jobs, Work(w)
      PROVE  UNCHANGED queue
  BY <1>8, WorkOK
<1> QED
  BY <1>4, <1>5, <1>6, <1>7, <1>8 DEF Next, Handle, Arrive, CheckPasses, CheckRefuses,
     TurnsFake, CheckFails, vars

\* A name stays with its owner.
LEMMA OwnedKept ==
    ASSUME IndInv, [Next]_vars
    PROVE  /\ \A r \in Reqs : Taken(r) => Taken(r)'
           /\ \A n, i : Owned(n, i) => Owned(n, i)'
<1>1. \A r \in Reqs : Accepted(r) => Accepted(r)' /\ req'[r] = req[r]
  BY StepKeeps DEF Kept
<1>2. ASSUME NEW r \in Reqs, Taken(r)
      PROVE  Taken(r)'
  <2>1. ~OnQueue(r)'
    BY <1>2, QueueStep DEF Taken
  <2> QED
    BY <1>1, <1>2, <2>1 DEF Taken
<1> QED
  BY <1>1, <1>2 DEF Owned, Taken

-----------------------------------------------------------------------------
(* Scripts.                                                                 *)

LEMMA IdleCreates ==
    \A w, a, c : CreateOK(w, IdleWorker, a, c) /\ NamesOwned(IdleWorker)
  BY DEF CreateOK, CreateNext, Next1, NamesOwned, IdleWorker

\* No process function but the one of new accounts creates one unasked.
LEMMA ScriptCreates ==
    ASSUME NEW kind \in AllKinds \cup FakeKinds
    PROVE  /\ CreateNext(StepsOf(kind))
           /\ \A x \in Roles : Head(StepsOf(kind)) # <<"Create", x>>
           /\ \A x \in Roles : Head(StepsOf(kind)) = <<"SetAccount", x>> =>
                 kind = "account" /\ x = "self"
<1> USE DEF CreateNext, S, P, Roles, AllKinds, FakeKinds, StepsOf
<1>1. CASE kind = "account"
  BY <1>1 DEF processAccountMsg, createAccount
<1>2. CASE kind = "post"
  BY <1>2 DEF processPostMsg
<1>3. CASE kind = "like"
  BY <1>3 DEF processLikeMsg
<1>4. CASE kind = "comment"
  BY <1>4 DEF processCommentMsg
<1>5. CASE kind = "follow"
  BY <1>5 DEF processFollowMsg
<1>6. CASE kind = "unfollow"
  BY <1>6 DEF processUnfollowMsg
<1>7. CASE kind = "signin"
  BY <1>7 DEF processSignInMsg
<1>8. CASE kind \in FakeKinds
  BY <1>8 DEF processFakeMsg
<1> QED
  BY <1>1, <1>2, <1>3, <1>4, <1>5, <1>6, <1>7, <1>8

\* After a step, an account is only created when the step wrote it to redis.
LEMMA TailCreates ==
    ASSUME NEW s \in Seq(Steps), s # <<>>, CreateNext(s)
    PROVE  /\ CreateNext(Tail(s))
           /\ Tail(s) # <<>> =>
                 \A x \in Roles : /\ Head(Tail(s)) # <<"SetAccount", x>>
                                  /\ Head(Tail(s)) = <<"Create", x>> =>
                                        Head(s) = <<"SetAccount", x>>
<1>1. /\ Len(s) \in Nat \ {0} /\ DOMAIN Tail(s) = 1 .. Len(s) - 1
      /\ \A k \in 1 .. Len(s) - 1 : Tail(s)[k] = s[k + 1]
      /\ Head(s) = s[1] /\ DOMAIN s = 1 .. Len(s)
      /\ Tail(s) \in Seq(Steps)
  BY TailSteps, LenProperties
<1>2. ASSUME NEW k \in 1 .. Len(s) - 1
      PROVE  /\ Tail(s)[k][1] # "SetAccount"
             /\ Tail(s)[k][1] = "Create" =>
                   k = 1 /\ Head(s) = <<"SetAccount", Tail(s)[k][2]>>
  <2>1. k + 1 \in DOMAIN s /\ k + 1 # 1 /\ k \in Nat
    BY ONLY <1>1, k \in 1 .. Len(s) - 1
  <2>2. k + 1 = 2 => k = 1
    BY ONLY <2>1
  <2> QED
    BY <1>1, <2>1, <2>2 DEF CreateNext
<1>3. CreateNext(Tail(s))
  BY <1>1, <1>2 DEF CreateNext
<1>4. ASSUME Tail(s) # <<>>
      PROVE  1 \in 1 .. Len(s) - 1 /\ Head(Tail(s)) = Tail(s)[1]
  <2>1. Len(Tail(s)) \in Nat /\ Len(Tail(s)) # 0 /\ Len(Tail(s)) = Len(s) - 1
    BY <1>1, <1>4, TailSteps, EmptySeq, LenProperties
  <2> QED
    BY <1>1, <1>4, <2>1, TailSteps
<1>5. ASSUME NEW x \in Roles, Tail(s) # <<>>
      PROVE  /\ Head(Tail(s)) # <<"SetAccount", x>>
             /\ Head(Tail(s)) = <<"Create", x>> => Head(s) = <<"SetAccount", x>>
  <2>1. PICK e : e = Tail(s)[1] /\ e = Head(Tail(s))
    BY <1>4, <1>5
  <2>2. /\ e[1] # "SetAccount"
        /\ e[1] = "Create" => Head(s) = <<"SetAccount", e[2]>>
    BY <1>2, <1>4, <1>5, <2>1
  <2>3. /\ e = <<"SetAccount", x>> => e[1] = "SetAccount"
        /\ e = <<"Create", x>> => e[1] = "Create" /\ e[2] = x
    OBVIOUS
  <2> QED
    BY <2>1, <2>2, <2>3
<1> QED
  BY <1>3, <1>5

\* Looking for an account that the chain does not have.
LEMMA CreateCreates ==
    ASSUME NEW s \in Seq(Steps), s # <<>>, CreateNext(s), NEW role \in Roles,
           Head(s) = <<"Exist", role>>
    PROVE  LET t == createAccount(role) \o Tail(s)
           IN  CreateNext(t) /\ Head(t) = <<"SetAccount", role>>
<1> DEFINE t == createAccount(role) \o Tail(s)
<1>1. /\ Len(s) \in Nat \ {0} /\ DOMAIN s = 1 .. Len(s) /\ s[1] = <<"Exist", role>>
  BY TailSteps, LenProperties
<1>2. /\ t \in Seq(Steps) /\ t # <<>> /\ DOMAIN t = 1 .. Len(s) + 1
      /\ t[1] = <<"SetAccount", role>> /\ t[2] = <<"Create", role>>
      /\ \A k \in 2 .. Len(s) : t[k + 1] = s[k]
  BY CreateSteps
<1>3. Head(t) = t[1]
  BY <1>2, TailSteps
<1> HIDE DEF t
<1>4. ASSUME NEW k \in DOMAIN t, k # 1, k # 2
      PROVE  t[k][1] # "SetAccount" /\ t[k][1] # "Create"
  <2>1. k - 1 \in 2 .. Len(s) /\ k - 1 \in 1 .. Len(s) /\ (k - 1) + 1 = k
    BY <1>1, <1>2, <1>4
  <2>2. k - 1 # 1
    BY <2>1
  <2>3. s[k - 1][1] # "SetAccount"
    BY <1>1, <2>1, <2>2 DEF CreateNext
  <2>4. s[k - 1][1] # "Create"
    BY <1>1, <2>1, <2>2 DEF CreateNext
  <2> QED
    BY <1>2, <2>1, <2>3, <2>4
<1>5. CreateNext(t)
  BY <1>2, <1>4 DEF CreateNext
<1> QED
  BY <1>2, <1>3, <1>5 DEF t

-----------------------------------------------------------------------------
(* Steps of a worker.                                                       *)

\* What a step of worker w may do to the records and to the chain's accounts.
Records1(w) == /\ At(w, "SetAccount")
               /\ account' = [account EXCEPT ![Id(w)] =
                                [name |-> Name(w), key |-> NewKey(w)]]
               /\ UNCHANGED chainKey

Creates1(w) == /\ At(w, "Create")
               /\ chainKey[Name(w)] = Nil
               /\ chainKey' = [chainKey EXCEPT ![Name(w)] = worker[w].fresh]
               /\ UNCHANGED account

LEMMA WorkStores ==
    ASSUME NEW w \in Jobs, Work(w)
    PROVE  UNCHANGED <<account, chainKey>> \/ Records1(w) \/ Creates1(w)
<1>1. CASE WriteRedis(w) \/ RedisFails(w)
  BY <1>1 DEF WriteRedis, RedisFails, Write, Records1, redisVars, chainVars
<1>2. CASE CreateOnChain(w) \/ BroadcastFails(w)
  BY <1>2 DEF CreateOnChain, BroadcastFails, Creates1, redisVars
<1>3. CASE ~(WriteRedis(w) \/ RedisFails(w) \/ CreateOnChain(w) \/ BroadcastFails(w))
  BY <1>3 DEF Work, ReadName, ReadKey, ReadOwner, ReadUuid, QueryChain, QueryFails, Fund,
     Call, redisVars, chainVars
<1> QED
  BY <1>1, <1>2, <1>3

\* Of the step that worker w is about to make, what KeyInv says.
LEMMA AtOwned ==
    ASSUME IndInv, KeyInv, NEW w \in Jobs, NEW do \in {"Exist", "SetAccount", "Create"},
           At(w, do)
    PROVE  /\ Name(w) \in Names /\ Id(w) \in Ids /\ Owned(Name(w), Id(w))
           /\ do = "SetAccount" => chainKey[Name(w)] = Nil /\ JobOf(Id(w)) = w
           /\ do = "Create" =>
                 /\ JobOf(Id(w)) = w
                 /\ account[Id(w)] = [name |-> Name(w), key |-> worker[w].fresh]
<1>1. /\ Name(w) \in Names /\ Id(w) \in Ids /\ Role(w) \in Roles
      /\ worker[w].steps # <<>> /\ Head(worker[w].steps) = <<do, Role(w)>>
  BY AtStep
<1>2. Owned(Name(w), Id(w))
  BY <1>1, NilType DEF KeyInv, NamesOwned, Name, Id
<1>3. Next1(worker[w], do, Role(w))
  BY <1>1 DEF Next1
<1>4. CreateOK(w, worker[w], account, chainKey)
  BY DEF KeyInv
<1> QED
  BY <1>1, <1>2, <1>3, <1>4 DEF CreateOK, Name, Id

\* The records, and the chain's names, after a step of a worker.
LEMMA WorkRecords ==
    ASSUME IndInv, KeyInv, NEW w \in Jobs, Work(w)
    PROVE  /\ \A i \in Ids : RecordOK(i, account', chainKey')
           /\ \A r \in Reqs : chainKey'[r] # Nil => Taken(r)
<1>1. \A i \in Ids : RecordOK(i, account, chainKey)
  BY DEF KeyInv
<1>2. \A r \in Reqs : chainKey[r] # Nil => Taken(r)
  BY DEF KeyInv
<1>3. account \in [Ids -> Records \cup {Nil}] /\ chainKey \in [Names -> Keys \cup {Nil}]
  BY DEF IndInv, TypeOK
<1>4. CASE UNCHANGED <<account, chainKey>>
  BY <1>1, <1>2, <1>4
<1>5. CASE Records1(w)
  <2>1. /\ Id(w) \in Ids /\ Owned(Name(w), Id(w)) /\ chainKey[Name(w)] = Nil
    BY <1>5, AtOwned DEF Records1
  <2>2. PICK rec : rec = [name |-> Name(w), key |-> NewKey(w)]
    OBVIOUS
  <2>3. account' = [account EXCEPT ![Id(w)] = rec] /\ UNCHANGED chainKey
    BY <1>5, <2>2 DEF Records1
  <2>4. RecordOK(Id(w), account', chainKey')
    <3>1. account'[Id(w)] = rec
      BY <1>3, <2>1, <2>3
    <3>2. rec.name = Name(w)
      BY <2>2
    <3> QED
      BY <2>1, <2>3, <3>1, <3>2 DEF RecordOK
  <2>5. ASSUME NEW i \in Ids, i # Id(w)
        PROVE  RecordOK(i, account', chainKey')
    <3>1. account'[i] = account[i]
      BY <1>3, <2>3, <2>5
    <3> QED
      BY <1>1, <2>3, <3>1 DEF RecordOK
  <2> QED
    BY <1>2, <2>3, <2>4, <2>5
<1>6. CASE Creates1(w)
  <2>1. PICK n \in Names : n = Name(w)
    BY <1>6, AtOwned DEF Creates1
  <2>2. /\ Id(w) \in Ids /\ Owned(n, Id(w))
        /\ account[Id(w)] = [name |-> n, key |-> worker[w].fresh]
    BY <1>6, <2>1, AtOwned DEF Creates1
  <2>3. chainKey' = [chainKey EXCEPT ![n] = worker[w].fresh] /\ UNCHANGED account
    BY <1>6, <2>1 DEF Creates1
  <2>4. ASSUME NEW i \in Ids, account[i] # Nil
        PROVE  Owned(account[i].name, i) /\ chainKey'[account[i].name] \in {Nil, account[i].key}
    <3>1. /\ Owned(account[i].name, i) /\ account[i].name \in Names
          /\ chainKey[account[i].name] \in {Nil, account[i].key}
      BY <1>1, <2>4, RecordTypes DEF RecordOK
    <3>2. CASE account[i].name = n
      <4>1. i = Id(w)
        BY <2>2, <3>1, <3>2, OneOwner
      <4>2. account[i].key = worker[w].fresh
        BY <2>2, <4>1
      <4>3. chainKey'[n] = worker[w].fresh
        BY <1>3, <2>3
      <4> QED
        BY <3>1, <3>2, <4>2, <4>3
    <3>3. CASE account[i].name # n
      <4>1. chainKey'[account[i].name] = chainKey[account[i].name]
        BY <1>3, <2>3, <3>1, <3>3
      <4> QED
        BY <3>1, <4>1
    <3> QED
      BY <3>2, <3>3
  <2>5. ASSUME NEW r \in Reqs, chainKey'[r] # Nil
        PROVE  Taken(r)
    <3>1. CASE r = n
      BY <2>2, <3>1, OwnedTaken
    <3>2. CASE r # n
      <4>1. r \in Names
        BY DEF Names
      <4>2. chainKey'[r] = chainKey[r]
        BY <1>3, <2>3, <3>2, <4>1
      <4> QED
        BY <1>2, <2>5, <4>2
    <3> QED
      BY <3>1, <3>2
  <2> QED
    BY <2>3, <2>4, <2>5 DEF RecordOK
<1> QED
  BY <1>4, <1>5, <1>6, WorkStores

\* Another worker that is creating an account does so for other users.
LEMMA OthersCreate ==
    ASSUME IndInv, KeyInv, NEW w \in Jobs, Work(w), NEW v \in Jobs, v # w
    PROVE  CreateOK(v, worker[v], account', chainKey')
<1>1. CreateOK(v, worker[v], account, chainKey)
  BY DEF KeyInv
<1>2. account \in [Ids -> Records \cup {Nil}] /\ chainKey \in [Names -> Keys \cup {Nil}]
  BY DEF IndInv, TypeOK
<1>3. ASSUME NEW do \in {"SetAccount", "Create"}, NEW x \in Roles, Next1(worker[v], do, x)
      PROVE  /\ At(v, do) /\ Name(v) = worker[v].name[x] /\ Id(v) = worker[v].id[x]
             /\ Name(v) \in Names /\ Id(v) \in Ids /\ Owned(Name(v), Id(v))
             /\ JobOf(Id(v)) = v
  <2>1. At(v, do) /\ Role(v) = x
    BY <1>3 DEF Next1, At, Step, Role
  <2>2. Name(v) = worker[v].name[x] /\ Id(v) = worker[v].id[x]
    BY <2>1 DEF Name, Id
  <2> QED
    BY <2>1, <2>2, AtOwned
<1>4. CASE UNCHANGED <<account, chainKey>>
  BY <1>1, <1>4
<1>5. CASE Records1(w)
  <2>1. /\ Id(w) \in Ids /\ JobOf(Id(w)) = w
    BY <1>5, AtOwned DEF Records1
  <2>2. ASSUME NEW x \in Roles, Next1(worker[v], "Create", x)
        PROVE  account'[worker[v].id[x]] = account[worker[v].id[x]]
    <3>1. worker[v].id[x] \in Ids /\ worker[v].id[x] # Id(w)
      BY <1>3, <2>1, <2>2
    <3> QED
      BY <1>2, <1>5, <3>1 DEF Records1
  <2> QED
    BY <1>1, <1>5, <2>2 DEF CreateOK, Records1
<1>6. CASE Creates1(w)
  <2>1. /\ Name(w) \in Names /\ Id(w) \in Ids /\ Owned(Name(w), Id(w)) /\ JobOf(Id(w)) = w
    BY <1>6, AtOwned DEF Creates1
  <2>2. ASSUME NEW x \in Roles, Next1(worker[v], "SetAccount", x)
        PROVE  chainKey'[worker[v].name[x]] = chainKey[worker[v].name[x]]
    <3>1. PICK n \in Names : /\ n = worker[v].name[x] /\ Owned(n, worker[v].id[x])
                             /\ worker[v].id[x] \in Ids /\ JobOf(worker[v].id[x]) = v
      BY <1>3, <2>2
    <3>2. n # Name(w)
      BY <2>1, <3>1, OneOwner
    <3> QED
      BY <1>2, <1>6, <3>1, <3>2 DEF Creates1
  <2> QED
    BY <1>1, <1>6, <2>2 DEF CreateOK, Creates1
<1> QED
  BY <1>4, <1>5, <1>6, WorkStores

\* What a step of worker w makes of its own message.
Continues(w) == /\ NamesOwned(worker'[w])
                /\ CreateOK(w, worker'[w], account', chainKey')

LEMMA IdleContinues ==
    ASSUME IndInv, NEW w \in Jobs, Abandon(w)
    PROVE  Continues(w)
<1>1. worker'[w] = IdleWorker
  BY BecomeIs DEF Abandon
<1> QED
  BY <1>1, IdleCreates DEF Continues

\* A step do that goes on with its locals in st.
LEMMA GoOnContinues ==
    ASSUME IndInv, KeyInv, NEW w \in Jobs, NEW do, At(w, do),
           NEW st \in Workers, st.steps = worker[w].steps, NamesOwned(st),
           do = "SetAccount" =>
              /\ JobOf(st.id[Role(w)]) = w
              /\ account'[st.id[Role(w)]] = [name |-> st.name[Role(w)], key |-> st.fresh],
           GoOn(w, st)
    PROVE  Continues(w)
<1>1. /\ worker[w] \in Workers /\ worker[w].steps # <<>>
      /\ Head(worker[w].steps) = <<do, Role(w)>> /\ Role(w) \in Roles
  BY AtStep
<1> DEFINE new  == [st EXCEPT !.steps = Tail(@)]
           next == IF Len(st.steps) = 1 THEN IdleWorker ELSE new
<1>2. worker'[w] = next
  <2>1. Become(w, next)
    BY DEF GoOn
  <2> HIDE DEF next
  <2> QED
    BY <2>1, BecomeIs
<1>3. CASE Len(st.steps) = 1
  BY <1>2, <1>3, IdleCreates DEF Continues
<1>4. CASE Len(st.steps) # 1
  <2> DEFINE s == st.steps
             t == Tail(s)
  <2>1. /\ new.steps = t /\ new.name = st.name /\ new.id = st.id /\ new.fresh = st.fresh
    BY DEF Workers
  <2>2. s \in Seq(Steps) /\ s # <<>> /\ CreateNext(s)
    BY <1>1 DEF Workers, KeyInv, CreateOK
  <2>3. t # <<>>
    BY <1>4, <2>2, TailSteps
  <2>4. /\ CreateNext(t)
        /\ \A x \in Roles : /\ Head(t) # <<"SetAccount", x>>
                            /\ Head(t) = <<"Create", x>> => Head(s) = <<"SetAccount", x>>
    BY <2>2, <2>3, TailCreates
  <2>5. Head(s) = <<do, Role(w)>>
    BY <1>1
  <2>6. worker'[w] = new
    BY <1>2, <1>4
  <2> HIDE DEF new, s, t
  <2>7. NamesOwned(new)
    BY <2>1 DEF NamesOwned
  <2>8. ASSUME NEW x \in Roles, Next1(new, "Create", x)
        PROVE  /\ account'[new.id[x]] = [name |-> new.name[x], key |-> new.fresh]
               /\ JobOf(new.id[x]) = w
    <3>1. Head(s) = <<"SetAccount", x>>
      BY <2>1, <2>4, <2>8 DEF Next1
    <3>2. do = "SetAccount" /\ x = Role(w)
      BY <2>5, <3>1
    <3> QED
      BY <2>1, <3>2
  <2>9. \A x \in Roles : ~Next1(new, "SetAccount", x)
    BY <2>1, <2>4 DEF Next1
  <2>10. CreateNext(new.steps)
    BY <2>1, <2>4
  <2> QED
    BY <2>6, <2>7, <2>8, <2>9, <2>10 DEF Continues, CreateOK
<1> QED
  BY <1>3, <1>4

LEMMA LocalContinues ==
    ASSUME IndInv, KeyInv, NEW w \in Jobs, NEW do, At(w, do), do # "SetAccount",
           NEW st \in Workers, st.steps = worker[w].steps, NamesOwned(st), GoOn(w, st)
    PROVE  Continues(w)
  BY GoOnContinues

LEMMA PlainContinues ==
    ASSUME IndInv, KeyInv, NEW w \in Jobs, NEW do, At(w, do), do # "SetAccount",
           GoOn(w, worker[w])
    PROVE  Continues(w)
<1>1. worker[w] \in Workers /\ NamesOwned(worker[w])
  BY AtStep DEF KeyInv
<1> QED
  BY <1>1, LocalContinues

LEMMA ReadNameContinues ==
    ASSUME IndInv, KeyInv, NEW w \in Jobs, ReadName(w)
    PROVE  Continues(w)
<1>1. /\ At(w, "Name") /\ worker[w] \in Workers /\ Role(w) \in Roles
  BY AtStep DEF ReadName
<1>2. CASE Id(w) = Nil \/ account[Id(w)] = Nil
  BY <1>2, IdleContinues DEF ReadName
<1>3. CASE ~(Id(w) = Nil \/ account[Id(w)] = Nil)
  <2>1. PICK i \in Ids : i = Id(w)
    BY <1>1, <1>3 DEF Id, Workers
  <2>2. PICK n \in Names : n = account[i].name /\ Owned(n, i)
    BY <1>3, <2>1, RecordTypes DEF KeyInv, RecordOK
  <2> DEFINE st == [worker[w] EXCEPT !.name[Role(w)] = n]
  <2>3. GoOn(w, st)
    BY <1>3, <2>1, <2>2 DEF ReadName
  <2>4. /\ st \in Workers /\ st.steps = worker[w].steps /\ st.id = worker[w].id
    BY <1>1 DEF Workers
  <2>5. \A x \in Roles : st.name[x] = IF x = Role(w) THEN n ELSE worker[w].name[x]
    BY <1>1 DEF Workers
  <2> HIDE DEF st
  <2>6. NamesOwned(st)
    BY <2>1, <2>2, <2>4, <2>5 DEF NamesOwned, KeyInv, Id
  <2> QED
    BY <1>1, <2>3, <2>4, <2>6, LocalContinues
<1> QED
  BY <1>2, <1>3

LEMMA ReadKeyContinues ==
    ASSUME IndInv, KeyInv, NEW w \in Jobs, ReadKey(w)
    PROVE  Continues(w)
<1>1. /\ At(w, "Key") /\ worker[w] \in Workers /\ Id(w) \in Ids
  BY AtStep, MessageFields DEF ReadKey, Id
<1>2. CASE account[Id(w)] = Nil
  BY <1>2, IdleContinues DEF ReadKey
<1>3. CASE account[Id(w)] # Nil
  <2>1. PICK key \in Keys : key = account[Id(w)].key
    BY <1>1, <1>3, RecordTypes
  <2> DEFINE st == [worker[w] EXCEPT !.key = key]
  <2>2. GoOn(w, st)
    BY <1>3, <2>1 DEF ReadKey
  <2>3. /\ st \in Workers /\ st.steps = worker[w].steps /\ st.id = worker[w].id
        /\ st.name = worker[w].name
    BY <1>1 DEF Workers
  <2> HIDE DEF st
  <2>4. NamesOwned(st)
    BY <2>3 DEF NamesOwned, KeyInv
  <2> QED
    BY <1>1, <2>2, <2>3, <2>4, LocalContinues
<1> QED
  BY <1>2, <1>3

LEMMA ReadOwnerContinues ==
    ASSUME IndInv, KeyInv, NEW w \in Jobs, ReadOwner(w)
    PROVE  Continues(w)
<1> DEFINE p     == post[Msg(w).target]
           owner == IF p = Nil THEN Nil ELSE p.owner
           st    == [worker[w] EXCEPT !.id["peer"] = owner]
<1>1. At(w, "Owner") /\ GoOn(w, st)
  BY DEF ReadOwner
<1>2. /\ worker[w] \in Workers /\ Msg(w) \in Messages
      /\ Msg(w).kind \in {"like", "comment"} /\ worker[w].name["peer"] = Nil
  BY <1>1, AtStep
<1>3. owner \in Ids \cup {Nil}
  <2>1. Msg(w).target \in PostIds
    BY <1>2, MessageFields
  <2> QED
    BY <2>1 DEF IndInv, TypeOK, PostRecords
<1> HIDE DEF owner
<1>4. /\ st \in Workers /\ st.steps = worker[w].steps /\ st.name = worker[w].name
      /\ st.id["self"] = worker[w].id["self"]
  BY <1>2, <1>3 DEF Workers, Roles
<1> HIDE DEF st
<1>5. NamesOwned(st)
  BY <1>2, <1>4 DEF NamesOwned, KeyInv, Roles
<1> QED
  BY <1>1, <1>4, <1>5, LocalContinues

LEMMA ReadUuidContinues ==
    ASSUME IndInv, KeyInv, NEW w \in Jobs, ReadUuid(w)
    PROVE  Continues(w)
<1> DEFINE p    == post[Msg(w).target]
           uuid == IF p = Nil THEN Nil ELSE p.uuid
           st   == [worker[w] EXCEPT !.uuid = uuid]
<1>1. At(w, "Uuid") /\ GoOn(w, st)
  BY DEF ReadUuid
<1>2. worker[w] \in Workers /\ Msg(w) \in Messages /\ Msg(w).kind \in {"like", "comment"}
  BY <1>1, AtStep
<1>3. uuid \in Uuids \cup {Nil}
  <2>1. Msg(w).target \in PostIds
    BY <1>2, MessageFields
  <2> QED
    BY <2>1 DEF IndInv, TypeOK, PostRecords
<1> HIDE DEF uuid
<1>4. /\ st \in Workers /\ st.steps = worker[w].steps
      /\ st.name = worker[w].name /\ st.id = worker[w].id
  BY <1>2, <1>3 DEF Workers
<1> HIDE DEF st
<1>5. NamesOwned(st)
  BY <1>4 DEF NamesOwned, KeyInv
<1> QED
  BY <1>1, <1>4, <1>5, LocalContinues

\* Writing the record of an account: its creation on the chain is next.
LEMMA SetAccountContinues ==
    ASSUME IndInv, KeyInv, NEW w \in Jobs, At(w, "SetAccount"), WriteRedis(w)
    PROVE  Continues(w)
<1>1. /\ worker[w] \in Workers /\ NewKey(w) \in Keys /\ Role(w) \in Roles
      /\ Id(w) \in Ids /\ JobOf(Id(w)) = w
  BY AtStep, NewKeyType, AtOwned
<1>2. PICK key \in Keys : key = NewKey(w)
  BY <1>1
<1> DEFINE st == [worker[w] EXCEPT !.fresh = key]
<1>3. GoOn(w, st)
  BY <1>2 DEF WriteRedis
<1>4. /\ st \in Workers /\ st.steps = worker[w].steps
      /\ st.name = worker[w].name /\ st.id = worker[w].id /\ st.fresh = key
  BY <1>1 DEF Workers
<1> HIDE DEF st
<1>5. NamesOwned(st)
  BY <1>4 DEF NamesOwned, KeyInv
<1>6. account'[Id(w)] = [name |-> Name(w), key |-> key]
  <2>1. account' = [account EXCEPT ![Id(w)] = [name |-> Name(w), key |-> NewKey(w)]]
    BY DEF WriteRedis, Write, At
  <2> QED
    BY <1>1, <1>2, <2>1 DEF IndInv, TypeOK
<1> QED
  BY <1>1, <1>3, <1>4, <1>5, <1>6, GoOnContinues DEF Id, Name

LEMMA QueryContinues ==
    ASSUME IndInv, KeyInv, OwnAccounts, NEW w \in Jobs, QueryChain(w)
    PROVE  Continues(w)
<1>1. At(w, "Exist")
  BY DEF QueryChain
<1>2. CASE chainKey[Name(w)] # Nil
  BY <1>1, <1>2, PlainContinues DEF QueryChain
<1>3. CASE chainKey[Name(w)] = Nil
  <2>1. /\ worker[w] \in Workers /\ worker[w].steps # <<>>
        /\ Head(worker[w].steps) = <<"Exist", Role(w)>> /\ Role(w) \in Roles
    BY <1>1, AtStep
  <2>2. PICK x \in Roles : x = Role(w)
    BY <2>1
  <2> DEFINE s  == worker[w].steps
             t  == createAccount(x) \o Tail(s)
             st == [worker[w] EXCEPT !.steps = t]
  <2>3. s \in Seq(Steps) /\ CreateNext(s)
    BY <2>1 DEF Workers, KeyInv, CreateOK
  <2>4. CreateNext(t) /\ Head(t) = <<"SetAccount", x>>
    BY <2>1, <2>2, <2>3, CreateCreates
  <2>5. st.steps = t /\ st.name = worker[w].name /\ st.id = worker[w].id
    BY <2>1 DEF Workers
  <2>6. Become(w, st)
    BY <1>3, <2>2 DEF QueryChain
  <2> HIDE DEF s, t, st
  <2>7. worker'[w] = st
    BY <2>6, BecomeIs
  <2>8. chainKey[st.name[x]] = Nil /\ JobOf(st.id[x]) = w
    BY <1>1, <1>3, <2>2, <2>5 DEF OwnAccounts, Name, Id
  <2>9. UNCHANGED chainKey
    BY DEF QueryChain, chainVars
  <2>10. \A y \in Roles : /\ ~Next1(st, "Create", y)
                          /\ Next1(st, "SetAccount", y) => y = x
    BY <2>4, <2>5 DEF Next1
  <2>11. CreateOK(w, st, account', chainKey')
    BY <2>4, <2>5, <2>8, <2>9, <2>10 DEF CreateOK
  <2>12. NamesOwned(st)
    BY <2>5 DEF NamesOwned, KeyInv
  <2> QED
    BY <2>7, <2>11, <2>12 DEF Continues
<1> QED
  BY <1>2, <1>3

LEMMA WorkContinues ==
    ASSUME "query" \notin FaultKinds, IndInv, KeyInv, OwnAccounts, NEW w \in Jobs, Work(w)
    PROVE  Continues(w)
<1>1. ~QueryFails(w)
  BY DEF QueryFails, Fault
<1>2. CASE RedisFails(w) \/ Call(w) \/ BroadcastFails(w)
  BY <1>2, IdleContinues DEF RedisFails, Call, BroadcastFails
<1>3. CASE WriteRedis(w)
  <2>1. CASE At(w, "SetAccount")
    BY <1>3, <2>1, SetAccountContinues
  <2>2. CASE ~At(w, "SetAccount")
    <3>1. PICK do \in {"Mark", "Unmark", "SavePost"} : At(w, do)
      BY <1>3, <2>2 DEF WriteRedis, Write
    <3>2. GoOn(w, worker[w])
      BY <1>3, <2>2 DEF WriteRedis
    <3> QED
      BY <3>1, <3>2, PlainContinues
  <2> QED
    BY <2>1, <2>2
<1>4. CASE CreateOnChain(w)
  <2>1. At(w, "Create")
    BY <1>4 DEF CreateOnChain
  <2>2. GoOn(w, worker[w]) \/ Abandon(w)
    BY <1>4 DEF CreateOnChain
  <2> QED
    BY <2>1, <2>2, PlainContinues, IdleContinues
<1>5. CASE Fund(w)
  BY <1>5, PlainContinues DEF Fund
<1> QED
  BY <1>1, <1>2, <1>3, <1>4, <1>5, ReadNameContinues, ReadKeyContinues, ReadOwnerContinues,
     ReadUuidContinues, QueryContinues DEF Work

-----------------------------------------------------------------------------
(* KeyInv is inductive.                                                     *)

LEMMA NamesKept ==
    ASSUME IndInv, [Next]_vars, NEW st, NamesOwned(st)
    PROVE  NamesOwned(st)'
  BY OwnedKept DEF NamesOwned

LEMMA ReqNamesKept ==
    ASSUME IndInv, [Next]_vars, KeyInv, NEW r \in Reqs, req'[r] = req[r]
    PROVE  ReqName(r)'
<1>1. ReqName(r)
  BY DEF KeyInv
<1> QED
  BY <1>1, OwnedKept DEF ReqName

\* The name that a handler gives a fake collector is the one of its account.
LEMMA ServerNames ==
    ASSUME IndInv, [Next]_vars, KeyInv, NEW r \in Reqs,
           Handle(r) \/ \E b \in Requests(r) : Arrive(r, b)
    PROVE  \A q \in Reqs : ReqName(q)'
<1> USE DEF IndInv, TypeOK
<1>1. \A q \in Reqs : req'[q] = req[q] => ReqName(q)'
  BY ReqNamesKept
<1>2. CASE \E b \in Requests(r) : Arrive(r, b)
  <2>1. PICK b \in Requests(r) : Arrive(r, b)
    BY <1>2
  <2>2. b.kind \notin FakeKinds /\ (b.kind = "account" => b.name = r)
    BY RequestType DEF Requests, Bodies, Body, Follows, AllKinds, FakeKinds
  <2>3. req' = [req EXCEPT ![r] = b]
    BY <2>1 DEF Arrive
  <2>4. ReqName(r)'
    BY <2>2, <2>3 DEF ReqName
  <2> QED
    BY <1>1, <2>3, <2>4
<1>3. CASE CheckPasses(r)
  <2>1. CASE Head(checks[r]) # "FakeName"
    BY <1>1, <1>3, <2>1 DEF CheckPasses
  <2>2. CASE Head(checks[r]) = "FakeName"
    <3>1. /\ Checking(r) /\ Passes("FakeName", req[r])
          /\ req' = [req EXCEPT ![r].name = account[req[r].id].name]
      BY <1>3, <2>2 DEF CheckPasses
    <3>2. req[r] \in Messages /\ req[r].kind \in FakeKinds
      BY <2>2, <3>1, AtCheck
    <3>3. PICK m \in Messages : m = req[r] /\ m.kind \in FakeKinds
      BY <3>2
    <3>4. m.id \in Ids /\ account[m.id] # Nil
      BY <3>1, <3>3, MessageFields DEF Passes
    <3>5. PICK n : n = account[m.id].name /\ Owned(n, m.id)
      BY <3>4 DEF KeyInv, RecordOK
    <3>6. req' = [req EXCEPT ![r] = [m EXCEPT !.name = n]]
      BY <3>1, <3>3, <3>5
    <3>7. DOMAIN m = {"kind", "id", "item", "target", "name"}
      BY DEF Messages, Bodies, Body, Follows
    <3>8. /\ [m EXCEPT !.name = n].kind = m.kind
          /\ [m EXCEPT !.name = n].name = n
          /\ [m EXCEPT !.name = n].id = m.id
      BY <3>7
    <3>9. req'[r].kind \in FakeKinds /\ req'[r].name = n /\ req'[r].id = m.id
      BY <3>3, <3>6, <3>8
    <3>10. Owned(n, m.id)'
      BY <3>5, OwnedKept
    <3>11. ReqName(r)'
      BY <3>9, <3>10 DEF ReqName, FakeKinds
    <3> QED
      BY <1>1, <3>6, <3>11
  <2> QED
    BY <2>1, <2>2
<1>4. CASE TurnsFake(r)
  <2>1. Checking(r) /\ Head(checks[r]) = "Target"
    BY <1>4 DEF TurnsFake
  <2>2. req[r] \in Messages /\ req[r].kind \in {"like", "comment"}
    BY <2>1, AtCheck
  <2>3. req[r].name = Nil
    BY <2>2, MessageName DEF FakeKinds
  <2>4. PICK m \in Messages : m = req[r] /\ m.kind \in {"like", "comment"}
    BY <2>2
  <2>5. req' = [req EXCEPT ![r] = [m EXCEPT !.kind = IF m.kind = "like" THEN "fakeLike"
                                                     ELSE "fakeComment"]]
    BY <1>4, <2>4 DEF TurnsFake
  <2>6. DOMAIN m = {"kind", "id", "item", "target", "name"}
    BY DEF Messages, Bodies, Body, Follows
  <2>7. req'[r].kind # "account" /\ req'[r].name = Nil
    BY <2>3, <2>4, <2>5, <2>6
  <2>8. ReqName(r)'
    BY <2>7 DEF ReqName
  <2> QED
    BY <1>1, <2>5, <2>8
<1>5. CASE UNCHANGED req
  BY <1>1, <1>5
<1> QED
  BY <1>2, <1>3, <1>4, <1>5 DEF Handle, CheckRefuses, CheckFails, Put

\* A message that a worker takes is on no channel any more.
LEMMA TakeTakes ==
    ASSUME IndInv, OrderInv, NEW w \in Jobs, Take(w), NEW r, r = Head(queue[w])
    PROVE  /\ r \in Reqs /\ OnQueue(r) /\ Taken(r)'
           /\ req[r] \in Messages /\ JobOf(req[r].id) = w
<1>1. /\ queue[w] \in Seq(Reqs) /\ queue[w] # <<>> /\ queue \in [Jobs -> Seq(Reqs)]
      /\ ticket \in [Reqs -> Nat]
  BY DEF Take, IndInv, TypeOK
<1>2. r \in Reqs /\ 1 \in DOMAIN queue[w] /\ r = queue[w][1]
  BY <1>1, HeadTailProperties, EmptySeq, LenProperties
<1>3. Accepted(r) /\ Ticketed(r, w) /\ OnQueue(r)
  BY <1>2 DEF IndInv, OrderInv, OnQueue
<1>4. req[r] \in Messages /\ JobOf(req[r].id) = w
  BY <1>2, <1>3 DEF Accepted, Ticketed, IndInv, TypeOK
<1>5. ~OnQueue(r)'
  <2> SUFFICES ASSUME NEW v \in Jobs, NEW k \in DOMAIN queue'[v], queue'[v][k] = r
               PROVE  FALSE
    BY DEF OnQueue
  <2>1. queue' = [queue EXCEPT ![w] = Tail(@)]
    BY DEF Take
  <2>2. CASE v = w
    <3>1. k + 1 \in DOMAIN queue[w] /\ queue[w][k + 1] = r /\ 1 < k + 1
      BY <1>1, <2>1, <2>2
    <3>2. ticket[queue[w][1]] < ticket[queue[w][k + 1]]
      BY <1>2, <3>1 DEF OrderInv
    <3> QED
      BY <1>1, <1>2, <3>1, <3>2
  <2>3. CASE v # w
    <3>1. k \in DOMAIN queue[v] /\ queue[v][k] = r
      BY <1>1, <2>1, <2>3
    <3>2. Ticketed(r, v)
      BY <3>1 DEF OrderInv
    <3> QED
      BY <1>4, <2>3, <3>2 DEF Ticketed
  <2> QED
    BY <2>2, <2>3
<1>6. Accepted(r)'
  BY <1>3 DEF Take, Accepted, unchangedByJob
<1> QED
  BY <1>2, <1>3, <1>4, <1>5, <1>6 DEF Taken

LEMMA TakeOwned ==
    ASSUME IndInv, [Next]_vars, OrderInv, KeyInv, NEW w \in Jobs, Take(w),
           NEW r, r = Head(queue[w]), NEW m, m = req[r]
    PROVE  /\ m.name # Nil => Owned(m.name, m.id)'
           /\ m.kind = "account" => chainKey[m.name] = Nil
<1>1. r \in Reqs /\ OnQueue(r) /\ Taken(r)' /\ m \in Messages
  BY TakeTakes
<1>2. /\ m.kind \in AllKinds \cup FakeKinds /\ ReqName(r) /\ m # Nil
      /\ m.kind \notin {"account"} \cup FakeKinds => m.name = Nil
  BY <1>1, MessageFields, MessageName, NilType DEF KeyInv
<1>3. UNCHANGED req
  BY DEF Take, unchangedByJob
<1>4. CASE m.kind = "account"
  <2>1. m.name = r
    BY <1>2, <1>4 DEF ReqName
  <2>2. Owned(r, m.id)'
    BY <1>1, <1>3, <1>4 DEF Owned
  <2>3. chainKey[r] = Nil
    BY <1>1 DEF KeyInv, Taken
  <2> QED
    BY <2>1, <2>2, <2>3
<1>5. CASE m.kind \in FakeKinds
  <2>1. m.name # Nil => Owned(m.name, m.id)
    BY <1>2, <1>5 DEF ReqName
  <2>2. m.kind # "account"
    BY <1>5 DEF FakeKinds
  <2> QED
    BY <2>1, <2>2, OwnedKept
<1> QED
  BY <1>2, <1>4, <1>5

LEMMA KeyTake ==
    ASSUME IndInv, [Next]_vars, OrderInv, KeyInv, NEW w \in Jobs, Take(w)
    PROVE  NamesOwned(worker[w])' /\ CreateOK(w, worker'[w], account', chainKey')
<1> DEFINE r  == Head(queue[w])
           st == [IdleWorker EXCEPT
                    !.cur = r, !.steps = StepsOf(req[r].kind),
                    !.id["self"] = req[r].id,
                    !.id["peer"] = IF req[r].kind \in {"follow", "unfollow"}
                                   THEN req[r].target ELSE Nil,
                    !.name["self"] = req[r].name]
<1>1. PICK m : m = req[r]
  OBVIOUS
<1>2. /\ m \in Messages /\ JobOf(m.id) = w
      /\ m.name # Nil => Owned(m.name, m.id)'
      /\ m.kind = "account" => chainKey[m.name] = Nil
  BY <1>1, TakeTakes, TakeOwned
<1>3. m.kind \in AllKinds \cup FakeKinds
  BY <1>2, MessageFields
<1>4. /\ st.steps = StepsOf(m.kind) /\ st.id["self"] = m.id
      /\ st.name["self"] = m.name /\ st.name["peer"] = Nil
  BY <1>1 DEF IdleWorker, Roles
<1>5. Become(w, st) /\ UNCHANGED chainKey
  BY DEF Take, chainVars
<1> HIDE DEF st
<1>6. worker'[w] = st
  BY <1>5, BecomeIs
<1>7. PICK v : v = st
  OBVIOUS
<1>8. NamesOwned(v)'
  BY <1>2, <1>4, <1>7 DEF NamesOwned, Roles
<1>9. \A x \in Roles : /\ ~Next1(st, "Create", x)
                       /\ Next1(st, "SetAccount", x) => m.kind = "account" /\ x = "self"
  BY <1>3, <1>4, ScriptCreates DEF Next1
<1>10. CreateNext(st.steps)
  BY <1>3, <1>4, ScriptCreates
<1>11. CreateOK(w, st, account', chainKey')
  BY <1>2, <1>4, <1>5, <1>9, <1>10 DEF CreateOK
<1> QED
  BY <1>6, <1>7, <1>8, <1>11 DEF NamesOwned

\* What is left to show of a step.
LEMMA KeyCarry ==
    ASSUME IndInv, [Next]_vars, \A i \in Ids : RecordOK(i, account', chainKey'),
           \A r \in Reqs : chainKey'[r] # Nil => Taken(r),
           \A r \in Reqs : ReqName(r)',
           \A v \in Jobs : /\ NamesOwned(worker[v])'
                           /\ CreateOK(v, worker'[v], account', chainKey')
    PROVE  KeyInv'
<1>1. \A i \in Ids : RecordOK(i, account, chainKey)'
  BY OwnedKept DEF RecordOK
<1>2. \A r \in Reqs : chainKey'[r] # Nil => Taken(r)'
  BY OwnedKept
<1> QED
  BY <1>1, <1>2 DEF KeyInv, CreateOK

\* A worker that a step does not touch.
LEMMA RestOwned ==
    ASSUME IndInv, [Next]_vars, KeyInv, NEW v \in Jobs, worker'[v] = worker[v]
    PROVE  NamesOwned(worker[v])'
<1>1. PICK st : st = worker[v] /\ NamesOwned(st)
  BY DEF KeyInv
<1>2. NamesOwned(st)'
  BY <1>1, NamesKept
<1> QED
  BY <1>1, <1>2 DEF NamesOwned

LEMMA KeyStep ==
    ASSUME "query" \notin FaultKinds
    PROVE  IndInv /\ OrderInv /\ KeyInv /\ OwnAccounts /\ [Next]_vars => KeyInv'
<1> SUFFICES ASSUME IndInv, OrderInv, KeyInv, OwnAccounts, [Next]_vars PROVE KeyInv'
  OBVIOUS
<1>1. /\ \A i \in Ids : RecordOK(i, account, chainKey)
      /\ \A r \in Reqs : chainKey[r] # Nil => Taken(r)
      /\ \A v \in Jobs : CreateOK(v, worker[v], account, chainKey)
  BY DEF KeyInv
<1>2. UNCHANGED req => \A r \in Reqs : ReqName(r)'
  BY ReqNamesKept
<1>3. ASSUME NEW r \in Reqs, Handle(r) \/ \E b \in Requests(r) : Arrive(r, b)
      PROVE  KeyInv'
  <2>1. UNCHANGED <<account, chainKey, worker>>
    BY <1>3, ServerKept DEF unchangedByServer
  <2>2. \A q \in Reqs : ReqName(q)'
    BY <1>3, ServerNames
  <2> QED
    BY <1>1, <2>1, <2>2, RestOwned, KeyCarry
<1>4. ASSUME NEW w \in Jobs, Take(w)
      PROVE  KeyInv'
  <2>1. UNCHANGED <<account, chainKey, req>> /\ OthersKept(w)
    BY <1>4, TakeRepairs DEF Take, redisVars, chainVars, unchangedByJob
  <2>2. \A v \in Jobs : /\ NamesOwned(worker[v])'
                        /\ CreateOK(v, worker'[v], account', chainKey')
    BY <1>1, <1>4, <2>1, KeyTake, RestOwned DEF OthersKept
  <2> QED
    BY <1>1, <1>2, <2>1, <2>2, KeyCarry
<1>5. ASSUME NEW w \in Jobs, Work(w)
      PROVE  KeyInv'
  <2>1. UNCHANGED req /\ OthersKept(w)
    BY <1>5, WorkProgress, WorkOK DEF unchangedByJob
  <2>2. Continues(w)
    BY <1>5, WorkContinues
  <2>3. NamesOwned(worker[w])'
    <3>1. PICK st : st = worker'[w] /\ NamesOwned(st)
      BY <2>2 DEF Continues
    <3>2. NamesOwned(st)'
      BY <3>1, NamesKept
    <3> QED
      BY <3>1, <3>2 DEF NamesOwned
  <2>4. ASSUME NEW v \in Jobs, v # w
        PROVE  /\ NamesOwned(worker[v])'
               /\ CreateOK(v, worker'[v], account', chainKey')
    <3>1. worker'[v] = worker[v]
      BY <2>1, <2>4 DEF OthersKept
    <3>2. CreateOK(v, worker[v], account', chainKey')
      BY <1>5, <2>4, OthersCreate
    <3> QED
      BY <3>1, <3>2, RestOwned
  <2>5. \A v \in Jobs : /\ NamesOwned(worker[v])'
                        /\ CreateOK(v, worker'[v], account', chainKey')
    BY <2>2, <2>3, <2>4 DEF Continues
  <2> QED
    BY <1>2, <1>5, <2>1, <2>5, WorkRecords, KeyCarry
<1>6. CASE Crash
  <2>1. UNCHANGED <<account, chainKey, req>>
    BY <1>6 DEF Crash, redisVars, chainVars
  <2>2. \A v \in Jobs : worker'[v] = IdleWorker
    BY <1>6 DEF Crash
  <2>3. \A v \in Jobs : CreateOK(v, worker'[v], account', chainKey')
    BY <2>2, IdleCreates
  <2>4. \A v \in Jobs : NamesOwned(worker[v])'
    BY <2>2 DEF NamesOwned, IdleWorker
  <2> QED
    BY <1>1, <1>2, <2>1, <2>3, <2>4, KeyCarry
<1>7. CASE UNCHANGED vars
  <2>1. UNCHANGED <<account, chainKey, req, worker>>
    BY <1>7 DEF vars
  <2> QED
    BY <1>1, <1>2, <2>1, RestOwned, KeyCarry
<1> QED
  BY <1>3, <1>4, <1>5, <1>6, <1>7 DEF Next

LEMMA KeyInit == Init => KeyInv
<1> SUFFICES ASSUME Init PROVE KeyInv
  OBVIOUS
<1>1. ASSUME NEW i \in Ids
      PROVE  RecordOK(i, account, chainKey)
  <2>1. account[i] = IF i \in Registered THEN [name |-> i, key |-> <<i, "self">>] ELSE Nil
    BY DEF Init
  <2>2. chainKey[i] = IF i \in Registered THEN <<i, "self">> ELSE Nil
    BY DEF Init, Names
  <2> QED
    BY <2>1, <2>2 DEF RecordOK, Owned
<1>2. \A r \in Reqs : chainKey[r] = Nil
  BY FreshNames, ConfigAssumption DEF Init, Names
<1>3. \A r \in Reqs : ReqName(r)
  BY DEF Init, ReqName
<1>4. \A w \in Jobs : worker[w] = IdleWorker
  BY DEF Init
<1> QED
  BY <1>1, <1>2, <1>3, <1>4, IdleCreates DEF KeyInv

\* The key pair recorded for an id is the one that the chain has for its
\* name, as long as a worker that finds an account missing is the one of the
\* account's user, and no failed query passes for a missing account: whatever
\* else fails, and wherever the process is stopped.
THEOREM KeysAgree ==
    ASSUME "query" \notin FaultKinds
    PROVE  Spec /\ []OwnAccounts => []KeyAgreement
<1>1. KeyInv => KeyAgreement
  BY DEF KeyInv, KeyAgreement, RecordOK
<1>2. IndInv /\ OrderInv /\ KeyInv /\ OwnAccounts /\ [Next]_vars => KeyInv'
  BY KeyStep
<1> QED
  BY <1>1, <1>2, InitOK, StepOK, OrderInit, OrderStep, KeyInit, PTL DEF Spec

\* With one worker the key pairs are never confused: it finishes the creation
\* of an account before it looks for another one.
THEOREM KeysAgreeOneWorker ==
    ASSUME "query" \notin FaultKinds, JobCount = 1
    PROVE  Spec => []KeyAgreement
<1>1. IndInv => OwnAccounts
  <2> SUFFICES ASSUME IndInv, NEW w \in Jobs, At(w, "Exist")
               PROVE  JobOf(Id(w)) = w
    BY DEF OwnAccounts
  <2>1. PICK i \in Ids : i = Id(w)
    BY AtStep
  <2>2. JobOf(i) \in Jobs
    BY JobOfType
  <2>3. \A v \in Jobs : v = 0
    BY DEF Jobs
  <2> QED
    BY <2>1, <2>2, <2>3
<1>2. Spec => []OwnAccounts
  BY <1>1, InitOK, StepOK, PTL DEF Spec
<1>3. Spec /\ []OwnAccounts => []KeyAgreement
  BY KeysAgree
<1> QED
  BY <1>2, <1>3, PTL

-----------------------------------------------------------------------------
(* When every user that a message refers to has an account to begin with,   *)
(* no worker finds one missing of another worker's user.                    *)

KnownPeers ==
    \/ Registered = Ids
    \/ /\ Kinds \cap {"post", "follow", "unfollow"} = {}
       /\ PostIds \cap CommentIds = {}

\* No account is made anew for an id that had one, and only the endpoints in
\* Kinds are used.
KnownReq(r) ==
    req[r] # Nil =>
        /\ req[r].kind = "account" /\ req[r].id \in Registered => checks[r] = <<"NewId">>
        /\ req[r].kind \in Kinds \cup FakeKinds

PeerInv ==
    /\ \A i \in Registered : account[i] # Nil /\ chainKey[i] # Nil
    /\ \A r \in Reqs : KnownReq(r)
    /\ \A p \in PostIds : post[p] # Nil => post[p].owner \in Registered
    /\ \A w \in Jobs : worker[w].id["peer"] \in Registered \cup {Nil}

LEMMA PeersOwn ==
    ASSUME IndInv, OrderInv, KeyInv, PeerInv
    PROVE  OwnAccounts
<1> SUFFICES ASSUME NEW w \in Jobs, At(w, "Exist"), chainKey[Name(w)] = Nil
             PROVE  JobOf(Id(w)) = w
  BY DEF OwnAccounts
<1>1. /\ Role(w) \in Roles /\ worker[w].cur # Nil /\ Msg(w).id = worker[w].id["self"]
  BY AtStep, NilType
<1>2. CASE Role(w) = "self"
  BY <1>1, <1>2 DEF OrderInv, Ticketed, Msg, Id
<1>3. CASE Role(w) = "peer"
  <2>1. PICK n, i : n = Name(w) /\ i = Id(w) /\ i \in Ids /\ Owned(n, i)
    BY AtOwned
  <2>2. i \in Registered
    BY <1>3, <2>1, NilType DEF PeerInv, Id
  <2>3. n # i
    BY <2>1, <2>2 DEF PeerInv
  <2>4. n \in Reqs /\ Taken(n) /\ req[n].kind = "account" /\ req[n].id = i
    BY <2>1, <2>3 DEF Owned
  <2>5. checks[n] = <<>> /\ req[n] # Nil
    BY <2>4 DEF Taken, Accepted
  <2>6. checks[n] = <<"NewId">>
    BY <2>2, <2>4, <2>5 DEF PeerInv, KnownReq
  <2> QED
    BY <2>5, <2>6
<1> QED
  BY <1>1, <1>2, <1>3 DEF Roles

\* Accounts stay where they are.
LEMMA AccountsStay ==
    ASSUME IndInv, [Next]_vars, NEW i \in Ids, account[i] # Nil
    PROVE  account'[i] # Nil
<1>1. ASSUME NEW w \in Jobs, Work(w)
      PROVE  account'[i] # Nil
  <2>1. CASE UNCHANGED account
    BY <2>1
  <2>2. CASE Records1(w)
    <3>1. At(w, "SetAccount")
      BY <2>2 DEF Records1
    <3>2. NewKey(w) \in Keys /\ Name(w) \in Names
      BY <3>1, NewKeyType, AtStep
    <3>3. PICK rec \in Records : rec = [name |-> Name(w), key |-> NewKey(w)]
      BY <3>2 DEF Records
    <3>4. account' = [account EXCEPT ![Id(w)] = rec]
      BY <2>2, <3>3 DEF Records1
    <3>5. rec # Nil
      BY ConfigAssumption
    <3> QED
      BY <3>4, <3>5 DEF IndInv, TypeOK
  <2> QED
    BY <1>1, <2>1, <2>2, WorkStores DEF Creates1
<1>2. ASSUME NEW r \in Reqs, Handle(r) \/ \E b \in Requests(r) : Arrive(r, b)
      PROVE  UNCHANGED account
  BY <1>2, ServerKept DEF unchangedByServer
<1> QED
  BY <1>1, <1>2 DEF Next, Take, Crash, redisVars, vars

LEMMA ServerKnown ==
    ASSUME IndInv, PeerInv, NEW r \in Reqs,
           Handle(r) \/ \E b \in Requests(r) : Arrive(r, b)
    PROVE  \A q \in Reqs : KnownReq(q)'
<1> USE DEF IndInv, TypeOK
<1>1. \A q \in Reqs : KnownReq(q)
  BY DEF PeerInv
<1>2. CASE UNCHANGED <<req, checks>>
  BY <1>1, <1>2 DEF KnownReq
<1>3. CASE \E b \in Requests(r) : Arrive(r, b)
  <2>1. PICK b \in Requests(r) : Arrive(r, b)
    BY <1>3
  <2>2. b.kind \in Kinds
    BY DEF Requests
  <2>3. /\ req' = [req EXCEPT ![r] = b]
        /\ checks' = [checks EXCEPT ![r] = ChecksOf(b.kind)]
    BY <2>1 DEF Arrive
  <2> QED
    BY <1>1, <2>2, <2>3 DEF KnownReq, ChecksOf, accountChecks
<1>4. CASE CheckPasses(r)
  <2>1. /\ Checking(r) /\ Passes(Head(checks[r]), req[r])
        /\ checks' = [checks EXCEPT ![r] = Tail(@)]
        /\ req' = req \/ req' = [req EXCEPT ![r].name = account[req[r].id].name]
    BY <1>4 DEF CheckPasses
  <2>2. PICK m \in Messages : m = req[r]
    BY <2>1, AtCheck
  <2>3. m.kind \in Kinds \cup FakeKinds /\ ~(m.kind = "account" /\ m.id \in Registered)
    <3>1. KnownReq(r) /\ req[r] # Nil
      BY <1>1, <2>1 DEF Checking
    <3>2. ASSUME m.kind = "account", m.id \in Registered
          PROVE  FALSE
      <4>1. checks[r] = <<"NewId">>
        BY <2>2, <3>1, <3>2 DEF KnownReq
      <4>2. account[m.id] = Nil
        BY <2>1, <2>2, <4>1 DEF Passes
      <4> QED
        BY <3>2, <4>2 DEF PeerInv
    <3> QED
      BY <2>2, <3>1, <3>2 DEF KnownReq
  <2>4. PICK n : req' = req \/ req' = [req EXCEPT ![r] = [m EXCEPT !.name = n]]
    BY <2>1, <2>2
  <2>5. DOMAIN m = {"kind", "id", "item", "target", "name"}
    BY DEF Messages, Bodies, Body, Follows
  <2>6. [m EXCEPT !.name = n].kind = m.kind /\ [m EXCEPT !.name = n].id = m.id
    BY <2>5
  <2>7. req'[r].kind = m.kind /\ req'[r].id = m.id
    BY <2>2, <2>4, <2>6
  <2>8. \A q \in Reqs \ {r} : req'[q] = req[q] /\ checks'[q] = checks[q]
    BY <2>1, <2>4
  <2> QED
    BY <1>1, <2>3, <2>7, <2>8 DEF KnownReq
<1>5. CASE TurnsFake(r)
  <2>1. Checking(r) /\ Head(checks[r]) = "Target"
    BY <1>5 DEF TurnsFake
  <2>2. PICK m \in Messages : m = req[r] /\ m.kind \in {"like", "comment"}
    BY <2>1, AtCheck
  <2>3. req' = [req EXCEPT ![r] = [m EXCEPT !.kind = IF m.kind = "like" THEN "fakeLike"
                                                     ELSE "fakeComment"]]
    BY <1>5, <2>2 DEF TurnsFake
  <2>4. DOMAIN m = {"kind", "id", "item", "target", "name"}
    BY DEF Messages, Bodies, Body, Follows
  <2>5. req'[r].kind \in FakeKinds /\ req'[r].kind # "account"
    BY <2>2, <2>3, <2>4 DEF FakeKinds
  <2>6. \A q \in Reqs \ {r} : req'[q] = req[q] /\ checks'[q] = checks[q]
    BY <1>5, <2>3 DEF TurnsFake
  <2> QED
    BY <1>1, <2>5, <2>6 DEF KnownReq
<1> QED
  BY <1>2, <1>3, <1>4, <1>5 DEF Handle, CheckRefuses, CheckFails, Put

\* A message that a worker has in hand, or next on its channel, is of a kind
\* that is used.
LEMMA KnownKinds ==
    ASSUME IndInv, PeerInv, KnownPeers, NEW r \in Reqs, req[r] \in Messages
    PROVE  /\ req[r].id \in Ids
           /\ Registered = Ids \/ req[r].kind \notin {"post", "follow", "unfollow"}
<1>1. req[r] # Nil /\ KnownReq(r)
  BY NilType DEF PeerInv
<1>2. req[r].id \in Ids
  BY MessageFields
<1>3. req[r].kind \in Kinds \cup FakeKinds
  BY <1>1 DEF KnownReq
<1> QED
  BY <1>2, <1>3 DEF KnownPeers, FakeKinds

\* The owner of a post has an account to begin with.
LEMMA OwnersKnown ==
    ASSUME IndInv, PeerInv, KnownPeers, NEW w \in Jobs, Work(w),
           NEW p \in PostIds, post'[p] # Nil
    PROVE  post'[p].owner \in Registered
<1>1. post[p] # Nil => post[p].owner \in Registered
  BY DEF PeerInv
<1>2. CASE UNCHANGED post
  BY <1>1, <1>2
<1>3. CASE Write(w) /\ At(w, "SavePost")
  <2>1. /\ Msg(w) \in Messages /\ Msg(w).kind \in {"post", "comment"}
        /\ worker[w].cur \in Reqs
    BY <1>3, AtStep
  <2>2. PICK m \in Messages : m = Msg(w)
    BY <2>1
  <2>3. m.id \in Ids /\ (Registered = Ids \/ m.kind \notin {"post", "follow", "unfollow"})
    BY <2>1, <2>2, KnownKinds DEF Msg
  <2>4. PICK u : u = worker[w].cur
    OBVIOUS
  <2>5. post' = [post EXCEPT ![m.item] = [owner |-> m.id, uuid |-> u]]
    BY <1>3, <2>2, <2>4 DEF Write, At
  <2>6. CASE m.item # p
    BY <1>1, <2>5, <2>6 DEF IndInv, TypeOK
  <2>7. CASE m.item = p
    <3>1. post'[p].owner = m.id
      BY <2>5, <2>7 DEF IndInv, TypeOK
    <3>2. CASE Registered = Ids
      BY <2>3, <3>1, <3>2
    <3>3. CASE Registered # Ids
      <4>1. m.kind = "comment" /\ PostIds \cap CommentIds = {}
        BY <2>1, <2>2, <2>3, <3>3 DEF KnownPeers
      <4>2. m.item \in CommentIds
        BY <4>1 DEF Messages, Bodies, Body, Follows
      <4> QED
        BY <2>7, <4>1, <4>2
    <3> QED
      BY <3>2, <3>3
  <2> QED
    BY <2>6, <2>7
<1>4. (Write(w) /\ At(w, "SavePost")) \/ UNCHANGED post
  BY DEF Work, ReadName, ReadKey, ReadOwner, ReadUuid, WriteRedis, RedisFails, Write,
     QueryChain, QueryFails, CreateOnChain, Fund, Call, BroadcastFails, redisVars
<1> QED
  BY <1>2, <1>3, <1>4

KnownPeer(st) == st.id["peer"] \in Registered \cup {Nil}

LEMMA BecomeKnown ==
    ASSUME IndInv, NEW w \in Jobs, NEW st \in Workers, KnownPeer(st),
           GoOn(w, st) \/ Abandon(w) \/ \E s : Become(w, [st EXCEPT !.steps = s])
    PROVE  KnownPeer(worker'[w])
<1>1. KnownPeer(IdleWorker)
  BY DEF KnownPeer, IdleWorker, Roles
<1>2. ASSUME NEW s
      PROVE  KnownPeer([st EXCEPT !.steps = s])
  BY DEF KnownPeer, Workers
<1>3. ASSUME NEW s, Become(w, [st EXCEPT !.steps = s])
      PROVE  KnownPeer(worker'[w])
  <2>1. PICK new : new = [st EXCEPT !.steps = s] /\ Become(w, new)
    BY <1>3
  <2>2. worker'[w] = new /\ KnownPeer(new)
    BY <1>2, <2>1, BecomeIs
  <2> QED
    BY <2>2
<1>4. ASSUME Abandon(w)
      PROVE  KnownPeer(worker'[w])
  <2>1. worker'[w] = IdleWorker
    BY <1>4, BecomeIs DEF Abandon
  <2> QED
    BY <1>1, <2>1
<1>5. CASE GoOn(w, st)
  <2>1. Abandon(w) \/ Become(w, [st EXCEPT !.steps = Tail(@)])
    BY <1>5 DEF GoOn, Abandon
  <2>2. PICK s : s = Tail(st.steps)
    OBVIOUS
  <2>3. [st EXCEPT !.steps = Tail(@)] = [st EXCEPT !.steps = s]
    BY <2>2
  <2> QED
    BY <1>3, <1>4, <2>1, <2>3
<1> QED
  BY <1>3, <1>4, <1>5

LEMMA WorkPeers ==
    ASSUME IndInv, PeerInv, NEW w \in Jobs, Work(w)
    PROVE  KnownPeer(worker'[w])
<1>1. worker[w] \in Workers /\ KnownPeer(worker[w])
  BY DEF IndInv, TypeOK, PeerInv, KnownPeer
<1>2. CASE ReadOwner(w)
  <2> DEFINE p     == post[Msg(w).target]
             owner == IF p = Nil THEN Nil ELSE p.owner
             st    == [worker[w] EXCEPT !.id["peer"] = owner]
  <2>1. At(w, "Owner") /\ GoOn(w, st)
    BY <1>2 DEF ReadOwner
  <2>2. Msg(w) \in Messages /\ Msg(w).kind \in {"like", "comment"}
    BY <2>1, AtStep
  <2>3. Msg(w).target \in PostIds
    BY <2>2, MessageFields
  <2>4. owner \in Registered \cup {Nil} /\ owner \in Ids \cup {Nil}
    BY <2>3, ConfigAssumption DEF PeerInv
  <2> HIDE DEF owner
  <2>5. st \in Workers /\ KnownPeer(st)
    BY <1>1, <2>4 DEF Workers, Roles, KnownPeer
  <2> HIDE DEF st
  <2> QED
    BY <2>1, <2>5, BecomeKnown
<1>3. ASSUME NEW st \in Workers, GoOn(w, st), st.id = worker[w].id
      PROVE  KnownPeer(worker'[w])
  BY <1>1, <1>3, BecomeKnown DEF KnownPeer
<1>4. CASE ReadName(w)
  <2>1. At(w, "Name") /\ Role(w) \in Roles
    BY <1>4, AtStep DEF ReadName
  <2>2. CASE Id(w) = Nil \/ account[Id(w)] = Nil
    BY <1>1, <1>4, <2>2, BecomeKnown DEF ReadName
  <2>3. CASE Id(w) # Nil /\ account[Id(w)] # Nil
    <3>1. PICK n : n = account[Id(w)].name
      OBVIOUS
    <3>2. Id(w) \in Ids
      BY <1>1, <2>1, <2>3 DEF Workers, Id
    <3>3. n \in Names
      BY <2>3, <3>1, <3>2, RecordTypes
    <3> DEFINE st == [worker[w] EXCEPT !.name[Role(w)] = n]
    <3>4. st \in Workers /\ st.id = worker[w].id
      BY <1>1, <2>1, <3>3 DEF Workers
    <3>5. GoOn(w, st)
      BY <1>4, <2>3, <3>1 DEF ReadName
    <3> HIDE DEF st
    <3> QED
      BY <1>3, <3>4, <3>5
  <2> QED
    BY <2>2, <2>3
<1>5. CASE ReadKey(w)
  <2>1. At(w, "Key") /\ Role(w) = "self"
    BY <1>5, AtStep DEF ReadKey
  <2>2. CASE account[Id(w)] = Nil
    BY <1>1, <1>5, <2>2, BecomeKnown DEF ReadKey
  <2>3. CASE account[Id(w)] # Nil
    <3>1. PICK key : key = account[Id(w)].key
      OBVIOUS
    <3>2. Id(w) \in Ids
      BY <2>1, AtStep, MessageFields DEF Id
    <3>3. key \in Keys
      BY <2>3, <3>1, <3>2, RecordTypes
    <3> DEFINE st == [worker[w] EXCEPT !.key = key]
    <3>4. st \in Workers /\ st.id = worker[w].id
      BY <1>1, <3>3 DEF Workers
    <3>5. GoOn(w, st)
      BY <1>5, <2>3, <3>1 DEF ReadKey
    <3> HIDE DEF st
    <3> QED
      BY <1>3, <3>4, <3>5
  <2> QED
    BY <2>2, <2>3
<1>6. CASE ReadUuid(w)
  <2> DEFINE p    == post[Msg(w).target]
             uuid == IF p = Nil THEN Nil ELSE p.uuid
             st   == [worker[w] EXCEPT !.uuid = uuid]
  <2>1. At(w, "Uuid") /\ GoOn(w, st)
    BY <1>6 DEF ReadUuid
  <2>2. Msg(w) \in Messages /\ Msg(w).kind \in {"like", "comment"}
    BY <2>1, AtStep
  <2>3. Msg(w).target \in PostIds
    BY <2>2, MessageFields
  <2>4. uuid \in Uuids \cup {Nil}
    BY <2>3 DEF IndInv, TypeOK, PostRecords
  <2> HIDE DEF uuid
  <2>5. st \in Workers /\ st.id = worker[w].id
    BY <1>1, <2>4 DEF Workers
  <2> HIDE DEF st
  <2> QED
    BY <1>3, <2>1, <2>5
<1>7. CASE WriteRedis(w)
  <2>1. CASE At(w, "SetAccount")
    <3>1. PICK key \in Keys : key = NewKey(w)
      BY <2>1, NewKeyType
    <3> DEFINE st == [worker[w] EXCEPT !.fresh = key]
    <3>2. st \in Workers /\ st.id = worker[w].id
      BY <1>1 DEF Workers
    <3>3. GoOn(w, st)
      BY <1>7, <2>1, <3>1 DEF WriteRedis
    <3> HIDE DEF st
    <3> QED
      BY <1>3, <3>2, <3>3
  <2>2. CASE ~At(w, "SetAccount")
    BY <1>1, <1>3, <1>7, <2>2 DEF WriteRedis
  <2> QED
    BY <2>1, <2>2
<1>8. CASE RedisFails(w) \/ CreateOnChain(w) \/ Fund(w) \/ Call(w) \/ BroadcastFails(w)
  <2>1. GoOn(w, worker[w]) \/ Abandon(w)
    BY <1>8 DEF RedisFails, CreateOnChain, Fund, Call, BroadcastFails
  <2> QED
    BY <1>1, <2>1, BecomeKnown
<1>9. CASE QueryChain(w) \/ QueryFails(w)
  <2>1. PICK s : s = createAccount(Role(w)) \o Tail(worker[w].steps)
    OBVIOUS
  <2>2. GoOn(w, worker[w]) \/ Become(w, [worker[w] EXCEPT !.steps = s])
    BY <1>9, <2>1 DEF QueryChain, QueryFails
  <2> QED
    BY <1>1, <2>2, BecomeKnown
<1> QED
  BY <1>2, <1>4, <1>5, <1>6, <1>7, <1>8, <1>9 DEF Work

LEMMA TakePeers ==
    ASSUME IndInv, OrderInv, PeerInv, KnownPeers, NEW w \in Jobs, Take(w)
    PROVE  KnownPeer(worker'[w])
<1>1. PICK r : r = Head(queue[w])
  OBVIOUS
<1>2. r \in Reqs /\ req[r] \in Messages
  BY <1>1, TakeTakes
<1>3. PICK m \in Messages : m = req[r]
  BY <1>2
<1> DEFINE peer == IF m.kind \in {"follow", "unfollow"} THEN m.target ELSE Nil
           st   == [IdleWorker EXCEPT
                      !.cur = r, !.steps = StepsOf(m.kind), !.id["self"] = m.id,
                      !.id["peer"] = peer, !.name["self"] = m.name]
<1>4. peer \in Registered \cup {Nil}
  <2>1. Registered = Ids \/ m.kind \notin {"post", "follow", "unfollow"}
    BY <1>2, <1>3, KnownKinds
  <2> QED
    BY <2>1, MessageFields
<1>5. Become(w, st)
  BY <1>1, <1>3 DEF Take
<1> HIDE DEF peer
<1>6. st.id["peer"] = peer
  BY DEF IdleWorker, Roles
<1> HIDE DEF st
<1>7. worker'[w] = st
  BY <1>5, BecomeIs
<1> QED
  BY <1>4, <1>6, <1>7 DEF KnownPeer

LEMMA PeerStep ==
    ASSUME KnownPeers
    PROVE  IndInv /\ OrderInv /\ PeerInv /\ [Next]_vars => PeerInv'
<1> SUFFICES ASSUME IndInv, OrderInv, PeerInv, [Next]_vars PROVE PeerInv'
  OBVIOUS
<1>1. /\ \A r \in Reqs : KnownReq(r)
      /\ \A p \in PostIds : post[p] # Nil => post[p].owner \in Registered
      /\ \A w \in Jobs : KnownPeer(worker[w])
  BY DEF PeerInv, KnownPeer
<1>2. \A i \in Registered : account'[i] # Nil /\ chainKey'[i] # Nil
  <2>1. \A i \in Registered : i \in Ids /\ i \in Names /\ account[i] # Nil /\ chainKey[i] # Nil
    BY ConfigAssumption DEF PeerInv, Names
  <2> QED
    BY <2>1, AccountsStay, StepKeeps DEF Kept, Grows
<1>3. ASSUME \A r \in Reqs : KnownReq(r)',
             \A p \in PostIds : post'[p] # Nil => post'[p].owner \in Registered,
             \A w \in Jobs : KnownPeer(worker'[w])
      PROVE  PeerInv'
  BY <1>2, <1>3 DEF PeerInv, KnownPeer
<1>4. UNCHANGED <<req, checks>> => \A r \in Reqs : KnownReq(r)'
  BY <1>1 DEF KnownReq
<1>5. ASSUME NEW r \in Reqs, Handle(r) \/ \E b \in Requests(r) : Arrive(r, b)
      PROVE  PeerInv'
  <2>1. UNCHANGED <<post, worker>>
    BY <1>5, ServerKept DEF unchangedByServer
  <2>2. \A q \in Reqs : KnownReq(q)'
    BY <1>5, ServerKnown
  <2> QED
    BY <1>1, <1>3, <2>1, <2>2
<1>6. ASSUME NEW w \in Jobs, Take(w)
      PROVE  PeerInv'
  <2>1. UNCHANGED <<post, req, checks>> /\ OthersKept(w)
    BY <1>6, TakeRepairs DEF Take, redisVars, unchangedByJob
  <2>2. \A v \in Jobs : KnownPeer(worker'[v])
    BY <1>1, <1>6, <2>1, TakePeers DEF OthersKept
  <2> QED
    BY <1>1, <1>3, <1>4, <2>1, <2>2
<1>7. ASSUME NEW w \in Jobs, Work(w)
      PROVE  PeerInv'
  <2>1. UNCHANGED <<req, checks>> /\ OthersKept(w)
    BY <1>7, WorkProgress, WorkOK DEF unchangedByJob
  <2>2. \A v \in Jobs : KnownPeer(worker'[v])
    BY <1>1, <1>7, <2>1, WorkPeers DEF OthersKept
  <2>3. \A p \in PostIds : post'[p] # Nil => post'[p].owner \in Registered
    BY <1>7, OwnersKnown
  <2> QED
    BY <1>3, <1>4, <2>1, <2>2, <2>3
<1>8. CASE Crash
  <2>1. UNCHANGED <<post, req, checks>> /\ \A w \in Jobs : worker'[w] = IdleWorker
    BY <1>8 DEF Crash, redisVars
  <2>2. KnownPeer(IdleWorker)
    BY DEF KnownPeer, IdleWorker, Roles
  <2> QED
    BY <1>1, <1>3, <1>4, <2>1, <2>2
<1>9. CASE UNCHANGED vars
  <2>1. UNCHANGED <<post, req, checks, worker>>
    BY <1>9 DEF vars
  <2> QED
    BY <1>1, <1>3, <1>4, <2>1
<1> QED
  BY <1>5, <1>6, <1>7, <1>8, <1>9 DEF Next

LEMMA PeerInit == Init => PeerInv
<1> SUFFICES ASSUME Init PROVE PeerInv
  OBVIOUS
<1>1. ASSUME NEW i \in Registered
      PROVE  account[i] # Nil /\ chainKey[i] # Nil
  <2>1. i \in Ids /\ i \in Names /\ <<i, "self">> \in Keys
    BY ConfigAssumption DEF Names, Keys, Roles
  <2>2. PICK rec \in Records : rec = [name |-> i, key |-> <<i, "self">>]
    BY <2>1 DEF Records
  <2>3. account[i] = rec /\ chainKey[i] = <<i, "self">>
    BY <2>1, <2>2 DEF Init
  <2> QED
    BY <2>1, <2>2, <2>3, ConfigAssumption
<1>2. ASSUME NEW p \in PostIds, post[p] # Nil
      PROVE  post[p].owner \in Registered
  <2>1. post[p] = [owner |-> Published[p], uuid |-> p] /\ Published[p] # Nil
    BY <1>2 DEF Init
  <2>2. Published[p] \in Registered \cup {Nil}
    BY ConfigAssumption
  <2> QED
    BY <2>1, <2>2
<1>3. \A r \in Reqs : KnownReq(r)
  BY DEF Init, KnownReq
<1>4. \A w \in Jobs : worker[w].id["peer"] = Nil
  BY DEF Init, IdleWorker, Roles
<1> QED
  BY <1>1, <1>2, <1>3, <1>4 DEF PeerInv

\* The key pairs are never confused either, with any number of workers, when
\* every user that others refer to has an account to begin with: an account
\* is then only made for the user whose message asks for it, by the one worker
\* that has all messages of this user.
THEOREM KeysAgreeKnownPeers ==
    ASSUME "query" \notin FaultKinds, KnownPeers
    PROVE  Spec => []KeyAgreement
<1> DEFINE Inv == IndInv /\ OrderInv /\ KeyInv /\ PeerInv
<1>1. Init => Inv
  BY InitOK, OrderInit, KeyInit, PeerInit
<1>2. Inv /\ [Next]_vars => Inv'
  <2> SUFFICES ASSUME Inv, [Next]_vars PROVE Inv'
    OBVIOUS
  <2>1. OwnAccounts
    BY PeersOwn
  <2>2. IndInv' /\ OrderInv'
    BY StepOK, OrderStep
  <2>3. KeyInv' /\ PeerInv'
    BY <2>1, KeyStep, PeerStep
  <2> QED
    BY <2>2, <2>3
<1>3. Inv => KeyAgreement
  BY DEF KeyInv, KeyAgreement, RecordOK
<1> QED
  BY <1>1, <1>2, <1>3, PTL DEF Spec

=============================================================================
