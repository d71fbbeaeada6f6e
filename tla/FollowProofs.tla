---------------------------- MODULE FollowProofs ----------------------------
(***************************************************************************)
(* Redis and the chain on who follows whom.  The two are written by        *)
(* different steps of a worker, so that they agree about a pair unless it  *)
(* is in work, or a worker has given up a follow or unfollow on the way.   *)
(***************************************************************************)
EXTENDS RepairProofs

Pairs == {"follow", "unfollow"}

\* No worker drops a follow or unfollow but with a call that the chain accepts.
Served ==
    \A w \in Jobs :
        worker[w].cur # Nil /\ Msg(w).kind \in Pairs /\ worker'[w].cur = Nil =>
            ledger' # ledger

\* The places in ledger f of what was done about following j, where rq has
\* the requests; the last of it; and that there is a last one.
OpsIn(f, rq, j) ==
    {k \in DOMAIN f : f[k].op \in Pairs /\ rq[f[k].req].target = j}

IsLast(k, of) == k \in of /\ \A l \in of : l <= k

LastOf(f, rq, j) ==
    IF OpsIn(f, rq, j) = {} THEN "unfollow"
    ELSE f[CHOOSE k \in OpsIn(f, rq, j) : \A l \in OpsIn(f, rq, j) : l <= k].op

HasLast(f, rq, j) ==
    OpsIn(f, rq, j) # {} => \E k \in DOMAIN f : IsLast(k, OpsIn(f, rq, j))

\* Redis, with the unique keys marks, and ledger f of i agree about j.
Agree(marks, f, rq, i, j) ==
    <<"follow", i, j>> \in marks <=> LastOf(f, rq, j) = "follow"

\* The unique key is as message m wants it.
Written(m, marks) == UniqueKey(m) \in marks <=> m.kind = "follow"

\* What a worker does to the unique key, and that it has yet to do so
\* before it broadcasts.
WriteOf(kind) == IF kind = "follow" THEN <<"Mark", "self">> ELSE <<"Unmark", "self">>

Due(s, e) == \A k \in DOMAIN s : s[k][1] = "Call" => Before(s, k, e)

\* Worker state st, in the middle of the follow or unfollow m.
PairOK(st, m, marks, f, rq) ==
    m.kind \in Pairs =>
        \/ Written(m, marks)
        \/ Agree(marks, f, rq, m.id, m.target) /\ Due(st.steps, WriteOf(m.kind))

FollowInv ==
    /\ \A i, j \in Ids : HasLast(ledger[i], req, j)
    /\ \A i, j \in Ids : ~Serving(JobOf(i), i, j) => Agree(marker, ledger[i], req, i, j)
    /\ \A w \in Jobs : worker[w].cur # Nil =>
          PairOK(worker[w], Msg(w), marker, ledger[Msg(w).id], req)

-----------------------------------------------------------------------------
(* The last entry about a pair.                                             *)

LEMMA LastOpIs == \A i, j \in Ids : LastOp(i, j) = LastOf(ledger[i], req, j)
  BY DEF LastOp, LastOf, OpsIn, Pairs

LEMMA LastIs ==
    ASSUME NEW f, NEW rq, NEW j, NEW k \in Int, IsLast(k, OpsIn(f, rq, j)),
           DOMAIN f \subseteq Int
    PROVE  LastOf(f, rq, j) = f[k].op
<1> DEFINE of == OpsIn(f, rq, j)
<1>1. of \subseteq Int /\ k \in of /\ \A l \in of : l <= k
  BY DEF IsLast, OpsIn
<1> DEFINE last == CHOOSE l \in of : \A n \in of : n <= l
<1>2. last \in of /\ \A n \in of : n <= last
  BY <1>1
<1>3. last <= k /\ k <= last /\ last \in Int
  BY <1>1, <1>2
<1>4. last = k
  BY ONLY <1>3, k \in Int
<1>5. LastOf(f, rq, j) = f[last].op
  BY <1>1 DEF LastOf
<1> QED
  BY <1>4, <1>5

\* Only the requests that a ledger refers to matter.
LEMMA LastSame ==
    ASSUME NEW f, NEW rq, NEW next, NEW j,
           \A k \in DOMAIN f : next[f[k].req] = rq[f[k].req]
    PROVE  /\ HasLast(f, rq, j) => HasLast(f, next, j)
           /\ LastOf(f, next, j) = LastOf(f, rq, j)
<1>1. OpsIn(f, next, j) = OpsIn(f, rq, j)
  BY DEF OpsIn
<1> QED
  BY <1>1 DEF HasLast, LastOf

\* An entry about j becomes the last one, any other changes nothing.
LEMMA LastAppend ==
    ASSUME NEW f \in Seq(Entries), NEW e \in Entries, NEW rq, NEW j, HasLast(f, rq, j)
    PROVE  /\ HasLast(Append(f, e), rq, j)
           /\ e.op \in Pairs /\ rq[e.req].target = j => LastOf(Append(f, e), rq, j) = e.op
           /\ ~(e.op \in Pairs /\ rq[e.req].target = j) =>
                 LastOf(Append(f, e), rq, j) = LastOf(f, rq, j)
<1> DEFINE g  == Append(f, e)
           n  == Len(f) + 1
           of == OpsIn(f, rq, j)
           og == OpsIn(g, rq, j)
<1>1. /\ g \in Seq(Entries) /\ Len(g) = n /\ Len(f) \in Nat
      /\ \A l \in 1 .. Len(f) : g[l] = f[l]
      /\ g[n] = e
      /\ DOMAIN f = 1 .. Len(f)
  BY AppendProperties, LenProperties
<1> HIDE DEF g
<1>2. /\ DOMAIN g = 1 .. n /\ DOMAIN f \subseteq Int /\ DOMAIN g \subseteq Int
      /\ n \in DOMAIN g /\ n \in Int /\ DOMAIN f \subseteq DOMAIN g
  <2>1. DOMAIN g = 1 .. n
    BY <1>1, LenProperties
  <2>2. Len(f) \in Nat /\ DOMAIN f = 1 .. Len(f)
    BY <1>1
  <2> QED
    BY ONLY <2>1, <2>2
<1>3. CASE e.op \in Pairs /\ rq[e.req].target = j
  <2>1. n \in og
    BY <1>1, <1>2, <1>3 DEF OpsIn
  <2>2. \A l \in og : l <= n
    BY <1>1, <1>2 DEF OpsIn
  <2>3. IsLast(n, og)
    BY <2>1, <2>2 DEF IsLast
  <2>4. LastOf(g, rq, j) = g[n].op
    BY <1>2, <2>3, LastIs
  <2>5. HasLast(g, rq, j)
    BY <1>2, <2>3 DEF HasLast
  <2> QED
    BY <1>1, <1>3, <2>4, <2>5 DEF g
<1>4. CASE ~(e.op \in Pairs /\ rq[e.req].target = j)
  <2>1. og = of
    <3>1. n \notin og
      BY <1>1, <1>4 DEF OpsIn
    <3>2. \A k \in DOMAIN f : g[k] = f[k]
      BY <1>1
    <3>3. \A k \in DOMAIN g : k \in DOMAIN f \/ k = n
      BY <1>1, <1>2
    <3> QED
      BY <1>2, <3>1, <3>2, <3>3 DEF OpsIn
  <2>2. HasLast(g, rq, j)
    BY <1>2, <2>1 DEF HasLast
  <2>3. LastOf(g, rq, j) = LastOf(f, rq, j)
    <3>1. CASE of = {}
      BY <2>1, <3>1 DEF LastOf
    <3>2. CASE of # {}
      <4>1. PICK k \in DOMAIN f : IsLast(k, of)
        BY <3>2 DEF HasLast
      <4>2. LastOf(f, rq, j) = f[k].op
        BY <1>2, <4>1, LastIs
      <4>3. LastOf(g, rq, j) = g[k].op
        BY <1>2, <2>1, <4>1, LastIs
      <4> QED
        BY <1>1, <4>2, <4>3
    <3> QED
      BY <3>1, <3>2
  <2> QED
    BY <1>4, <2>2, <2>3 DEF g
<1> QED
  BY <1>3, <1>4

-----------------------------------------------------------------------------
(* What a worker has yet to do.                                             *)

LEMMA ScriptDue ==
    \A kind \in Pairs : Due(StepsOf(kind), WriteOf(kind))
<1> USE DEF Due, WriteOf, Pairs, Before, S, P, StepsOf
<1>1. Due(StepsOf("follow"), WriteOf("follow"))
  BY DEF processFollowMsg
<1>2. Due(StepsOf("unfollow"), WriteOf("unfollow"))
  BY DEF processUnfollowMsg
<1> QED
  BY <1>1, <1>2

LEMMA TailDue ==
    ASSUME NEW s \in Seq(Steps), s # <<>>, NEW e, Head(s) # e, Due(s, e)
    PROVE  Due(Tail(s), e)
<1>1. /\ Len(s) \in Nat \ {0} /\ DOMAIN Tail(s) = 1 .. Len(s) - 1
      /\ \A k \in 1 .. Len(s) - 1 : Tail(s)[k] = s[k + 1]
      /\ DOMAIN s = 1 .. Len(s)
  BY TailSteps, LenProperties
<1> SUFFICES ASSUME NEW k \in 1 .. Len(s) - 1, Tail(s)[k][1] = "Call"
             PROVE  Before(Tail(s), k, e)
  BY <1>1 DEF Due
<1>2. k + 1 \in 1 .. Len(s)
  BY ONLY <1>1, k \in 1 .. Len(s) - 1
<1>3. Before(s, k + 1, e)
  BY <1>1, <1>2 DEF Due
<1> QED
  BY <1>3, BeforeTail

LEMMA CreateDue ==
    ASSUME NEW s \in Seq(Steps), s # <<>>, NEW role \in Roles,
           Head(s) = <<"Exist", role>>, NEW e, e[1] # "Exist", Due(s, e)
    PROVE  Due(createAccount(role) \o Tail(s), e)
<1> DEFINE t == createAccount(role) \o Tail(s)
<1>1. /\ Len(s) \in Nat \ {0} /\ DOMAIN s = 1 .. Len(s)
  BY TailSteps, LenProperties
<1>2. /\ DOMAIN t = 1 .. Len(s) + 1
      /\ t[1] = <<"SetAccount", role>> /\ t[2] = <<"Create", role>>
      /\ \A k \in 2 .. Len(s) : t[k + 1] = s[k]
  BY CreateSteps
<1>3. \A k \in 2 .. Len(s) : Before(s, k, e) => Before(t, k + 1, e)
  BY BeforeCreate
<1> HIDE DEF t
<1> SUFFICES ASSUME NEW k \in DOMAIN t, t[k][1] = "Call"
             PROVE  Before(t, k, e)
  BY DEF Due, t
<1>4. k # 1 /\ k # 2
  BY <1>2
<1>5. k - 1 \in 2 .. Len(s) /\ k - 1 \in 1 .. Len(s) /\ (k - 1) + 1 = k
  BY <1>1, <1>2, <1>4
<1>6. Before(s, k - 1, e)
  BY <1>1, <1>2, <1>5 DEF Due
<1> QED
  BY <1>3, <1>5, <1>6

-----------------------------------------------------------------------------
(* What a step of a worker does to the unique keys and to the ledger.       *)

Sets(w) ==
    /\ \/ At(w, "Mark") /\ marker' = marker \cup {UniqueKey(Msg(w))}
       \/ At(w, "Unmark") /\ marker' = marker \ {UniqueKey(Msg(w))}
    /\ UNCHANGED ledger

Sends(w) ==
    /\ At(w, "Call")
    /\ ledger' = [ledger EXCEPT ![Msg(w).id] = Append(@, Entry(w))]
    /\ UNCHANGED marker

LEMMA WorkWrites ==
    ASSUME IndInv, NEW w \in Jobs, Work(w)
    PROVE  /\ UNCHANGED req
           /\ UNCHANGED <<marker, ledger>> \/ Sets(w) \/ Sends(w)
<1>1. UNCHANGED req
  BY WorkOK DEF unchangedByJob
<1>2. CASE WriteRedis(w) \/ RedisFails(w)
  <2>1. UNCHANGED ledger
    BY <1>2 DEF WriteRedis, RedisFails, chainVars
  <2>2. Write(w) \/ UNCHANGED marker
    BY <1>2 DEF WriteRedis, RedisFails, redisVars
  <2>3. CASE Write(w)
    BY <1>1, <2>1, <2>3 DEF Write, Sets
  <2> QED
    BY <1>1, <2>1, <2>2, <2>3
<1>3. CASE Call(w)
  <2>1. At(w, "Call") /\ UNCHANGED marker /\ Id(w) = Msg(w).id
    BY <1>3, EntryType DEF Call, redisVars
  <2> QED
    BY <1>1, <1>3, <2>1 DEF Call, Sends
<1>4. CASE ~(WriteRedis(w) \/ RedisFails(w) \/ Call(w))
  <2>1. UNCHANGED <<marker, ledger>>
    BY <1>4 DEF Work, ReadName, ReadKey, ReadOwner, ReadUuid, QueryChain, QueryFails,
       CreateOnChain, Fund, BroadcastFails, redisVars, chainVars
  <2> QED
    BY <1>1, <2>1
<1> QED
  BY <1>2, <1>3, <1>4

\* Message m is about whether i follows j.
About(m, i, j) == m.kind \in Pairs /\ m.id = i /\ m.target = j

LEMMA PairKey ==
    ASSUME NEW m, NEW i, NEW j
    PROVE  /\ About(m, i, j) => UniqueKey(m) = <<"follow", i, j>>
           /\ UniqueKey(m) = <<"follow", i, j>> => About(m, i, j)
<1>1. CASE m.kind \in Pairs
  BY <1>1 DEF UniqueKey, Pairs, About
<1>2. CASE m.kind \notin Pairs
  <2>1. UniqueKey(m)[1] # "follow"
    BY <1>2 DEF UniqueKey, Pairs
  <2>2. UniqueKey(m) # <<"follow", i, j>>
    BY <2>1
  <2> QED
    BY <1>2, <2>2 DEF About
<1> QED
  BY <1>1, <1>2

\* A worker whose message is about something else does not disturb a pair.
LEMMA OthersAgree ==
    ASSUME IndInv, NEW w \in Jobs, Work(w), NEW i \in Ids, NEW j \in Ids,
           HasLast(ledger[i], req, j)
    PROVE  /\ HasLast(ledger'[i], req', j)
           /\ ~About(Msg(w), i, j) =>
                 /\ <<"follow", i, j>> \in marker' <=> <<"follow", i, j>> \in marker
                 /\ LastOf(ledger'[i], req', j) = LastOf(ledger[i], req, j)
<1>1. UNCHANGED req /\ (UNCHANGED <<marker, ledger>> \/ Sets(w) \/ Sends(w))
  BY WorkWrites
<1>2. UniqueKey(Msg(w)) = <<"follow", i, j>> => About(Msg(w), i, j)
  BY PairKey
<1>3. CASE UNCHANGED <<marker, ledger>>
  BY <1>1, <1>3
<1>4. CASE Sets(w)
  BY <1>1, <1>2, <1>4 DEF Sets
<1>5. CASE Sends(w)
  <2>1. Entry(w) \in Entries /\ Entry(w).req = worker[w].cur /\ Entry(w).op = Msg(w).kind
    BY <1>5, EntryType DEF Sends, Entry
  <2>2. ledger[i] \in Seq(Entries)
    BY DEF IndInv, TypeOK
  <2>3. PICK e \in Entries : e = Entry(w)
    BY <2>1
  <2>4. ledger'[i] = IF i = Msg(w).id THEN Append(ledger[i], e) ELSE ledger[i]
    BY <1>5, <2>3 DEF Sends, IndInv, TypeOK
  <2>5. CASE i = Msg(w).id
    <3>1. /\ HasLast(Append(ledger[i], e), req, j)
          /\ ~(e.op \in Pairs /\ req[e.req].target = j) =>
                LastOf(Append(ledger[i], e), req, j) = LastOf(ledger[i], req, j)
      BY <2>2, LastAppend
    <3>2. e.op \in Pairs /\ req[e.req].target = j => About(Msg(w), i, j)
      BY <2>1, <2>3, <2>5 DEF About, Msg
    <3> QED
      BY <1>1, <1>5, <2>4, <2>5, <3>1, <3>2 DEF Sends
  <2>6. CASE i # Msg(w).id
    BY <1>1, <1>5, <2>4, <2>6 DEF Sends
  <2> QED
    BY <2>5, <2>6
<1> QED
  BY <1>1, <1>3, <1>4, <1>5

-----------------------------------------------------------------------------
(* FollowInv is inductive, as long as no follow or unfollow is dropped.     *)

\* What the invariants say of the message in hand.
LEMMA InHand ==
    ASSUME IndInv, OrderInv, NEW w \in Jobs, worker[w].cur # Nil
    PROVE  /\ worker[w].cur \in Reqs /\ Accepted(worker[w].cur) /\ Msg(w) \in Messages
           /\ Msg(w).id \in Ids /\ JobOf(Msg(w).id) = w
           /\ Msg(w).kind \in Pairs => Msg(w).target \in Ids
<1>1. worker[w].cur \in Reqs /\ Accepted(worker[w].cur)
  BY Whereabouts
<1>2. Msg(w) \in Messages
  BY <1>1 DEF Accepted, Msg, IndInv, TypeOK
<1>3. JobOf(Msg(w).id) = w
  BY DEF OrderInv, Ticketed, Msg
<1> QED
  BY <1>1, <1>2, <1>3, MessageFields DEF Pairs

\* A step that touches neither the unique keys nor the ledgers.
LEMMA QuietAgrees ==
    ASSUME IndInv, RepairInv, Kept, UNCHANGED <<marker, ledger>>, NEW i \in Ids, NEW j
    PROVE  /\ HasLast(ledger[i], req, j) => HasLast(ledger'[i], req', j)
           /\ Agree(marker', ledger'[i], req', i, j) <=> Agree(marker, ledger[i], req, i, j)
<1>1. \A k \in DOMAIN ledger[i] : req'[ledger[i][k].req] = req[ledger[i][k].req]
  BY DEF RepairInv, Marked, Kept
<1> QED
  BY <1>1, LastSame DEF Agree

\* What the worker has done about its own pair.
LEMMA WorkPair ==
    ASSUME IndInv, OrderInv, FollowInv, NEW w \in Jobs, Work(w), Progress(w),
           worker[w].cur # Nil, worker'[w].cur # Nil, Msg(w).kind \in Pairs
    PROVE  PairOK(worker'[w], Msg(w), marker', ledger'[Msg(w).id], req')
<1> DEFINE m == Msg(w)
           e == WriteOf(m.kind)
<1>1. /\ worker[w] \in Workers /\ WorkerOK(worker[w])
      /\ PairOK(worker[w], m, marker, ledger[m.id], req)
  BY DEF IndInv, TypeOK, FollowInv
<1>2. worker[w].steps \in Seq(Steps) /\ worker[w].steps # <<>>
  BY <1>1 DEF Workers, WorkerOK
<1>3. worker'[w] # IdleWorker
  BY DEF IdleWorker
<1>4. UNCHANGED req /\ (UNCHANGED <<marker, ledger>> \/ Sets(w) \/ Sends(w))
  BY WorkWrites
<1>5. CASE Sets(w)
  <2>1. CASE At(w, "Mark")
    <3>1. m.kind = "follow"
      BY <2>1, AtStep DEF Pairs
    <3>2. marker' = marker \cup {UniqueKey(m)}
      BY <1>5, <2>1 DEF Sets, At
    <3> QED
      BY <3>1, <3>2 DEF PairOK, Written
  <2>2. CASE At(w, "Unmark")
    <3>1. m.kind = "unfollow"
      BY <2>2, AtStep
    <3>2. marker' = marker \ {UniqueKey(m)}
      BY <1>5, <2>2 DEF Sets, At
    <3> QED
      BY <3>1, <3>2 DEF PairOK, Written
  <2> QED
    BY <1>5, <2>1, <2>2 DEF Sets
<1>6. CASE Sends(w)
  <2>1. At(w, "Call")
    BY <1>6 DEF Sends
  <2>2. Call(w) \/ RedisFails(w) \/ BroadcastFails(w)
    BY <2>1 DEF Work, At, ReadName, ReadKey, ReadOwner, ReadUuid, WriteRedis, Write,
       QueryChain, QueryFails, CreateOnChain, Fund
  <2>3. Abandon(w)
    BY <2>2 DEF Call, RedisFails, BroadcastFails
  <2>4. worker'[w] = IdleWorker
    BY <2>3, BecomeIs DEF Abandon
  <2> QED
    BY <1>3, <2>4
<1>7. CASE UNCHANGED <<marker, ledger>> /\ ~Sets(w)
  <2>1. CASE Written(m, marker)
    BY <1>7, <2>1 DEF PairOK, Written
  <2>2. CASE ~Written(m, marker)
    <3>1. Agree(marker, ledger[m.id], req, m.id, m.target) /\ Due(worker[w].steps, e)
      BY <1>1, <2>2 DEF PairOK
    <3>2. Agree(marker', ledger'[m.id], req', m.id, m.target)
      BY <1>4, <1>7, <3>1
    <3>3. Head(worker[w].steps) # e
      <4> SUFFICES ASSUME Head(worker[w].steps) = e PROVE FALSE
        OBVIOUS
      <4>1. At(w, "Mark") \/ At(w, "Unmark")
        BY <1>2 DEF At, Step, WriteOf
      <4>2. WriteRedis(w) \/ RedisFails(w)
        BY <4>1 DEF Work, At, ReadName, ReadKey, ReadOwner, ReadUuid,
           QueryChain, QueryFails, CreateOnChain, Fund, Call, BroadcastFails
      <4>3. ~RedisFails(w)
        BY <1>3, BecomeIs DEF RedisFails, Abandon
      <4>4. WriteRedis(w)
        BY <4>2, <4>3
      <4>5. Sets(w)
        BY <1>7, <4>1, <4>4 DEF Sets, WriteRedis, Write, At
      <4> QED
        BY <1>7, <4>5
    <3>4. Due(worker'[w].steps, e)
      <4>1. CASE Advances(worker[w], worker'[w], Msg(w), chainKey', marker')
        BY <1>2, <3>1, <3>3, <4>1, TailDue DEF Advances
      <4>2. CASE Creates(worker[w], worker'[w])
        <5>1. PICK x \in Roles :
                 /\ Head(worker[w].steps) = <<"Exist", x>>
                 /\ worker'[w] = [worker[w] EXCEPT !.steps = createAccount(x) \o Tail(@)]
          BY <4>2 DEF Creates
        <5>2. worker'[w].steps = createAccount(x) \o Tail(worker[w].steps)
          BY <1>1, <5>1 DEF Workers
        <5>3. e[1] # "Exist"
          BY DEF WriteOf
        <5> HIDE DEF e
        <5>4. Due(createAccount(x) \o Tail(worker[w].steps), e)
          BY <1>2, <3>1, <5>1, <5>3, CreateDue
        <5> QED
          BY <5>2, <5>4
      <4> QED
        BY <1>3, <4>1, <4>2 DEF Progress
    <3> QED
      BY <3>2, <3>4 DEF PairOK
  <2> QED
    BY <2>1, <2>2
<1> QED
  BY <1>4, <1>5, <1>6, <1>7

\* A call that ends the work on a pair leaves redis and the chain in agreement.
LEMMA CallAgrees ==
    ASSUME IndInv, FollowInv, NEW w \in Jobs, worker[w].cur # Nil,
           NEW i \in Ids, NEW j \in Ids, About(Msg(w), i, j), Sends(w), UNCHANGED req
    PROVE  Agree(marker', ledger'[i], req', i, j)
<1>1. /\ At(w, "Call") /\ worker[w] \in Workers /\ worker[w].steps # <<>>
      /\ Head(worker[w].steps) = <<"Call", Role(w)>>
  BY AtStep DEF Sends
<1>2. worker[w].steps[1][1] = "Call" /\ 1 \in DOMAIN worker[w].steps
  <2>1. worker[w].steps \in Seq(Steps)
    BY <1>1 DEF Workers
  <2> QED
    BY <1>1, <2>1, TailSteps, LenProperties
<1>3. \A e : ~Due(worker[w].steps, e)
  BY <1>2 DEF Due, Before
<1>4. Written(Msg(w), marker)
  BY <1>3 DEF FollowInv, PairOK, About
<1>5. /\ Entry(w) \in Entries /\ Entry(w).req = worker[w].cur
      /\ Entry(w).op = Msg(w).kind
  BY <1>1, EntryType DEF Entry
<1>6. PICK e \in Entries : e = Entry(w)
  BY <1>5
<1>7. ledger[i] \in Seq(Entries) /\ HasLast(ledger[i], req, j)
  BY DEF IndInv, TypeOK, FollowInv
<1>8. ledger'[i] = Append(ledger[i], e)
  BY <1>6 DEF Sends, About, IndInv, TypeOK
<1>9. e.op \in Pairs /\ req[e.req].target = j
  BY <1>5, <1>6 DEF About, Msg
<1>10. LastOf(ledger'[i], req, j) = Msg(w).kind
  BY <1>5, <1>6, <1>7, <1>8, <1>9, LastAppend
<1>11. UniqueKey(Msg(w)) = <<"follow", i, j>>
  BY PairKey
<1> QED
  BY <1>4, <1>10, <1>11 DEF Agree, Written, Sends

LEMMA FollowWork ==
    ASSUME IndInv, OrderInv, FollowInv, Served, NEW w \in Jobs, Work(w)
    PROVE  FollowInv'
<1>1. Progress(w) /\ OthersKept(w)
  BY WorkProgress
<1>2. UNCHANGED req /\ (UNCHANGED <<marker, ledger>> \/ Sets(w) \/ Sends(w))
  BY WorkWrites
<1>3. worker[w].cur # Nil
  <2>1. PICK do : At(w, do)
    BY DEF Work, ReadName, ReadKey, ReadOwner, ReadUuid, WriteRedis, Write, RedisFails,
       QueryChain, QueryFails, CreateOnChain, Fund, Call, BroadcastFails
  <2> QED
    BY <2>1, AtStep, NilType
<1>4. worker'[w].cur \in {worker[w].cur, Nil}
  BY CurKept
<1>5. Msg(w).id \in Ids /\ JobOf(Msg(w).id) = w
  BY <1>3, InHand
<1>6. ASSUME NEW i \in Ids, NEW j \in Ids
      PROVE  HasLast(ledger'[i], req', j)
  BY OthersAgree DEF FollowInv
<1>7. ASSUME NEW i \in Ids, NEW j \in Ids, ~Serving(JobOf(i), i, j)'
      PROVE  Agree(marker', ledger'[i], req', i, j)
  <2>1. CASE About(Msg(w), i, j)
    <3>1. JobOf(i) = w
      BY <1>5, <2>1 DEF About
    <3>2. worker'[w].cur = Nil
      <4>1. worker'[w].cur # worker[w].cur
        BY <1>2, <1>3, <1>7, <2>1, <3>1 DEF Serving, About, Msg, Pairs
      <4> QED
        BY <1>4, <4>1
    <3>3. ledger' # ledger
      BY <1>3, <2>1, <3>2 DEF Served, About
    <3>4. Sends(w)
      BY <1>2, <3>3 DEF Sets
    <3> QED
      BY <1>2, <1>3, <2>1, <3>4, CallAgrees
  <2>2. CASE ~About(Msg(w), i, j)
    <3>1. ~Serving(JobOf(i), i, j)
      <4>1. CASE JobOf(i) = w
        BY <2>2, <4>1 DEF Serving, About, Pairs
      <4>2. CASE JobOf(i) # w
        <5>1. worker'[JobOf(i)] = worker[JobOf(i)]
          BY <4>2, <1>1, JobOfType DEF OthersKept
        <5> QED
          BY <1>2, <1>7, <5>1 DEF Serving, Msg
      <4> QED
        BY <4>1, <4>2
    <3>2. Agree(marker, ledger[i], req, i, j) /\ HasLast(ledger[i], req, j)
      BY <3>1 DEF FollowInv
    <3>3. /\ <<"follow", i, j>> \in marker' <=> <<"follow", i, j>> \in marker
          /\ LastOf(ledger'[i], req', j) = LastOf(ledger[i], req, j)
      BY <2>2, <3>2, OthersAgree
    <3> QED
      BY <3>2, <3>3 DEF Agree
  <2> QED
    BY <2>1, <2>2
<1>8. ASSUME NEW v \in Jobs, worker'[v].cur # Nil, Msg(v)'.kind \in Pairs
      PROVE  PairOK(worker'[v], Msg(v)', marker', ledger'[Msg(v)'.id], req')
  <2>1. CASE v = w
    <3>1. Msg(v)' = Msg(w)
      BY <1>2, <1>4, <1>8, <2>1 DEF Msg
    <3> QED
      BY <1>1, <1>3, <1>8, <2>1, <3>1, WorkPair
  <2>2. CASE v # w
    <3>1. worker'[v] = worker[v] /\ Msg(v)' = Msg(v)
      BY <1>1, <1>2, <2>2 DEF OthersKept, Msg
    <3>2. PICK m : m = Msg(v)
      OBVIOUS
    <3>3. m.id \in Ids /\ m.target \in Ids /\ JobOf(m.id) = v
      BY <1>8, <3>1, <3>2, InHand
    <3>4. ~About(Msg(w), m.id, m.target)
      BY <1>5, <2>2, <3>3 DEF About
    <3>5. /\ <<"follow", m.id, m.target>> \in marker' <=> <<"follow", m.id, m.target>> \in marker
          /\ LastOf(ledger'[m.id], req', m.target) = LastOf(ledger[m.id], req, m.target)
      BY <3>3, <3>4, OthersAgree DEF FollowInv
    <3>6. UniqueKey(m) = <<"follow", m.id, m.target>>
      BY <1>8, <3>1, <3>2 DEF UniqueKey, Pairs
    <3>7. PairOK(worker[v], m, marker, ledger[m.id], req)
      BY <1>8, <3>1, <3>2 DEF FollowInv
    <3>8. PairOK(worker[v], m, marker', ledger'[m.id], req')
      BY <3>5, <3>6, <3>7 DEF PairOK, Agree, Written
    <3> QED
      BY <3>1, <3>2, <3>8
  <2> QED
    BY <2>1, <2>2
<1>9. ASSUME NEW v \in Jobs, worker'[v].cur # Nil
      PROVE  PairOK(worker'[v], Msg(v)', marker', ledger'[Msg(v)'.id], req')
  BY <1>8, <1>9 DEF PairOK
<1> QED
  BY <1>6, <1>7, <1>9 DEF FollowInv

\* A worker takes a message: if it is about a pair, the two agree about it.
LEMMA FollowTake ==
    ASSUME IndInv, OrderInv, RepairInv, FollowInv, Kept, NEW w \in Jobs, Take(w)
    PROVE  FollowInv'
<1>1. UNCHANGED <<marker, ledger, req>> /\ worker[w].cur = Nil
  BY DEF Take, redisVars, chainVars, unchangedByJob
<1>2. OthersKept(w)
  BY TakeRepairs
<1>3. PICK r : /\ r \in Reqs /\ Accepted(r) /\ req[r] \in Messages
               /\ JobOf(req[r].id) = w
               /\ worker'[w].cur = r /\ worker'[w].steps = StepsOf(req[r].kind)
  <2>1. queue[w] \in Seq(Reqs) /\ queue[w] # <<>>
    BY DEF Take, IndInv, TypeOK
  <2>2. PICK r : r = Head(queue[w])
    OBVIOUS
  <2>3. r \in Reqs /\ 1 \in DOMAIN queue[w] /\ r = queue[w][1]
    BY <2>1, <2>2, HeadTailProperties, EmptySeq, LenProperties
  <2>4. Accepted(r) /\ req[r] \in Messages
    BY <2>3 DEF IndInv, TypeOK, Accepted
  <2>5. JobOf(req[r].id) = w
    BY <2>3 DEF OrderInv, Ticketed
  <2> DEFINE m  == req[r]
             st == [IdleWorker EXCEPT
                      !.cur = r, !.steps = StepsOf(m.kind),
                      !.id["self"] = m.id,
                      !.id["peer"] = IF m.kind \in {"follow", "unfollow"}
                                     THEN m.target ELSE Nil,
                      !.name["self"] = m.name]
  <2>6. st.cur = r /\ st.steps = StepsOf(m.kind)
    BY DEF IdleWorker
  <2>7. Become(w, st)
    BY <2>2 DEF Take
  <2> HIDE DEF st
  <2>8. worker'[w] = st
    BY <2>7, BecomeIs
  <2> QED
    BY <2>3, <2>4, <2>5, <2>6, <2>8
<1>4. ASSUME NEW i \in Ids, NEW j \in Ids, ~Serving(JobOf(i), i, j)'
      PROVE  ~Serving(JobOf(i), i, j)
  <2>1. CASE JobOf(i) = w
    BY <1>1, <2>1 DEF Serving
  <2>2. CASE JobOf(i) # w
    <3>1. worker'[JobOf(i)] = worker[JobOf(i)]
      BY <2>2, <1>2, JobOfType DEF OthersKept
    <3> QED
      BY <1>1, <1>4, <3>1 DEF Serving, Msg
  <2> QED
    BY <2>1, <2>2
<1>5. ASSUME NEW v \in Jobs, worker'[v].cur # Nil
      PROVE  PairOK(worker'[v], Msg(v)', marker', ledger'[Msg(v)'.id], req')
  <2>1. CASE v = w
    <3>1. PICK m : m = req[r] /\ m = Msg(v)'
      BY <1>1, <1>3, <2>1 DEF Msg
    <3> SUFFICES ASSUME m.kind \in Pairs
                 PROVE  /\ Agree(marker, ledger[m.id], req, m.id, m.target)
                        /\ Due(worker'[v].steps, WriteOf(m.kind))
      BY <1>1, <3>1 DEF PairOK
    <3>2. m.id \in Ids /\ m.target \in Ids /\ JobOf(m.id) = w
      BY <1>3, <3>1, MessageFields DEF Pairs
    <3>3. ~Serving(JobOf(m.id), m.id, m.target)
      BY <1>1, <3>2 DEF Serving
    <3>4. Due(worker'[v].steps, WriteOf(m.kind))
      BY <1>3, <2>1, <3>1, ScriptDue
    <3> QED
      BY <3>2, <3>3, <3>4 DEF FollowInv
  <2>2. CASE v # w
    <3>1. worker'[v] = worker[v] /\ Msg(v)' = Msg(v)
      BY <1>1, <1>2, <2>2 DEF OthersKept, Msg
    <3> QED
      BY <1>1, <1>5, <3>1 DEF FollowInv
  <2> QED
    BY <2>1, <2>2
<1> QED
  BY <1>1, <1>4, <1>5 DEF FollowInv

\* Steps of the server, and of nobody.
LEMMA FollowQuiet ==
    ASSUME IndInv, RepairInv, FollowInv, Kept, UNCHANGED <<marker, ledger, worker>>
    PROVE  FollowInv'
<1>1. ASSUME NEW v \in Jobs, worker[v].cur # Nil
      PROVE  Msg(v)' = Msg(v) /\ Msg(v).id \in Ids
  <2>1. worker[v].cur \in Reqs /\ Accepted(worker[v].cur)
    BY <1>1, Whereabouts
  <2>2. Msg(v) \in Messages
    BY <2>1 DEF Accepted, Msg, IndInv, TypeOK
  <2> QED
    BY <2>1, <2>2, MessageFields DEF Kept, Msg
<1>2. ASSUME NEW i \in Ids, NEW j
      PROVE  /\ HasLast(ledger[i], req, j) => HasLast(ledger'[i], req', j)
             /\ Agree(marker', ledger'[i], req', i, j) <=> Agree(marker, ledger[i], req, i, j)
  BY QuietAgrees
<1>3. ASSUME NEW i \in Ids, NEW j \in Ids, ~Serving(JobOf(i), i, j)'
      PROVE  ~Serving(JobOf(i), i, j)
  BY <1>1, <1>3, JobOfType DEF Serving
<1>4. ASSUME NEW v \in Jobs, worker'[v].cur # Nil
      PROVE  PairOK(worker'[v], Msg(v)', marker', ledger'[Msg(v)'.id], req')
  <2>1. PICK m : m = Msg(v) /\ m = Msg(v)' /\ m.id \in Ids
    BY <1>1, <1>4
  <2>2. PairOK(worker[v], m, marker, ledger[m.id], req)
    BY <1>4, <2>1 DEF FollowInv
  <2>3. Agree(marker', ledger'[m.id], req', m.id, m.target)
           <=> Agree(marker, ledger[m.id], req, m.id, m.target)
    BY <1>2, <2>1
  <2>4. PairOK(worker'[v], m, marker', ledger'[m.id], req')
    BY <2>2, <2>3 DEF PairOK, Written
  <2> QED
    BY <2>1, <2>4
<1> QED
  BY <1>2, <1>3, <1>4 DEF FollowInv

\* The process stops while no pair is in work.
LEMMA FollowCrash ==
    ASSUME IndInv, FollowInv, Served, Crash
    PROVE  FollowInv'
<1>1. /\ UNCHANGED <<marker, ledger, req>>
      /\ \A w \in Jobs : worker'[w] = IdleWorker /\ worker'[w].cur = Nil
  BY DEF Crash, redisVars, chainVars, IdleWorker
<1>2. \A w \in Jobs : worker[w].cur # Nil => Msg(w).kind \notin Pairs
  BY <1>1 DEF Served
<1>3. \A i, j \in Ids : ~Serving(JobOf(i), i, j)
  BY <1>2, JobOfType DEF Serving, Pairs
<1> QED
  BY <1>1, <1>3 DEF FollowInv

LEMMA FollowInit == Init => FollowInv
<1> SUFFICES ASSUME Init PROVE FollowInv
  OBVIOUS
<1>1. \A i, j \in Ids : OpsIn(ledger[i], req, j) = {}
  <2>1. \A i \in Ids : DOMAIN ledger[i] = {}
    BY DEF Init
  <2> QED
    BY <2>1 DEF OpsIn
<1>2. \A w \in Jobs : worker[w].cur = Nil
  BY DEF Init, IdleWorker
<1>3. marker = {}
  BY DEF Init
<1>4. \A i, j \in Ids : Agree(marker, ledger[i], req, i, j)
  BY <1>1, <1>3 DEF Agree, LastOf
<1> QED
  BY <1>1, <1>2, <1>4 DEF FollowInv, HasLast

LEMMA FollowStep ==
    IndInv /\ OrderInv /\ RepairInv /\ FollowInv /\ [Next]_vars /\ [Served]_vars
      => FollowInv'
<1> SUFFICES ASSUME IndInv, OrderInv, RepairInv, FollowInv, [Next]_vars, [Served]_vars
             PROVE  FollowInv'
  OBVIOUS
<1>1. Kept
  BY StepKeeps
<1>2. CASE UNCHANGED vars
  BY <1>1, <1>2, FollowQuiet DEF vars
<1>3. CASE ~UNCHANGED vars
  <2>1. Served
    BY <1>3
  <2>2. ASSUME NEW r \in Reqs, Handle(r) \/ \E b \in Requests(r) : Arrive(r, b)
        PROVE  FollowInv'
    BY <1>1, <2>2, ServerKept, FollowQuiet DEF unchangedByServer
  <2>3. ASSUME NEW w \in Jobs, Take(w)
        PROVE  FollowInv'
    BY <1>1, <2>3, FollowTake
  <2>4. ASSUME NEW w \in Jobs, Work(w)
        PROVE  FollowInv'
    BY <2>1, <2>4, FollowWork
  <2>5. CASE Crash
    BY <2>1, <2>5, FollowCrash
  <2> QED
    BY <1>3, <2>2, <2>3, <2>4, <2>5 DEF Next
<1> QED
  BY <1>2, <1>3

\* Redis and the chain agree on who follows whom whenever the follower's
\* worker is not serving the pair, as long as no worker gives up a follow or
\* unfollow: whatever else fails, and wherever the process is stopped.
THEOREM FollowsAgree == Spec /\ [][Served]_vars => []FollowAgreement
<1>1. FollowInv => FollowAgreement
  BY LastOpIs DEF FollowInv, FollowAgreement, Agree
<1> QED
  BY <1>1, InitOK, StepOK, OrderInit, OrderStep, RepairInit, RepairStep,
     FollowInit, FollowStep, PTL DEF Spec

-----------------------------------------------------------------------------
(* Without failures, and with an account for every id to begin with, no     *)
(* follow or unfollow is dropped.                                           *)

NoFaults == FaultKinds = {} \/ MaxFaults = 0

\* A worker in state st on message m, when every account is in place.
Settled(st, m) ==
    /\ \A x \in Roles : st.name[x] \in {Nil, st.id[x]}
    /\ \A k \in DOMAIN st.steps : st.steps[k][1] \notin {"SetAccount", "Create"}
    /\ st.key = <<st.id["self"], "self">> \/ Due(st.steps, <<"Key", "self">>)
    /\ st.cur # Nil /\ m.kind \in Pairs =>
          /\ st.id["peer"] = m.target
          /\ st.steps[Len(st.steps)] = <<"Call", "self">>

\* A request for a new account never passes its check, and a fake collector
\* has the name of its account.
SettledReq(r) ==
    req[r] # Nil =>
        /\ req[r].kind = "account" => checks[r] = <<"NewId">>
        /\ req[r].kind \in FakeKinds => req[r].name \in {Nil, req[r].id}

InPlace == \A i \in Ids : /\ account[i] = [name |-> i, key |-> <<i, "self">>]
                          /\ chainKey[i] = <<i, "self">>

Established ==
    /\ InPlace
    /\ \A r \in Reqs : SettledReq(r)
    /\ \A w \in Jobs : Settled(worker[w], Msg(w))

LEMMA NoFault ==
    ASSUME NoFaults, IndInv, NEW k
    PROVE  ~Fault(k)
<1>1. faults \in 0 .. MaxFaults /\ MaxFaults \in Nat
  BY ConfigAssumption DEF IndInv, TypeOK
<1> QED
  BY <1>1 DEF NoFaults, Fault

LEMMA IdleSettled == \A m : Settled(IdleWorker, m)
  BY DEF Settled, IdleWorker, Due

LEMMA ScriptSettled ==
    ASSUME NEW kind \in AllKinds \cup FakeKinds, kind # "account",
           NEW st, NEW m, m.kind = kind, st.steps = StepsOf(kind),
           \A x \in Roles : st.name[x] \in {Nil, st.id[x]},
           kind \in Pairs => st.id["peer"] = m.target
    PROVE  Settled(st, m)
<1> USE DEF Settled, Due, Pairs, Before, S, P, Roles, AllKinds, FakeKinds, StepsOf
<1>1. CASE kind = "post"
  BY <1>1 DEF processPostMsg
<1>2. CASE kind = "like"
  BY <1>2 DEF processLikeMsg
<1>3. CASE kind = "comment"
  BY <1>3 DEF processCommentMsg
<1>4. CASE kind = "follow"
  BY <1>4 DEF processFollowMsg
<1>5. CASE kind = "unfollow"
  BY <1>5 DEF processUnfollowMsg
<1>6. CASE kind = "signin"
  BY <1>6 DEF processSignInMsg
<1>7. CASE kind \in FakeKinds
  BY <1>7 DEF processFakeMsg
<1> QED
  BY <1>1, <1>2, <1>3, <1>4, <1>5, <1>6, <1>7

\* The next step of a settled worker is settled, and only a call is the last
\* one of a follow or unfollow.
LEMMA SettledNext ==
    ASSUME NEW old \in Workers, old.steps # <<>>, NEW m, Settled(old, m),
           NEW st \in Workers, st.cur = old.cur, st.steps = old.steps,
           \A x \in Roles : st.name[x] \in {Nil, st.id[x]},
           st.id["self"] = old.id["self"],
           m.kind \in Pairs => st.id["peer"] = old.id["peer"],
           \/ st.key = <<st.id["self"], "self">>
           \/ st.key = old.key /\ Head(old.steps) # <<"Key", "self">>
    PROVE  LET new == IF Len(st.steps) = 1 THEN IdleWorker
                      ELSE [st EXCEPT !.steps = Tail(@)]
           IN  /\ Settled(new, m)
               /\ old.cur # Nil /\ m.kind \in Pairs
                     /\ Head(old.steps) # <<"Call", "self">> => new.cur # Nil
<1> DEFINE s == old.steps
<1>1. s \in Seq(Steps) /\ s # <<>>
  BY DEF Workers
<1>2. /\ Len(s) \in Nat \ {0} /\ DOMAIN Tail(s) = 1 .. Len(s) - 1
      /\ \A k \in 1 .. Len(s) - 1 : Tail(s)[k] = s[k + 1]
      /\ Head(s) = s[1] /\ DOMAIN s = 1 .. Len(s)
      /\ Tail(s) \in Seq(Steps) /\ Len(Tail(s)) = Len(s) - 1
  BY <1>1, TailSteps, LenProperties
<1>3. CASE Len(s) = 1
  <2>1. old.cur # Nil /\ m.kind \in Pairs => Head(s) = <<"Call", "self">>
    BY <1>2, <1>3 DEF Settled
  <2> QED
    BY <1>3, <2>1, IdleSettled
<1>4. CASE Len(s) # 1
  <2> DEFINE new == [st EXCEPT !.steps = Tail(@)]
  <2>1. /\ new.steps = Tail(s) /\ new.cur = old.cur /\ new.name = st.name
        /\ new.id = st.id /\ new.key = st.key
    BY DEF Workers
  <2> HIDE DEF new, s
  <2>2. \A k \in DOMAIN Tail(s) : Tail(s)[k][1] \notin {"SetAccount", "Create"}
    <3> SUFFICES ASSUME NEW k \in 1 .. Len(s) - 1
                 PROVE  Tail(s)[k][1] \notin {"SetAccount", "Create"}
      BY <1>2
    <3>1. k + 1 \in DOMAIN s
      BY ONLY <1>2, k \in 1 .. Len(s) - 1
    <3> QED
      BY <1>2, <3>1 DEF Settled, s
  <2>3. new.key = <<new.id["self"], "self">> \/ Due(Tail(s), <<"Key", "self">>)
    BY <1>1, <2>1, TailDue DEF Settled, s
  <2>4. ASSUME old.cur # Nil, m.kind \in Pairs
        PROVE  /\ new.id["peer"] = m.target
               /\ Tail(s)[Len(Tail(s))] = <<"Call", "self">>
    <3>1. Len(s) - 1 \in 1 .. Len(s) - 1 /\ (Len(s) - 1) + 1 = Len(s)
      BY ONLY <1>2, <1>4
    <3>2. Tail(s)[Len(Tail(s))] = s[Len(s)]
      BY <1>2, <3>1
    <3> QED
      BY <2>1, <2>4, <3>2 DEF Settled, s
  <2>5. Settled(new, m)
    BY <2>1, <2>2, <2>3, <2>4 DEF Settled
  <2> QED
    BY <1>4, <2>1, <2>5 DEF new, s
<1> QED
  BY <1>3, <1>4

\* What a step of worker w makes of a settled message.
Carries(w) == /\ Settled(worker'[w], Msg(w))
              /\ Msg(w).kind \in Pairs /\ worker'[w].cur = Nil => ledger' # ledger

\* A step do, other than the call, that goes on with its locals in st.
LEMMA GoOnSettled ==
    ASSUME IndInv, NEW w \in Jobs, NEW do, At(w, do), do # "Call",
           Settled(worker[w], Msg(w)),
           NEW st \in Workers, st.cur = worker[w].cur, st.steps = worker[w].steps,
           \A x \in Roles : st.name[x] \in {Nil, st.id[x]},
           st.id["self"] = worker[w].id["self"],
           Msg(w).kind \in Pairs => st.id["peer"] = worker[w].id["peer"],
           \/ st.key = <<st.id["self"], "self">>
           \/ st.key = worker[w].key /\ do # "Key",
           GoOn(w, st)
    PROVE  Carries(w)
<1>1. /\ worker[w] \in Workers /\ worker[w].steps # <<>> /\ worker[w].cur # Nil
      /\ Head(worker[w].steps) = <<do, Role(w)>>
  BY AtStep, NilType
<1> DEFINE new == IF Len(st.steps) = 1 THEN IdleWorker
                  ELSE [st EXCEPT !.steps = Tail(@)]
<1>2. /\ Settled(new, Msg(w))
      /\ Msg(w).kind \in Pairs => new.cur # Nil
  <2>1. PICK old \in Workers : old = worker[w]
    BY <1>1
  <2>2. Head(old.steps) # <<"Call", "self">>
    BY <1>1, <2>1
  <2>3. \/ st.key = <<st.id["self"], "self">>
        \/ st.key = old.key /\ Head(old.steps) # <<"Key", "self">>
    BY <1>1, <2>1
  <2> QED
    BY <1>1, <2>1, <2>2, <2>3, SettledNext
<1>3. Become(w, new)
  BY DEF GoOn
<1> HIDE DEF new
<1>4. worker'[w] = new
  BY <1>3, BecomeIs
<1> QED
  BY <1>2, <1>4 DEF Carries

LEMMA PlainSettled ==
    ASSUME IndInv, NEW w \in Jobs, NEW do, At(w, do), do \notin {"Call", "Key"},
           Settled(worker[w], Msg(w)), GoOn(w, worker[w])
    PROVE  Carries(w)
<1>1. worker[w] \in Workers
  BY AtStep
<1>2. \A x \in Roles : worker[w].name[x] \in {Nil, worker[w].id[x]}
  BY DEF Settled
<1> QED
  BY <1>1, <1>2, GoOnSettled

LEMMA RecordsNotNil ==
    ASSUME IndInv, InPlace, NEW i \in Ids
    PROVE  /\ account[i] # Nil /\ account[i].name = i /\ account[i].key = <<i, "self">>
           /\ chainKey[i] = <<i, "self">> /\ chainKey[i] # Nil
<1>1. <<i, "self">> \in Keys
  BY DEF Keys, Names, Roles
<1>2. chainKey[i] # Nil
  BY <1>1, NilType DEF InPlace
<1>3. [name |-> i, key |-> <<i, "self">>] \in Records
  BY <1>1 DEF Records, Names
<1>4. account[i] # Nil
  BY <1>3, ConfigAssumption DEF InPlace
<1>5. account[i] = [name |-> i, key |-> <<i, "self">>] /\ chainKey[i] = <<i, "self">>
  BY DEF InPlace
<1> QED
  BY <1>2, <1>4, <1>5

\* The account that a settled worker looks for is in place.
LEMMA AccountFound ==
    ASSUME IndInv, InPlace, NEW w \in Jobs, Settled(worker[w], Msg(w)),
           NEW do \in {"Exist", "Call"}, At(w, do)
    PROVE  Name(w) = Id(w) /\ Id(w) \in Ids /\ chainKey[Name(w)] = <<Id(w), "self">>
<1>1. Name(w) \in Names /\ Id(w) \in Ids /\ Role(w) \in Roles
  BY AtStep
<1>2. Name(w) = Id(w)
  BY <1>1, NilType DEF Settled, Name, Id
<1> QED
  BY <1>1, <1>2 DEF InPlace

LEMMA ReadNameSettled ==
    ASSUME IndInv, InPlace, NEW w \in Jobs, Settled(worker[w], Msg(w)), ReadName(w)
    PROVE  Carries(w)
<1>1. /\ At(w, "Name") /\ worker[w] \in Workers /\ Role(w) \in Roles
      /\ worker[w].cur # Nil /\ Msg(w) \in Messages
      /\ worker[w].id["self"] = Msg(w).id
  BY AtStep, NilType DEF ReadName
<1>2. CASE Id(w) \notin Ids
  <2>1. Msg(w).kind \notin Pairs
    <3> SUFFICES ASSUME Msg(w).kind \in Pairs PROVE FALSE
      OBVIOUS
    <3>1. Msg(w).id \in Ids /\ Msg(w).target \in Ids
      BY <1>1, MessageFields DEF Pairs
    <3>2. worker[w].id["peer"] = Msg(w).target
      BY <1>1 DEF Settled
    <3> QED
      BY <1>1, <1>2, <3>1, <3>2 DEF Id, Roles
  <2>2. Id(w) = Nil
    BY <1>1, <1>2 DEF Id, Workers
  <2>3. worker'[w] = IdleWorker
    BY <2>2, BecomeIs DEF ReadName, Abandon
  <2> QED
    BY <2>1, <2>3, IdleSettled DEF Carries
<1>3. CASE Id(w) \in Ids
  <2>1. account[Id(w)] # Nil /\ account[Id(w)].name = Id(w)
    BY <1>3, RecordsNotNil DEF InPlace
  <2> DEFINE st == [worker[w] EXCEPT !.name[Role(w)] = account[Id(w)].name]
  <2>2. GoOn(w, st)
    BY <1>3, <2>1, NilType DEF ReadName
  <2>3. /\ st \in Workers /\ st.cur = worker[w].cur /\ st.steps = worker[w].steps
        /\ st.id = worker[w].id /\ st.key = worker[w].key
    BY <1>1, <1>3, <2>1 DEF Workers, Names
  <2>4. \A x \in Roles : st.name[x] = IF x = Role(w) THEN Id(w) ELSE worker[w].name[x]
    BY <1>1, <2>1 DEF Workers
  <2> HIDE DEF st
  <2>5. \A x \in Roles : st.name[x] \in {Nil, st.id[x]}
    BY <2>3, <2>4 DEF Settled, Id
  <2> QED
    BY <1>1, <2>2, <2>3, <2>5, GoOnSettled
<1> QED
  BY <1>2, <1>3

LEMMA ReadKeySettled ==
    ASSUME IndInv, InPlace, NEW w \in Jobs, Settled(worker[w], Msg(w)), ReadKey(w)
    PROVE  Carries(w)
<1>1. /\ At(w, "Key") /\ worker[w] \in Workers /\ Role(w) = "self"
      /\ Msg(w) \in Messages /\ worker[w].id["self"] = Msg(w).id
  BY AtStep DEF ReadKey
<1>2. Id(w) \in Ids /\ Id(w) = worker[w].id["self"]
  BY <1>1, MessageFields DEF Id
<1>3. account[Id(w)] # Nil /\ account[Id(w)].key = <<Id(w), "self">>
  BY <1>2, RecordsNotNil DEF InPlace
<1> DEFINE st == [worker[w] EXCEPT !.key = account[Id(w)].key]
<1>4. GoOn(w, st)
  BY <1>3 DEF ReadKey
<1>5. account[Id(w)].key \in Keys
  BY <1>2, <1>3, RecordTypes
<1>6. /\ st \in Workers /\ st.cur = worker[w].cur /\ st.steps = worker[w].steps
      /\ st.id = worker[w].id /\ st.name = worker[w].name
      /\ st.key = <<Id(w), "self">>
  BY <1>1, <1>3, <1>5 DEF Workers
<1> HIDE DEF st
<1>7. \A x \in Roles : st.name[x] \in {Nil, st.id[x]}
  BY <1>6 DEF Settled
<1> QED
  BY <1>1, <1>2, <1>4, <1>6, <1>7, GoOnSettled

LEMMA ReadOwnerSettled ==
    ASSUME IndInv, NEW w \in Jobs, Settled(worker[w], Msg(w)), ReadOwner(w)
    PROVE  Carries(w)
<1> DEFINE p     == post[Msg(w).target]
           owner == IF p = Nil THEN Nil ELSE p.owner
           st    == [worker[w] EXCEPT !.id["peer"] = owner]
<1>1. At(w, "Owner") /\ GoOn(w, st)
  BY DEF ReadOwner
<1>2. /\ worker[w] \in Workers /\ Msg(w) \in Messages
      /\ Msg(w).kind \in {"like", "comment"} /\ worker[w].name["peer"] = Nil
  BY <1>1, AtStep
<1>3. owner \in Ids \cup {Nil}
  <2>1. Msg(w).target \in PostIds
    BY <1>2, MessageFields
  <2> QED
    BY <2>1 DEF IndInv, TypeOK, PostRecords
<1> HIDE DEF owner
<1>4. /\ st \in Workers /\ st.cur = worker[w].cur /\ st.steps = worker[w].steps
      /\ st.name = worker[w].name /\ st.key = worker[w].key
      /\ st.id["self"] = worker[w].id["self"]
  BY <1>2, <1>3 DEF Workers, Roles
<1> HIDE DEF st
<1>5. \A x \in Roles : st.name[x] \in {Nil, st.id[x]}
  BY <1>2, <1>4 DEF Settled, Roles
<1>6. Msg(w).kind \notin Pairs
  BY <1>2 DEF Pairs
<1> QED
  BY <1>1, <1>4, <1>5, <1>6, GoOnSettled

LEMMA ReadUuidSettled ==
    ASSUME IndInv, NEW w \in Jobs, Settled(worker[w], Msg(w)), ReadUuid(w)
    PROVE  Carries(w)
<1> DEFINE p    == post[Msg(w).target]
           uuid == IF p = Nil THEN Nil ELSE p.uuid
           st   == [worker[w] EXCEPT !.uuid = uuid]
<1>1. At(w, "Uuid") /\ GoOn(w, st)
  BY DEF ReadUuid
<1>2. worker[w] \in Workers /\ Msg(w) \in Messages /\ Msg(w).kind \in {"like", "comment"}
  BY <1>1, AtStep
<1>3. uuid \in Uuids \cup {Nil}
  <2>1. Msg(w).target \in PostIds
    BY <1>2, MessageFields
  <2> QED
    BY <2>1 DEF IndInv, TypeOK, PostRecords
<1> HIDE DEF uuid
<1>4. /\ st \in Workers /\ st.cur = worker[w].cur /\ st.steps = worker[w].steps
      /\ st.name = worker[w].name /\ st.key = worker[w].key /\ st.id = worker[w].id
  BY <1>2, <1>3 DEF Workers
<1> HIDE DEF st
<1>5. \A x \in Roles : st.name[x] \in {Nil, st.id[x]}
  BY <1>4 DEF Settled
<1> QED
  BY <1>1, <1>4, <1>5, GoOnSettled

LEMMA CallSettled ==
    ASSUME IndInv, InPlace, NEW w \in Jobs, Settled(worker[w], Msg(w)), Call(w)
    PROVE  Carries(w)
<1>1. At(w, "Call") /\ Role(w) = "self"
  BY AtStep DEF Call
<1>2. /\ worker[w] \in Workers /\ worker[w].steps # <<>>
      /\ Head(worker[w].steps) = <<"Call", Role(w)>>
  BY <1>1, AtStep
<1>3. worker[w].steps[1][1] = "Call" /\ 1 \in DOMAIN worker[w].steps
  <2>1. worker[w].steps \in Seq(Steps)
    BY <1>2 DEF Workers
  <2> QED
    BY <1>2, <2>1, TailSteps, LenProperties
<1>4. worker[w].key = <<Id(w), "self">>
  <2>1. ~Due(worker[w].steps, <<"Key", "self">>)
    BY <1>3 DEF Due, Before
  <2> QED
    BY <1>1, <2>1 DEF Settled, Id
<1>5. Id(w) \in Ids /\ chainKey[Name(w)] = worker[w].key
  BY <1>1, <1>4, AccountFound
<1>6. ledger' # ledger
  <2>1. ledger' = [ledger EXCEPT ![Id(w)] = Append(@, Entry(w))]
    BY <1>5 DEF Call
  <2>2. ledger[Id(w)] \in Seq(Entries) /\ Entry(w) \in Entries
    BY <1>1, <1>5, EntryType DEF IndInv, TypeOK
  <2>3. PICK e \in Entries : e = Entry(w)
    BY <2>2
  <2>4. ledger'[Id(w)] = Append(ledger[Id(w)], e)
    BY <1>5, <2>1, <2>3 DEF IndInv, TypeOK
  <2>5. /\ Len(Append(ledger[Id(w)], e)) = Len(ledger[Id(w)]) + 1
        /\ Len(ledger[Id(w)]) \in Nat
    BY <2>2, AppendProperties, LenProperties
  <2>6. Len(Append(ledger[Id(w)], e)) # Len(ledger[Id(w)])
    BY ONLY <2>5
  <2> QED
    BY <2>4, <2>6
<1>7. worker'[w] = IdleWorker
  BY BecomeIs DEF Call, Abandon
<1> QED
  BY <1>6, <1>7, IdleSettled DEF Carries

LEMMA WorkSettled ==
    ASSUME NoFaults, IndInv, InPlace, NEW w \in Jobs, Settled(worker[w], Msg(w)), Work(w)
    PROVE  Carries(w) /\ UNCHANGED <<account, chainKey>>
<1>1. ~RedisFails(w) /\ ~QueryFails(w) /\ ~BroadcastFails(w)
  BY NoFault DEF RedisFails, QueryFails, BroadcastFails
<1>2. ~At(w, "SetAccount") /\ ~At(w, "Create")
  <2> SUFFICES ASSUME NEW do \in {"SetAccount", "Create"}, At(w, do) PROVE FALSE
    OBVIOUS
  <2>1. /\ worker[w] \in Workers /\ worker[w].steps # <<>>
        /\ Head(worker[w].steps) = <<do, Role(w)>>
    BY AtStep
  <2>2. worker[w].steps[1][1] = do /\ 1 \in DOMAIN worker[w].steps
    <3>1. worker[w].steps \in Seq(Steps)
      BY <2>1 DEF Workers
    <3> QED
      BY <2>1, <3>1, TailSteps, LenProperties
  <2> QED
    BY <2>2 DEF Settled
<1>3. UNCHANGED <<account, chainKey>>
  BY <1>1, <1>2 DEF Work, ReadName, ReadKey, ReadOwner, ReadUuid, WriteRedis, Write,
     QueryChain, CreateOnChain, Fund, Call, redisVars, chainVars
<1>4. CASE ReadName(w) \/ ReadKey(w) \/ ReadOwner(w) \/ ReadUuid(w) \/ Call(w)
  BY <1>3, <1>4, ReadNameSettled, ReadKeySettled, ReadOwnerSettled, ReadUuidSettled,
     CallSettled
<1>5. CASE WriteRedis(w)
  <2>1. PICK do \in {"Mark", "Unmark", "SavePost"} : At(w, do)
    BY <1>2, <1>5 DEF WriteRedis, Write
  <2>2. GoOn(w, worker[w])
    BY <1>2, <1>5 DEF WriteRedis
  <2> QED
    BY <1>3, <2>1, <2>2, PlainSettled
<1>6. CASE QueryChain(w)
  <2>1. At(w, "Exist")
    BY <1>6 DEF QueryChain
  <2>2. chainKey[Name(w)] # Nil
    <3>1. PICK i : i = Id(w) /\ i \in Ids /\ Name(w) = i
      BY <2>1, AccountFound
    <3> QED
      BY <3>1, RecordsNotNil
  <2>3. GoOn(w, worker[w])
    BY <1>6, <2>2 DEF QueryChain
  <2> QED
    BY <1>3, <2>1, <2>3, PlainSettled
<1>7. CASE Fund(w)
  BY <1>3, <1>7, PlainSettled DEF Fund
<1> QED
  BY <1>1, <1>2, <1>4, <1>5, <1>6, <1>7 DEF Work, CreateOnChain

LEMMA TakeSettled ==
    ASSUME IndInv, Established, NEW w \in Jobs, Take(w)
    PROVE  Settled(worker'[w], Msg(w)') /\ worker'[w].cur # Nil
<1> DEFINE r  == Head(queue[w])
           m  == req[r]
           st == [IdleWorker EXCEPT
                    !.cur = r, !.steps = StepsOf(m.kind),
                    !.id["self"] = m.id,
                    !.id["peer"] = IF m.kind \in {"follow", "unfollow"}
                                   THEN m.target ELSE Nil,
                    !.name["self"] = m.name]
<1>1. r \in Reqs /\ m \in Messages /\ Accepted(r)
  <2>1. queue[w] \in Seq(Reqs) /\ queue[w] # <<>>
    BY DEF Take, IndInv, TypeOK
  <2>2. r \in Reqs /\ 1 \in DOMAIN queue[w] /\ r = queue[w][1]
    BY <2>1, HeadTailProperties, EmptySeq, LenProperties
  <2> QED
    BY <2>2 DEF IndInv, TypeOK, Accepted
<1>2. m.kind \in AllKinds \cup FakeKinds /\ m.name \in {Nil, m.id} /\ m.kind # "account"
  <2>1. SettledReq(r) /\ m # Nil /\ checks[r] = <<>>
    BY <1>1 DEF Established, Accepted
  <2>2. m.kind # "account"
    BY <2>1 DEF SettledReq
  <2>3. m.kind \notin FakeKinds => m.name = Nil
    BY <1>1, <2>2, MessageName
  <2> QED
    BY <1>1, <2>1, <2>2, <2>3, MessageFields DEF SettledReq
<1>3. /\ st.cur = r /\ st.steps = StepsOf(m.kind)
      /\ st.name = [x \in Roles |-> IF x = "self" THEN m.name ELSE Nil]
      /\ st.id["self"] = m.id
      /\ m.kind \in Pairs => st.id["peer"] = m.target
  BY DEF IdleWorker, Roles, Pairs
<1>4. Become(w, st) /\ UNCHANGED req
  BY DEF Take, unchangedByJob
<1> HIDE DEF st
<1>5. worker'[w] = st
  BY <1>4, BecomeIs
<1>6. \A x \in Roles : st.name[x] \in {Nil, st.id[x]}
  BY <1>2, <1>3
<1> HIDE DEF m
<1>7. Settled(st, m)
  <2>1. PICK kind \in AllKinds \cup FakeKinds : m.kind = kind
    BY <1>2
  <2> QED
    BY <1>2, <1>3, <1>6, <2>1, ScriptSettled
<1> QED
  BY <1>1, <1>3, <1>4, <1>5, <1>7, NilType DEF m, Msg

\* What the handlers make of a request.
LEMMA ServerSettled ==
    ASSUME NoFaults, IndInv, Established, NEW r \in Reqs,
           Handle(r) \/ \E b \in Requests(r) : Arrive(r, b)
    PROVE  \A q \in Reqs : SettledReq(q)'
<1> USE DEF IndInv, TypeOK
<1>1. InPlace /\ \A q \in Reqs : SettledReq(q)
  BY DEF Established
<1>2. ~CheckFails(r)
  BY NoFault DEF CheckFails
<1>3. CASE UNCHANGED <<req, checks>>
  BY <1>1, <1>3 DEF SettledReq
<1>4. CASE \E b \in Requests(r) : Arrive(r, b)
  <2>1. PICK b \in Requests(r) : Arrive(r, b)
    BY <1>4
  <2>2. b.kind \notin FakeKinds
    BY RequestType DEF AllKinds, FakeKinds
  <2>3. /\ req' = [req EXCEPT ![r] = b]
        /\ checks' = [checks EXCEPT ![r] = ChecksOf(b.kind)]
    BY <2>1 DEF Arrive
  <2> QED
    BY <1>1, <2>2, <2>3 DEF SettledReq, ChecksOf, accountChecks
<1>5. CASE CheckPasses(r)
  <2>1. /\ Checking(r) /\ Passes(Head(checks[r]), req[r])
        /\ checks' = [checks EXCEPT ![r] = Tail(@)]
    BY <1>5 DEF CheckPasses
  <2>2. req[r] \in Messages
    BY <2>1, AtCheck
  <2>3. req[r].kind # "account"
    <3> SUFFICES ASSUME req[r].kind = "account" PROVE FALSE
      OBVIOUS
    <3>1. checks[r] = <<"NewId">>
      BY <1>1, <2>1 DEF SettledReq, Checking
    <3>2. account[req[r].id] = Nil
      BY <2>1, <3>1 DEF Passes
    <3> QED
      BY <1>1, <2>2, <3>2, MessageFields, RecordsNotNil
  <2>4. CASE req' = req
    BY <1>1, <2>1, <2>3, <2>4 DEF SettledReq
  <2>5. CASE req' = [req EXCEPT ![r].name = account[req[r].id].name]
    <3>1. PICK i \in Ids : i = req[r].id /\ account[i].name = i
      BY <1>1, <2>2, MessageFields, RecordsNotNil
    <3>2. PICK m : m = req[r] /\ m \in Messages
      BY <2>2
    <3>3. req' = [req EXCEPT ![r] = [m EXCEPT !.name = i]]
      BY <2>5, <3>1, <3>2
    <3>4. DOMAIN m = {"kind", "id", "item", "target", "name"}
      BY <3>2 DEF Messages, Bodies, Body, Follows
    <3>5. /\ [m EXCEPT !.name = i].kind = m.kind
          /\ [m EXCEPT !.name = i].name = i
          /\ [m EXCEPT !.name = i].id = m.id
      BY <3>4
    <3>6. req'[r].kind # "account" /\ req'[r].name = req'[r].id
      BY <2>3, <3>1, <3>2, <3>3, <3>5
    <3>7. \A q \in Reqs \ {r} : req'[q] = req[q] /\ checks'[q] = checks[q]
      BY <2>1, <3>3
    <3> QED
      BY <1>1, <3>6, <3>7 DEF SettledReq
  <2> QED
    BY <1>5, <2>4, <2>5 DEF CheckPasses
<1>6. CASE TurnsFake(r)
  <2>1. Checking(r) /\ Head(checks[r]) = "Target"
    BY <1>6 DEF TurnsFake
  <2>2. req[r] \in Messages /\ req[r].kind \in {"like", "comment"}
    BY <2>1, AtCheck
  <2>3. req[r].name = Nil
    BY <2>2, MessageName DEF FakeKinds
  <2>4. PICK m : m = req[r] /\ m \in Messages /\ m.kind \in {"like", "comment"}
    BY <2>2
  <2>5. req' = [req EXCEPT ![r] = [m EXCEPT !.kind = IF m.kind = "like" THEN "fakeLike"
                                                     ELSE "fakeComment"]]
    BY <1>6, <2>4 DEF TurnsFake
  <2>6. DOMAIN m = {"kind", "id", "item", "target", "name"}
    BY <2>4 DEF Messages, Bodies, Body, Follows
  <2>7. req'[r].kind # "account" /\ req'[r].name = Nil
    BY <2>3, <2>4, <2>5, <2>6
  <2>8. \A q \in Reqs \ {r} : req'[q] = req[q] /\ checks'[q] = checks[q]
    BY <1>6, <2>5 DEF TurnsFake
  <2> QED
    BY <1>1, <2>7, <2>8 DEF SettledReq
<1> QED
  BY <1>2, <1>3, <1>4, <1>5, <1>6 DEF Handle, CheckRefuses, Put

LEMMA EstablishedInit == Registered = Ids /\ Init => Established
<1> SUFFICES ASSUME Registered = Ids, Init PROVE Established
  OBVIOUS
<1>1. InPlace
  BY DEF InPlace, Init, Names
<1>2. \A r \in Reqs : SettledReq(r)
  BY DEF Init, SettledReq
<1>3. \A w \in Jobs : worker[w] = IdleWorker
  BY DEF Init
<1> QED
  BY <1>1, <1>2, <1>3, IdleSettled DEF Established

\* A step keeps the accounts in place, and drops no follow or unfollow.
LEMMA EstablishedStep ==
    ASSUME NoFaults, IndInv, Established, [Next]_vars
    PROVE  Established' /\ [Served]_vars
<1>1. Kept
  BY StepKeeps
<1>2. \A w \in Jobs : worker[w].cur # Nil => worker[w].cur \in Reqs /\ Accepted(worker[w].cur)
  BY Whereabouts
<1>3. ASSUME NEW w \in Jobs, worker'[w] = worker[w]
      PROVE  Settled(worker'[w], Msg(w)')
  <2>1. worker[w].cur # Nil => Msg(w)' = Msg(w)
    BY <1>1, <1>2, <1>3 DEF Kept, Msg
  <2>2. Settled(worker[w], Msg(w))
    BY DEF Established
  <2> QED
    BY <1>3, <2>1, <2>2 DEF Settled
<1>4. ASSUME NEW r \in Reqs, Handle(r) \/ \E b \in Requests(r) : Arrive(r, b)
      PROVE  Established' /\ [Served]_vars
  <2>1. UNCHANGED <<account, chainKey, worker>>
    BY <1>4, ServerKept DEF unchangedByServer
  <2>2. \A q \in Reqs : SettledReq(q)'
    BY <1>4, ServerSettled
  <2>3. Served
    BY <2>1 DEF Served
  <2> QED
    BY <1>3, <2>1, <2>2, <2>3 DEF Established, InPlace
<1>5. ASSUME NEW w \in Jobs, Take(w)
      PROVE  Established' /\ [Served]_vars
  <2>1. OthersKept(w) /\ Settled(worker'[w], Msg(w)') /\ worker'[w].cur # Nil
    BY <1>5, TakeRepairs, TakeSettled
  <2>2. UNCHANGED <<account, chainKey, req, checks>>
    BY <1>5 DEF Take, redisVars, chainVars, unchangedByJob
  <2>3. Served
    BY <2>1 DEF Served, OthersKept
  <2>4. \A q \in Reqs : SettledReq(q)'
    BY <2>2 DEF Established, SettledReq
  <2>5. \A v \in Jobs : Settled(worker'[v], Msg(v)')
    BY <1>3, <2>1 DEF OthersKept
  <2> QED
    BY <2>2, <2>3, <2>4, <2>5 DEF Established, InPlace
<1>6. ASSUME NEW w \in Jobs, Work(w)
      PROVE  Established' /\ [Served]_vars
  <2>1. OthersKept(w) /\ UNCHANGED <<req, checks>>
    BY <1>6, WorkProgress, WorkOK DEF unchangedByJob
  <2>2. Carries(w) /\ UNCHANGED <<account, chainKey>>
    BY <1>6, WorkSettled DEF Established
  <2>3. worker'[w].cur \in {worker[w].cur, Nil}
    BY <1>6, CurKept
  <2>4. Settled(worker'[w], Msg(w)')
    <3>1. worker'[w].cur # Nil => Msg(w)' = Msg(w)
      BY <2>1, <2>3 DEF Msg
    <3> QED
      BY <2>2, <3>1 DEF Carries, Settled
  <2>5. \A v \in Jobs : Settled(worker'[v], Msg(v)')
    BY <1>3, <2>1, <2>4 DEF OthersKept
  <2>6. \A q \in Reqs : SettledReq(q)'
    BY <2>1 DEF Established, SettledReq
  <2>7. Served
    BY <2>1, <2>2 DEF Served, OthersKept, Carries
  <2> QED
    BY <2>2, <2>5, <2>6, <2>7 DEF Established, InPlace
<1>7. ~Crash
  BY NoFault DEF Crash
<1>8. CASE UNCHANGED vars
  BY <1>3, <1>8 DEF vars, Established, InPlace, SettledReq
<1> QED
  BY <1>4, <1>5, <1>6, <1>7, <1>8 DEF Next

\* Without failures, and with every account on the chain under its recorded
\* key, redis and the chain agree on who follows whom whenever the follower's
\* worker is not serving the pair, however follow and unfollow requests that
\* read a stale key overlap, and whatever else the users do.
THEOREM FollowsAgreeUnfailing ==
    ASSUME NoFaults, Registered = Ids
    PROVE  Spec => []FollowAgreement
<1>1. FollowInv => FollowAgreement
  BY LastOpIs DEF FollowInv, FollowAgreement, Agree
<1>2. Init => Established
  BY EstablishedInit
<1>3. IndInv /\ Established /\ [Next]_vars => Established' /\ [Served]_vars
  BY EstablishedStep
<1> QED
  BY <1>1, <1>2, <1>3, InitOK, StepOK, OrderInit, OrderStep, RepairInit, RepairStep,
     FollowInit, FollowStep, PTL DEF Spec

=============================================================================
