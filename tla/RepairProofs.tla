---------------------------- MODULE RepairProofs ----------------------------
(***************************************************************************)
(* What a worker has done before it broadcasts, whatever failed before:    *)
(* the accounts that it names are on the chain, and the unique key of its  *)
(* message is in redis.                                                    *)
(***************************************************************************)
EXTENDS ProxyProofs

\* An account is only looked for under the name that will be used.
NameFirst(s) ==
    \A x \in Roles : \A j, k \in DOMAIN s :
        s[j] \in {<<"Exist", x>>, <<"Create", x>>} /\ s[k] = <<"Name", x>> => k < j

\* Before step k, the account of role x is looked for or created, or it is
\* among accounts c already.
Covered(st, k, x, c) ==
    \/ Before(st.steps, k, <<"Exist", x>>)
    \/ Before(st.steps, k, <<"Create", x>>)
    \/ /\ ~Before(st.steps, k, <<"Name", x>>)
       /\ st.name[x] # Nil => c[st.name[x]] # Nil

Repairs(st, c) ==
    /\ NameFirst(st.steps)
    /\ \A k \in DOMAIN st.steps : st.steps[k][1] = "Call" =>
          \A x \in Roles : Covered(st, k, x, c)

\* Before its call, the unique key of message m is set, or it is among m's
\* markers already.
Marks(st, m, marks) ==
    m.kind \in {"like", "signin"} =>
        \A k \in DOMAIN st.steps : st.steps[k][1] = "Call" =>
            Before(st.steps, k, <<"Mark", "self">>) \/ UniqueKey(m) \in marks

\* Entry e of a ledger is of a message that was put, and is marked.
Marked(e) == /\ e.req \in Reqs /\ Accepted(e.req) /\ e.op = req[e.req].kind
             /\ e.op \in {"like", "signin"} => UniqueKey(req[e.req]) \in marker

RepairInv ==
    /\ \A w \in Jobs : Repairs(worker[w], chainKey)
    /\ \A w \in Jobs : worker[w].cur # Nil => Marks(worker[w], Msg(w), marker)
    /\ \A i \in Ids : \A k \in DOMAIN ledger[i] : Marked(ledger[i][k])

-----------------------------------------------------------------------------
(* Scripts.                                                                 *)

LEMMA IdleRepairs == ASSUME NEW c PROVE Repairs(IdleWorker, c)
  BY DEF Repairs, NameFirst, IdleWorker

\* Every process function looks for the accounts that it names, and marks
\* what must not be done twice.
LEMMA ScriptRepairs ==
    ASSUME NEW kind \in AllKinds \cup FakeKinds, NEW st \in Workers, NEW c,
           NEW m, m.kind = kind, NEW marks,
           st.steps = StepsOf(kind), st.name["peer"] = Nil,
           kind \notin {"account"} \cup FakeKinds => st.name["self"] = Nil
    PROVE  Repairs(st, c) /\ Marks(st, m, marks)
<1> USE DEF Repairs, NameFirst, Covered, Marks, Before, S, P, Roles, AllKinds, FakeKinds, StepsOf
<1>1. CASE kind = "account"
  BY <1>1 DEF processAccountMsg, createAccount
<1>2. CASE kind = "post"
  BY <1>2 DEF processPostMsg
<1>3. CASE kind = "like"
  BY <1>3 DEF processLikeMsg
<1>4. CASE kind = "comment"
  BY <1>4 DEF processCommentMsg
<1>5. CASE kind = "follow"
  BY <1>5 DEF processFollowMsg
<1>6. CASE kind = "unfollow"
  BY <1>6 DEF processUnfollowMsg
<1>7. CASE kind = "signin"
  BY <1>7 DEF processSignInMsg
<1>8. CASE kind \in FakeKinds
  BY <1>8 DEF processFakeMsg
<1> QED
  BY <1>1, <1>2, <1>3, <1>4, <1>5, <1>6, <1>7, <1>8

-----------------------------------------------------------------------------
(* Progress in a script.                                                    *)

\* The worker has made the first step of old, with what that step promises.
Advances(old, new, m, c, marks) ==
    /\ new.cur = old.cur
    /\ new.steps = Tail(old.steps)
    /\ \A x \in Roles : Head(old.steps) # <<"Name", x>> => new.name[x] = old.name[x]
    /\ \A x \in Roles :
          Head(old.steps) \in {<<"Exist", x>>, <<"Create", x>>} =>
             (new.name[x] # Nil => c[new.name[x]] # Nil)
    /\ Head(old.steps) = <<"Mark", "self">> => UniqueKey(m) \in marks

\* The worker creates the account that it looked for.
Creates(old, new) ==
    \E x \in Roles : /\ Head(old.steps) = <<"Exist", x>>
                     /\ new = [old EXCEPT !.steps = createAccount(x) \o Tail(@)]

\* Accounts stay on the chain.
Grows(c, d) == \A n \in Names : c[n] # Nil => d[n] # Nil

\* The unique keys of likes and sign-ins stay in redis.
Stays(marks, next) == \A u \in marks : u[1] # "follow" => u \in next

LEMMA RepairsGrow ==
    ASSUME NEW st \in Workers, NEW c, NEW d, Grows(c, d), Repairs(st, c)
    PROVE  Repairs(st, d)
<1>1. \A x \in Roles : st.name[x] \in Names \cup {Nil}
  BY DEF Workers
<1> QED
  BY <1>1 DEF Repairs, Covered, Grows

LEMMA MarksStay ==
    ASSUME NEW st, NEW m, NEW marks, NEW next, Stays(marks, next), Marks(st, m, marks)
    PROVE  Marks(st, m, next)
<1>1. m.kind \in {"like", "signin"} => UniqueKey(m)[1] # "follow"
  BY DEF UniqueKey
<1> QED
  BY <1>1 DEF Marks, Stays

LEMMA AdvanceRepairs ==
    ASSUME NEW old \in Workers, old.steps # <<>>, NEW new, NEW m,
           NEW c, NEW d, Grows(c, d), NEW marks, NEW next, Stays(marks, next),
           Repairs(old, c), Advances(old, new, m, d, next)
    PROVE  /\ Repairs(new, d)
           /\ Marks(old, m, marks) => Marks(new, m, next)
<1> DEFINE s == old.steps
           t == Tail(s)
<1>1. s \in Seq(Steps) /\ s # <<>>
  BY DEF Workers
<1>2. /\ Len(s) \in Nat \ {0} /\ DOMAIN t = 1 .. Len(s) - 1
      /\ \A k \in 1 .. Len(s) - 1 : t[k] = s[k + 1]
      /\ Head(s) = s[1] /\ DOMAIN s = 1 .. Len(s)
  BY <1>1, TailSteps, LenProperties
<1>3. ASSUME NEW k \in DOMAIN t
      PROVE  /\ k \in Nat /\ k + 1 \in DOMAIN s /\ t[k] = s[k + 1]
             /\ \A e : Before(s, k + 1, e) <=> Head(s) = e \/ Before(t, k, e)
  <2>1. k \in 1 .. Len(s) - 1
    BY <1>2
  <2>2. \A e : Before(s, k + 1, e) <=> Head(s) = e \/ Before(t, k, e)
    BY <1>1, <2>1, BeforeTail
  <2>3. k \in Nat /\ k + 1 \in DOMAIN s
    BY ONLY <1>2, <2>1
  <2> QED
    BY <1>2, <2>1, <2>2, <2>3
<1>4. NameFirst(s) /\ Repairs(old, d)
  BY RepairsGrow DEF Repairs
<1>5. new.steps = t
  BY DEF Advances
<1> HIDE DEF s, t
<1>6. NameFirst(t)
  <2> SUFFICES ASSUME NEW x \in Roles, NEW j \in DOMAIN t, NEW k \in DOMAIN t,
                      t[j] \in {<<"Exist", x>>, <<"Create", x>>}, t[k] = <<"Name", x>>
               PROVE  k < j
    BY DEF NameFirst
  <2>1. k + 1 < j + 1
    BY <1>3, <1>4 DEF NameFirst
  <2> QED
    BY <1>3, <2>1
<1>7. ASSUME NEW x \in Roles, Head(s) \in {<<"Exist", x>>, <<"Create", x>>},
             NEW k \in DOMAIN t
      PROVE  ~Before(t, k, <<"Name", x>>)
  <2> SUFFICES ASSUME NEW j \in 1 .. k - 1, t[j] = <<"Name", x>>
               PROVE  FALSE
    BY DEF Before
  <2>1. j \in DOMAIN t /\ 1 \in DOMAIN s
    BY <1>2
  <2>2. j + 1 < 1
    BY <1>2, <1>3, <1>4, <1>7, <2>1 DEF NameFirst
  <2> QED
    BY <1>3, <2>1, <2>2
<1>8. ASSUME NEW k \in DOMAIN t, t[k][1] = "Call", NEW x \in Roles
      PROVE  Covered(new, k, x, d)
  <2>1. Covered(old, k + 1, x, d)
    BY <1>3, <1>4, <1>8 DEF Repairs, s
  <2>2. CASE Head(s) \in {<<"Exist", x>>, <<"Create", x>>}
    BY <2>2, <1>5, <1>7, <1>8 DEF Covered, Advances, s
  <2>3. CASE Head(s) \notin {<<"Exist", x>>, <<"Create", x>>}
    <3>1. CASE Before(s, k + 1, <<"Exist", x>>) \/ Before(s, k + 1, <<"Create", x>>)
      BY <2>3, <3>1, <1>3, <1>5 DEF Covered
    <3>2. CASE /\ ~Before(s, k + 1, <<"Name", x>>)
               /\ old.name[x] # Nil => d[old.name[x]] # Nil
      <4>1. Head(s) # <<"Name", x>> /\ ~Before(t, k, <<"Name", x>>)
        BY <1>3, <3>2
      <4>2. new.name[x] = old.name[x]
        BY <4>1 DEF Advances, s
      <4> QED
        BY <3>2, <4>1, <4>2, <1>5 DEF Covered
    <3> QED
      BY <2>1, <3>1, <3>2 DEF Covered, s
  <2> QED
    BY <2>2, <2>3
<1>9. ASSUME Marks(old, m, marks), m.kind \in {"like", "signin"},
             NEW k \in DOMAIN t, t[k][1] = "Call"
      PROVE  Before(t, k, <<"Mark", "self">>) \/ UniqueKey(m) \in next
  <2>1. Marks(old, m, next)
    BY <1>9, MarksStay
  <2>2. Before(s, k + 1, <<"Mark", "self">>) \/ UniqueKey(m) \in next
    BY <2>1, <1>3, <1>9 DEF Marks, s
  <2> QED
    BY <2>2, <1>3 DEF Advances, s
<1>10. Repairs(new, d)
  BY <1>5, <1>6, <1>8 DEF Repairs
<1>11. Marks(old, m, marks) => Marks(new, m, next)
  BY <1>5, <1>9 DEF Marks
<1> QED
  BY <1>10, <1>11

LEMMA CreateRepairs ==
    ASSUME NEW old \in Workers, old.steps # <<>>, NEW new, Creates(old, new),
           NEW m, NEW c, NEW marks, Repairs(old, c)
    PROVE  /\ Repairs(new, c)
           /\ Marks(old, m, marks) => Marks(new, m, marks)
<1> PICK role \in Roles :
           /\ Head(old.steps) = <<"Exist", role>>
           /\ new = [old EXCEPT !.steps = createAccount(role) \o Tail(@)]
  BY DEF Creates
<1> DEFINE s == old.steps
           t == createAccount(role) \o Tail(s)
<1>1. /\ s \in Seq(Steps) /\ s # <<>> /\ Len(s) \in Nat \ {0}
      /\ s[1] = <<"Exist", role>> /\ DOMAIN s = 1 .. Len(s)
  BY TailSteps, LenProperties DEF Workers
<1>2. /\ DOMAIN t = 1 .. Len(s) + 1
      /\ t[1] = <<"SetAccount", role>>
      /\ t[2] = <<"Create", role>>
      /\ \A k \in 2 .. Len(s) : t[k + 1] = s[k]
  BY <1>1, CreateSteps
<1>3. new.steps = t /\ new.name = old.name
  BY DEF Workers
<1>4. NameFirst(s)
  BY DEF Repairs
<1> HIDE DEF s, t
<1>5. ASSUME NEW j \in DOMAIN t, j \notin {1, 2}
      PROVE  j - 1 \in 2 .. Len(s) /\ j - 1 \in DOMAIN s /\ t[j] = s[j - 1]
  <2>1. j - 1 \in 2 .. Len(s) /\ (j - 1) + 1 = j
    BY <1>1, <1>2, <1>5
  <2> QED
    BY <2>1, <1>1, <1>2
<1>6. NameFirst(t)
  <2> SUFFICES ASSUME NEW x \in Roles, NEW j \in DOMAIN t, NEW k \in DOMAIN t,
                      t[j] \in {<<"Exist", x>>, <<"Create", x>>}, t[k] = <<"Name", x>>
               PROVE  k < j
    BY DEF NameFirst
  <2>1. j # 1 /\ k # 1 /\ k # 2
    BY <1>2
  <2>2. k - 1 \in 2 .. Len(s) /\ k - 1 \in DOMAIN s /\ s[k - 1] = <<"Name", x>>
    BY <2>1, <1>5
  <2>3. j # 2
    <3> SUFFICES ASSUME j = 2 PROVE FALSE
      OBVIOUS
    <3>1. x = role /\ 1 \in DOMAIN s
      BY <1>1, <1>2
    <3>2. k - 1 < 1
      BY <1>1, <1>4, <2>2, <3>1 DEF NameFirst
    <3> QED
      BY <1>1, <2>2, <3>2
  <2>4. j - 1 \in DOMAIN s /\ s[j - 1] = t[j]
    BY <2>1, <2>3, <1>5
  <2>5. k - 1 < j - 1
    BY <1>4, <2>2, <2>4 DEF NameFirst
  <2> QED
    BY <2>5, <1>2
<1>7. ASSUME NEW k \in DOMAIN t, t[k][1] = "Call"
      PROVE  /\ k - 1 \in 2 .. Len(s) /\ k - 1 \in DOMAIN s /\ s[k - 1] = t[k]
             /\ Before(t, k, <<"Create", role>>)
             /\ \A e : Before(s, k - 1, e) /\ e # <<"Exist", role>> => Before(t, k, e)
             /\ \A e : Before(t, k, e) /\ e[1] # "SetAccount" /\ e[1] # "Create" =>
                         Before(s, k - 1, e)
  <2>1. k \notin {1, 2}
    BY <1>2, <1>7
  <2>2. k - 1 \in 2 .. Len(s) /\ k - 1 \in DOMAIN s /\ s[k - 1] = t[k]
    BY <2>1, <1>5
  <2>3. Before(t, k, <<"Create", role>>)
    BY <1>1, <1>2, <2>2 DEF Before
  <2>4. ASSUME NEW e, NEW j \in 1 .. (k - 1) - 1, s[j] = e, e # <<"Exist", role>>
        PROVE  j + 1 \in 1 .. k - 1 /\ t[j + 1] = e
    <3>1. j # 1
      BY <2>4, <1>1
    <3>2. j \in 2 .. Len(s) /\ j + 1 \in 1 .. k - 1
      BY <1>1, <2>2, <3>1
    <3> QED
      BY <1>2, <2>4, <3>2
  <2>5. ASSUME NEW e, NEW j \in 1 .. k - 1, t[j] = e,
               e[1] # "SetAccount", e[1] # "Create"
        PROVE  j - 1 \in 1 .. (k - 1) - 1 /\ s[j - 1] = e
    <3>1. j \notin {1, 2} /\ j \in DOMAIN t
      BY <2>5, <1>1, <1>2, <2>2
    <3>2. s[j - 1] = e /\ j - 1 \in 2 .. Len(s)
      BY <2>5, <3>1, <1>5
    <3>3. j - 1 \in 1 .. (k - 1) - 1
      BY <1>1, <2>2, <3>2
    <3> QED
      BY <3>2, <3>3
  <2> QED
    BY <2>2, <2>3, <2>4, <2>5 DEF Before
<1>8. ASSUME NEW k \in DOMAIN t, t[k][1] = "Call", NEW x \in Roles
      PROVE  Covered(new, k, x, c)
  <2>1. Covered(old, k - 1, x, c)
    BY <1>7, <1>8 DEF Repairs, s
  <2>2. CASE x = role
    BY <2>2, <1>3, <1>7, <1>8 DEF Covered
  <2>3. CASE x # role
    <3>1. CASE Before(s, k - 1, <<"Exist", x>>)
      <4>1. <<"Exist", x>> # <<"Exist", role>>
        BY <2>3
      <4> QED
        BY <3>1, <4>1, <1>3, <1>7, <1>8 DEF Covered
    <3>2. CASE Before(s, k - 1, <<"Create", x>>)
      BY <3>2, <1>3, <1>7, <1>8 DEF Covered
    <3>3. CASE /\ ~Before(s, k - 1, <<"Name", x>>)
               /\ old.name[x] # Nil => c[old.name[x]] # Nil
      <4>1. ~Before(t, k, <<"Name", x>>)
        BY <3>3, <1>7, <1>8
      <4> QED
        BY <3>3, <4>1, <1>3 DEF Covered
    <3> QED
      BY <2>1, <3>1, <3>2, <3>3 DEF Covered, s
  <2> QED
    BY <2>2, <2>3
<1>9. ASSUME Marks(old, m, marks), m.kind \in {"like", "signin"},
             NEW k \in DOMAIN t, t[k][1] = "Call"
      PROVE  Before(t, k, <<"Mark", "self">>) \/ UniqueKey(m) \in marks
  <2>1. Before(s, k - 1, <<"Mark", "self">>) \/ UniqueKey(m) \in marks
    BY <1>7, <1>9 DEF Marks, s
  <2>2. <<"Mark", "self">> # <<"Exist", role>>
    OBVIOUS
  <2> QED
    BY <2>1, <2>2, <1>7, <1>9
<1>10. Repairs(new, c)
  BY <1>3, <1>6, <1>8 DEF Repairs
<1>11. Marks(old, m, marks) => Marks(new, m, marks)
  BY <1>3, <1>9 DEF Marks
<1> QED
  BY <1>10, <1>11

-----------------------------------------------------------------------------
(* The steps of a worker, as progress in its script.                        *)

\* What a step of worker w may make of it.
Progress(w) == \/ worker'[w] = IdleWorker
               \/ Advances(worker[w], worker'[w], Msg(w), chainKey', marker')
               \/ Creates(worker[w], worker'[w])

OthersKept(w) == \A v \in Jobs \ {w} : worker'[v] = worker[v]

LEMMA BecomeIs ==
    ASSUME IndInv, NEW w \in Jobs, NEW st, Become(w, st)
    PROVE  worker'[w] = st /\ OthersKept(w)
  BY DEF Become, IndInv, TypeOK, OthersKept

\* A step do that goes on, leaving its locals in st.
LEMMA GoOnProgress ==
    ASSUME IndInv, NEW w \in Jobs, NEW do, At(w, do), NEW st \in Workers,
           st.cur = worker[w].cur, st.steps = worker[w].steps,
           \A x \in Roles : <<do, Role(w)>> # <<"Name", x>> =>
                              st.name[x] = worker[w].name[x],
           do \in {"Exist", "Create"} =>
              (st.name[Role(w)] # Nil => chainKey'[st.name[Role(w)]] # Nil),
           do = "Mark" => UniqueKey(Msg(w)) \in marker',
           GoOn(w, st)
    PROVE  Progress(w) /\ OthersKept(w)
<1>1. Head(worker[w].steps) = <<do, Role(w)>> /\ Role(w) \in Roles
  BY AtStep
<1> DEFINE new == [st EXCEPT !.steps = Tail(@)]
<1>2. /\ new.cur = st.cur /\ new.steps = Tail(st.steps) /\ new.name = st.name
  BY DEF Workers
<1>3. PICK next : next = (IF Len(st.steps) = 1 THEN IdleWorker ELSE new)
                  /\ Become(w, next)
  BY DEF GoOn
<1> HIDE DEF new
<1>4. worker'[w] = next /\ OthersKept(w)
  BY <1>3, BecomeIs
<1>5. Advances(worker[w], new, Msg(w), chainKey', marker')
  <2>1. \A x \in Roles : Head(worker[w].steps) # <<"Name", x>> =>
                            new.name[x] = worker[w].name[x]
    BY <1>1, <1>2
  <2>2. ASSUME NEW x \in Roles,
               Head(worker[w].steps) \in {<<"Exist", x>>, <<"Create", x>>}
        PROVE  new.name[x] # Nil => chainKey'[new.name[x]] # Nil
    <3>1. do \in {"Exist", "Create"} /\ x = Role(w)
      BY <1>1, <2>2
    <3> QED
      BY <3>1, <1>2
  <2>3. Head(worker[w].steps) = <<"Mark", "self">> => UniqueKey(Msg(w)) \in marker'
    BY <1>1
  <2> QED
    BY <1>2, <2>1, <2>2, <2>3 DEF Advances
<1> QED
  BY <1>3, <1>4, <1>5 DEF Progress

LEMMA IdleProgress ==
    ASSUME IndInv, NEW w \in Jobs, Abandon(w)
    PROVE  Progress(w) /\ OthersKept(w)
  BY BecomeIs DEF Abandon, Progress

LEMMA CreateProgress ==
    ASSUME IndInv, NEW w \in Jobs, At(w, "Exist"),
           Become(w, [worker[w] EXCEPT !.steps = createAccount(Role(w)) \o Tail(@)])
    PROVE  Progress(w) /\ OthersKept(w)
<1>1. Head(worker[w].steps) = <<"Exist", Role(w)>> /\ Role(w) \in Roles
  BY AtStep
<1> DEFINE st == [worker[w] EXCEPT !.steps = createAccount(Role(w)) \o Tail(@)]
<1>2. worker'[w] = st /\ OthersKept(w)
  <2>1. Become(w, st)
    OBVIOUS
  <2> HIDE DEF st
  <2> QED
    BY <2>1, BecomeIs
<1> QED
  BY <1>1, <1>2 DEF Creates, Progress

\* A step that does not touch its locals, nor is one that promises anything.
LEMMA PlainProgress ==
    ASSUME IndInv, NEW w \in Jobs, NEW do, At(w, do), GoOn(w, worker[w]),
           do \in {"Exist", "Create"} => chainKey'[Name(w)] # Nil,
           do = "Mark" => UniqueKey(Msg(w)) \in marker'
    PROVE  Progress(w) /\ OthersKept(w)
<1>1. worker[w] \in Workers
  BY AtStep
<1>2. do \in {"Exist", "Create"} =>
         (worker[w].name[Role(w)] # Nil => chainKey'[worker[w].name[Role(w)]] # Nil)
  BY DEF Name
<1> QED
  BY <1>1, <1>2, GoOnProgress

LEMMA ReadNameProgress ==
    ASSUME IndInv, NEW w \in Jobs, ReadName(w)
    PROVE  Progress(w) /\ OthersKept(w)
<1>1. At(w, "Name")
  BY DEF ReadName
<1>2. CASE Id(w) = Nil \/ account[Id(w)] = Nil
  BY <1>2, IdleProgress DEF ReadName
<1>3. CASE ~(Id(w) = Nil \/ account[Id(w)] = Nil)
  <2> DEFINE st == [worker[w] EXCEPT !.name[Role(w)] = account[Id(w)].name]
  <2>1. worker[w] \in Workers /\ Role(w) \in Roles
    BY <1>1, AtStep
  <2>2. Id(w) \in Ids
    BY <1>3, <2>1 DEF Id, Workers
  <2>3. account[Id(w)].name \in Names
    BY <1>3, <2>2, RecordTypes
  <2>4. st \in Workers /\ st.cur = worker[w].cur /\ st.steps = worker[w].steps
    BY <2>1, <2>3 DEF Workers
  <2>5. \A x \in Roles : x # Role(w) => st.name[x] = worker[w].name[x]
    BY <2>1, <2>3 DEF Workers
  <2>6. GoOn(w, st)
    BY <1>3 DEF ReadName
  <2> HIDE DEF st
  <2>7. \A x \in Roles : <<"Name", Role(w)>> # <<"Name", x>> =>
                            st.name[x] = worker[w].name[x]
    BY <2>5
  <2> QED
    BY <1>1, <2>4, <2>6, <2>7, GoOnProgress
<1> QED
  BY <1>2, <1>3

\* Steps that change another local than a name.
LEMMA LocalProgress ==
    ASSUME IndInv, NEW w \in Jobs, NEW do \in {"Key", "Owner", "Uuid", "SetAccount"},
           At(w, do), NEW st \in Workers, st.cur = worker[w].cur,
           st.steps = worker[w].steps, st.name = worker[w].name, GoOn(w, st)
    PROVE  Progress(w) /\ OthersKept(w)
  BY GoOnProgress

LEMMA ReadKeyProgress ==
    ASSUME IndInv, NEW w \in Jobs, ReadKey(w)
    PROVE  Progress(w) /\ OthersKept(w)
<1>1. At(w, "Key")
  BY DEF ReadKey
<1>2. CASE account[Id(w)] = Nil
  BY <1>2, IdleProgress DEF ReadKey
<1>3. CASE account[Id(w)] # Nil
  <2> DEFINE st == [worker[w] EXCEPT !.key = account[Id(w)].key]
  <2>1. worker[w] \in Workers /\ Id(w) \in Ids
    BY <1>1, AtStep, MessageFields DEF Id
  <2>2. account[Id(w)].key \in Keys
    BY <1>3, <2>1, RecordTypes
  <2>3. /\ st \in Workers /\ st.cur = worker[w].cur /\ st.steps = worker[w].steps
        /\ st.name = worker[w].name
    BY <2>1, <2>2 DEF Workers
  <2>4. GoOn(w, st)
    BY <1>3 DEF ReadKey
  <2> HIDE DEF st
  <2> QED
    BY <1>1, <2>3, <2>4, LocalProgress
<1> QED
  BY <1>2, <1>3

LEMMA ReadOwnerProgress ==
    ASSUME IndInv, NEW w \in Jobs, ReadOwner(w)
    PROVE  Progress(w) /\ OthersKept(w)
<1> DEFINE p     == post[Msg(w).target]
           owner == IF p = Nil THEN Nil ELSE p.owner
           st    == [worker[w] EXCEPT !.id["peer"] = owner]
<1>1. At(w, "Owner") /\ GoOn(w, st)
  BY DEF ReadOwner
<1>2. worker[w] \in Workers /\ Msg(w) \in Messages /\ Msg(w).kind \in {"like", "comment"}
  BY <1>1, AtStep
<1>3. owner \in Ids \cup {Nil}
  <2>1. Msg(w).target \in PostIds
    BY <1>2, MessageFields
  <2> QED
    BY <2>1 DEF IndInv, TypeOK, PostRecords
<1> HIDE DEF owner
<1>4. /\ st \in Workers /\ st.cur = worker[w].cur /\ st.steps = worker[w].steps
      /\ st.name = worker[w].name
  BY <1>2, <1>3 DEF Workers, Roles
<1> HIDE DEF st
<1> QED
  BY <1>1, <1>4, LocalProgress

LEMMA ReadUuidProgress ==
    ASSUME IndInv, NEW w \in Jobs, ReadUuid(w)
    PROVE  Progress(w) /\ OthersKept(w)
<1> DEFINE p    == post[Msg(w).target]
           uuid == IF p = Nil THEN Nil ELSE p.uuid
           st   == [worker[w] EXCEPT !.uuid = uuid]
<1>1. At(w, "Uuid") /\ GoOn(w, st)
  BY DEF ReadUuid
<1>2. worker[w] \in Workers /\ Msg(w) \in Messages /\ Msg(w).kind \in {"like", "comment"}
  BY <1>1, AtStep
<1>3. uuid \in Uuids \cup {Nil}
  <2>1. Msg(w).target \in PostIds
    BY <1>2, MessageFields
  <2> QED
    BY <2>1 DEF IndInv, TypeOK, PostRecords
<1> HIDE DEF uuid
<1>4. /\ st \in Workers /\ st.cur = worker[w].cur /\ st.steps = worker[w].steps
      /\ st.name = worker[w].name
  BY <1>2, <1>3 DEF Workers
<1> HIDE DEF st
<1> QED
  BY <1>1, <1>4, LocalProgress

LEMMA WriteProgress ==
    ASSUME IndInv, NEW w \in Jobs, WriteRedis(w)
    PROVE  Progress(w) /\ OthersKept(w)
<1>1. CASE At(w, "SetAccount")
  <2> DEFINE st == [worker[w] EXCEPT !.fresh = NewKey(w)]
  <2>1. worker[w] \in Workers /\ NewKey(w) \in Keys
    BY <1>1, AtStep, NewKeyType
  <2>2. /\ st \in Workers /\ st.cur = worker[w].cur /\ st.steps = worker[w].steps
        /\ st.name = worker[w].name
    BY <2>1 DEF Workers
  <2>3. GoOn(w, st)
    BY <1>1 DEF WriteRedis
  <2> HIDE DEF st
  <2> QED
    BY <1>1, <2>2, <2>3, LocalProgress
<1>2. CASE ~At(w, "SetAccount")
  <2>1. PICK do \in {"Mark", "Unmark", "SavePost"} :
              At(w, do) /\ (do = "Mark" => UniqueKey(Msg(w)) \in marker')
    BY <1>2 DEF WriteRedis, Write
  <2>2. GoOn(w, worker[w])
    BY <1>2 DEF WriteRedis
  <2> QED
    BY <2>1, <2>2, PlainProgress
<1> QED
  BY <1>1, <1>2

LEMMA WorkProgress ==
    ASSUME IndInv, NEW w \in Jobs, Work(w)
    PROVE  Progress(w) /\ OthersKept(w)
<1>1. CASE ReadName(w)
  BY <1>1, ReadNameProgress
<1>2. CASE ReadKey(w)
  BY <1>2, ReadKeyProgress
<1>3. CASE ReadOwner(w)
  BY <1>3, ReadOwnerProgress
<1>4. CASE ReadUuid(w)
  BY <1>4, ReadUuidProgress
<1>5. CASE WriteRedis(w)
  BY <1>5, WriteProgress
<1>6. CASE RedisFails(w) \/ Call(w) \/ BroadcastFails(w)
  BY <1>6, IdleProgress DEF RedisFails, Call, BroadcastFails
<1>7. CASE QueryChain(w)
  <2>1. At(w, "Exist") /\ UNCHANGED chainKey
    BY <1>7 DEF QueryChain, chainVars
  <2>2. CASE chainKey[Name(w)] # Nil
    BY <1>7, <2>1, <2>2, PlainProgress DEF QueryChain
  <2>3. CASE chainKey[Name(w)] = Nil
    BY <1>7, <2>3, CreateProgress DEF QueryChain
  <2> QED
    BY <2>2, <2>3
<1>8. CASE QueryFails(w)
  BY <1>8, CreateProgress DEF QueryFails
<1>9. CASE CreateOnChain(w)
  <2>1. At(w, "Create")
    BY <1>9 DEF CreateOnChain
  <2>2. CASE chainKey[Name(w)] = Nil
    <3>1. chainKey' = [chainKey EXCEPT ![Name(w)] = worker[w].fresh] /\ GoOn(w, worker[w])
      BY <1>9, <2>2 DEF CreateOnChain
    <3>2. worker[w].fresh # Nil /\ Name(w) \in Names
      BY <2>1, AtStep, NilType
    <3>3. chainKey'[Name(w)] # Nil
      BY <3>1, <3>2 DEF IndInv, TypeOK
    <3> QED
      BY <2>1, <3>1, <3>3, PlainProgress
  <2>3. CASE chainKey[Name(w)] # Nil
    BY <1>9, <2>3, IdleProgress DEF CreateOnChain
  <2> QED
    BY <2>2, <2>3
<1>10. CASE Fund(w)
  BY <1>10, PlainProgress DEF Fund
<1> QED
  BY <1>1, <1>2, <1>3, <1>4, <1>5, <1>6, <1>7, <1>8, <1>9, <1>10 DEF Work

-----------------------------------------------------------------------------
(* What no step takes back.                                                 *)

Kept == /\ \A r \in Reqs : Accepted(r) => Accepted(r)' /\ req'[r] = req[r]
        /\ Grows(chainKey, chainKey')
        /\ Stays(marker, marker')

LEMMA WorkKeeps ==
    ASSUME IndInv, NEW w \in Jobs, Work(w)
    PROVE  Kept
<1>1. UNCHANGED <<req, checks, reply>>
  BY WorkOK DEF unchangedByJob
<1>2. Grows(chainKey, chainKey')
  <2>1. CASE UNCHANGED chainKey
    BY <2>1 DEF Grows
  <2>2. CASE /\ At(w, "Create")
             /\ chainKey' = [chainKey EXCEPT ![Name(w)] = worker[w].fresh]
    <3>1. worker[w].fresh # Nil
      BY <2>2, AtStep, NilType
    <3> QED
      BY <2>2, <3>1 DEF Grows, IndInv, TypeOK
  <2> QED
    BY <2>1, <2>2 DEF Work, ReadName, ReadKey, ReadOwner, ReadUuid, WriteRedis, RedisFails,
       QueryChain, QueryFails, CreateOnChain, Fund, Call, BroadcastFails, chainVars
<1>3. Stays(marker, marker')
  <2>1. CASE marker \subseteq marker'
    BY <2>1 DEF Stays
  <2>2. CASE At(w, "Unmark") /\ marker' = marker \ {UniqueKey(Msg(w))}
    <3>1. Msg(w).kind = "unfollow"
      BY <2>2, AtStep
    <3>2. UniqueKey(Msg(w))[1] = "follow"
      BY <3>1 DEF UniqueKey
    <3> QED
      BY <2>2, <3>2 DEF Stays
  <2> QED
    BY <2>1, <2>2 DEF Work, ReadName, ReadKey, ReadOwner, ReadUuid, WriteRedis, RedisFails,
       QueryChain, QueryFails, CreateOnChain, Fund, Call, BroadcastFails, redisVars, Write
<1> QED
  BY <1>1, <1>2, <1>3 DEF Kept, Accepted

\* A step of the server.
LEMMA ServerKept ==
    ASSUME IndInv, NEW r \in Reqs,
           Handle(r) \/ \E b \in Requests(r) : Arrive(r, b)
    PROVE  Kept /\ UNCHANGED unchangedByServer
<1>1. UNCHANGED unchangedByServer
  BY DEF Handle, Arrive, CheckPasses, CheckRefuses, TurnsFake, CheckFails, Put
<1>2. ~Accepted(r)
  BY DEF Accepted, Handle, Arrive, CheckPasses, CheckRefuses, TurnsFake, CheckFails, Put,
         Checking
<1>3. ASSUME NEW q \in Reqs \ {r}
      PROVE  req'[q] = req[q] /\ checks'[q] = checks[q] /\ reply'[q] = reply[q]
  <2> USE DEF IndInv, TypeOK
  <2>1. CASE \E b \in Requests(r) : Arrive(r, b)
    BY <2>1 DEF Arrive
  <2>2. CASE CheckPasses(r)
    BY <2>2 DEF CheckPasses
  <2>3. CASE CheckRefuses(r)
    BY <2>3 DEF CheckRefuses
  <2>4. CASE TurnsFake(r)
    BY <2>4 DEF TurnsFake
  <2>5. CASE CheckFails(r)
    BY <2>5 DEF CheckFails
  <2>6. CASE Put(r)
    BY <2>6 DEF Put
  <2> QED
    BY <2>1, <2>2, <2>3, <2>4, <2>5, <2>6 DEF Handle
<1> QED
  BY <1>1, <1>2, <1>3 DEF Kept, Accepted, Grows, Stays, unchangedByServer

LEMMA StepKeeps ==
    ASSUME IndInv, [Next]_vars
    PROVE  Kept
<1>1. ASSUME NEW r \in Reqs, Handle(r) \/ \E b \in Requests(r) : Arrive(r, b)
      PROVE  Kept
  BY <1>1, ServerKept
<1>2. ASSUME NEW w \in Jobs, Take(w)
      PROVE  Kept
  BY <1>2 DEF Take, Kept, Accepted, Grows, Stays, redisVars, chainVars, unchangedByJob
<1>3. ASSUME NEW w \in Jobs, Work(w)
      PROVE  Kept
  BY <1>3, WorkKeeps
<1>4. CASE Crash
  <2>1. \A r \in Reqs : reply'[r] = IF req[r] # Nil /\ reply[r] = Nil
                                    THEN "Lost" ELSE reply[r]
    BY <1>4 DEF Crash
  <2>2. UNCHANGED <<req, checks, marker, chainKey>>
    BY <1>4 DEF Crash, redisVars, chainVars
  <2> QED
    BY <2>1, <2>2 DEF Kept, Accepted, Grows, Stays
<1>5. CASE UNCHANGED vars
  BY <1>5 DEF vars, Kept, Accepted, Grows, Stays
<1> QED
  BY <1>1, <1>2, <1>3, <1>4, <1>5 DEF Next

-----------------------------------------------------------------------------
(* RepairInv is inductive.                                                  *)

\* A worker that a step does not touch keeps what it has done.
LEMMA RestRepairs ==
    ASSUME IndInv, RepairInv, Kept, NEW v \in Jobs, worker'[v] = worker[v]
    PROVE  /\ Repairs(worker'[v], chainKey')
           /\ worker'[v].cur # Nil => Marks(worker'[v], req'[worker'[v].cur], marker')
<1>1. worker[v] \in Workers /\ WorkerOK(worker[v]) /\ Repairs(worker[v], chainKey)
  BY DEF IndInv, TypeOK, RepairInv
<1>2. Repairs(worker[v], chainKey')
  BY <1>1, RepairsGrow DEF Kept
<1>3. ASSUME worker[v].cur # Nil
      PROVE  Marks(worker[v], req'[worker[v].cur], marker')
  <2>1. worker[v].cur \in Reqs /\ Accepted(worker[v].cur)
    BY <1>1, <1>3 DEF Workers, WorkerOK
  <2>2. req'[worker[v].cur] = req[worker[v].cur]
    BY <2>1 DEF Kept
  <2>3. Marks(worker[v], req[worker[v].cur], marker)
    BY <1>3 DEF RepairInv, Msg
  <2> QED
    BY <2>2, <2>3, MarksStay DEF Kept
<1> QED
  BY <1>2, <1>3

LEMMA WorkRepairs ==
    ASSUME IndInv, RepairInv, NEW w \in Jobs, Work(w)
    PROVE  /\ Repairs(worker'[w], chainKey')
           /\ worker'[w].cur # Nil => Marks(worker'[w], req'[worker'[w].cur], marker')
<1>1. worker[w] \in Workers /\ WorkerOK(worker[w]) /\ Repairs(worker[w], chainKey)
  BY DEF IndInv, TypeOK, RepairInv
<1>2. Progress(w) /\ Kept /\ UNCHANGED req
  BY WorkProgress, WorkKeeps, WorkOK DEF unchangedByJob
<1>3. worker[w].steps # <<>> /\ worker[w].cur # Nil
  <2>1. PICK do : At(w, do)
    BY DEF Work, ReadName, ReadKey, ReadOwner, ReadUuid, WriteRedis, Write, RedisFails,
       QueryChain, QueryFails, CreateOnChain, Fund, Call, BroadcastFails
  <2> QED
    BY <2>1, AtStep, NilType
<1>4. Marks(worker[w], Msg(w), marker)
  BY <1>3 DEF RepairInv
<1>5. CASE worker'[w] = IdleWorker
  <2>1. IdleWorker.cur = Nil
    BY DEF IdleWorker
  <2> QED
    BY <1>5, <2>1, IdleRepairs
<1>6. CASE Advances(worker[w], worker'[w], Msg(w), chainKey', marker')
  <2>1. /\ Repairs(worker'[w], chainKey')
        /\ Marks(worker'[w], Msg(w), marker')
    BY <1>1, <1>2, <1>3, <1>4, <1>6, AdvanceRepairs DEF Kept
  <2>2. worker'[w].cur = worker[w].cur
    BY <1>6 DEF Advances
  <2> QED
    BY <1>2, <2>1, <2>2 DEF Msg
<1>7. CASE Creates(worker[w], worker'[w])
  <2>1. Repairs(worker[w], chainKey') /\ Marks(worker[w], Msg(w), marker')
    BY <1>1, <1>2, <1>4, RepairsGrow, MarksStay DEF Kept
  <2>2. /\ Repairs(worker'[w], chainKey')
        /\ Marks(worker'[w], Msg(w), marker')
    BY <1>1, <1>3, <1>7, <2>1, CreateRepairs
  <2>3. worker'[w].cur = worker[w].cur
    BY <1>1, <1>7 DEF Creates, Workers
  <2> QED
    BY <1>2, <2>2, <2>3 DEF Msg
<1> QED
  BY <1>2, <1>5, <1>6, <1>7 DEF Progress

\* Only messages that carry a name have one before they are worked on.
LEMMA MessageName ==
    ASSUME NEW m \in Messages, m.kind \notin {"account"} \cup FakeKinds
    PROVE  m.name = Nil
  BY DEF Messages, Bodies, Body, Follows, FakeKinds

LEMMA TakeRepairs ==
    ASSUME IndInv, NEW w \in Jobs, Take(w)
    PROVE  /\ Repairs(worker'[w], chainKey')
           /\ worker'[w].cur # Nil => Marks(worker'[w], req'[worker'[w].cur], marker')
           /\ OthersKept(w)
<1> DEFINE r  == Head(queue[w])
           m  == req[r]
           st == [IdleWorker EXCEPT
                    !.cur = r, !.steps = StepsOf(m.kind),
                    !.id["self"] = m.id,
                    !.id["peer"] = IF m.kind \in {"follow", "unfollow"}
                                   THEN m.target ELSE Nil,
                    !.name["self"] = m.name]
<1>1. r \in Reqs /\ m \in Messages
  <2>1. queue[w] \in Seq(Reqs) /\ queue[w] # <<>>
    BY DEF Take, IndInv, TypeOK
  <2>2. r \in Reqs /\ 1 \in DOMAIN queue[w] /\ r = queue[w][1]
    BY <2>1, HeadTailProperties, EmptySeq, LenProperties
  <2> QED
    BY <2>2 DEF IndInv, TypeOK, Accepted
<1>2. /\ m.kind \in AllKinds \cup FakeKinds /\ m.id \in Ids
      /\ m.kind \in {"follow", "unfollow"} => m.target \in Ids
      /\ m.name \in Names \cup {Nil}
      /\ m.kind \notin {"account"} \cup FakeKinds => m.name = Nil
  BY <1>1, MessageFields, MessageName
<1>3. StepsOf(m.kind) \in Seq(Steps)
  BY <1>2, StepsOfType
<1>4. /\ st \in Workers /\ st.cur = r /\ st.steps = StepsOf(m.kind)
      /\ st.name["self"] = m.name /\ st.name["peer"] = Nil
  BY <1>1, <1>2, <1>3 DEF Workers, IdleWorker, Roles
<1>5. Become(w, st) /\ UNCHANGED <<req, marker, chainKey>>
  BY DEF Take, redisVars, chainVars, unchangedByJob
<1> HIDE DEF st
<1>6. worker'[w] = st /\ OthersKept(w)
  BY <1>5, BecomeIs
<1> HIDE DEF m
<1>7. Repairs(st, chainKey) /\ Marks(st, m, marker)
  <2>1. PICK kind \in AllKinds \cup FakeKinds : m.kind = kind
    BY <1>2
  <2> QED
    BY <1>2, <1>4, <2>1, ScriptRepairs
<1> QED
  BY <1>4, <1>5, <1>6, <1>7 DEF m

\* The entry that a call leaves is marked.
LEMMA CallMarked ==
    ASSUME IndInv, RepairInv, NEW w \in Jobs, At(w, "Call")
    PROVE  Marked(Entry(w))
<1>1. /\ worker[w].cur \in Reqs /\ Accepted(worker[w].cur) /\ worker[w].steps # <<>>
      /\ worker[w] \in Workers /\ Head(worker[w].steps) = <<"Call", Role(w)>>
  BY AtStep
<1>2. worker[w].steps[1][1] = "Call" /\ 1 \in DOMAIN worker[w].steps
  <2>1. worker[w].steps \in Seq(Steps)
    BY <1>1 DEF Workers
  <2> QED
    BY <1>1, <2>1, TailSteps, LenProperties
<1>3. Marks(worker[w], Msg(w), marker)
  BY <1>1, NilType DEF RepairInv
<1>4. ~Before(worker[w].steps, 1, <<"Mark", "self">>)
  BY DEF Before
<1>5. Msg(w).kind \in {"like", "signin"} => UniqueKey(Msg(w)) \in marker
  BY <1>2, <1>3, <1>4 DEF Marks
<1>6. Entry(w).req = worker[w].cur /\ Entry(w).op = Msg(w).kind
  BY DEF Entry
<1> QED
  BY <1>1, <1>5, <1>6 DEF Marked, Msg

\* Every entry of a ledger was there before the step, or is the one of a call.
LEMMA LedgerStep ==
    ASSUME IndInv, [Next]_vars, NEW i \in Ids, NEW k \in DOMAIN ledger'[i]
    PROVE  \/ k \in DOMAIN ledger[i] /\ ledger'[i][k] = ledger[i][k]
           \/ \E w \in Jobs : At(w, "Call") /\ ledger'[i][k] = Entry(w)
<1>1. CASE UNCHANGED ledger
  BY <1>1
<1>2. CASE ~UNCHANGED ledger
  <2>1. PICK w \in Jobs : Call(w)
    <3>1. \A v \in Jobs : Work(v) => Call(v)
      BY <1>2, LedgerKept
    <3> QED
      BY <1>2, <3>1 DEF Next, Arrive, Handle, CheckPasses, CheckRefuses, TurnsFake,
         CheckFails, Put, Take, Crash, vars, chainVars, unchangedByServer
  <2>2. At(w, "Call") /\ ledger' = [ledger EXCEPT ![Id(w)] = Append(@, Entry(w))]
    BY <1>2, <2>1 DEF Call
  <2>3. Entry(w) \in Entries
    BY <2>2, EntryType
  <2>4. ledger[i] \in Seq(Entries)
    BY DEF IndInv, TypeOK
  <2>5. ledger'[i] = IF i = Id(w) THEN Append(ledger[i], Entry(w)) ELSE ledger[i]
    BY <2>2 DEF IndInv, TypeOK
  <2>6. CASE i = Id(w)
    <3> DEFINE f == ledger[i]
               g == Append(f, Entry(w))
    <3>1. /\ g \in Seq(Entries) /\ Len(g) = Len(f) + 1 /\ Len(f) \in Nat
          /\ \A l \in 1 .. Len(f) : g[l] = f[l]
          /\ g[Len(f) + 1] = Entry(w)
          /\ DOMAIN f = 1 .. Len(f)
      BY <2>3, <2>4, AppendProperties, LenProperties
    <3> HIDE DEF g, f
    <3>2. DOMAIN g = 1 .. Len(f) + 1
      BY <3>1, LenProperties
    <3>3. ledger'[i] = g
      BY <2>5, <2>6 DEF g, f
    <3>4. k \in DOMAIN f \/ k = Len(f) + 1
      BY <3>1, <3>2, <3>3
    <3> QED
      BY <2>2, <3>1, <3>3, <3>4 DEF f
  <2>7. CASE i # Id(w)
    BY <2>5, <2>7
  <2> QED
    BY <2>6, <2>7
<1> QED
  BY <1>1, <1>2

LEMMA RepairInit == Init => RepairInv
<1> SUFFICES ASSUME Init PROVE RepairInv
  OBVIOUS
<1>1. \A w \in Jobs : worker[w] = IdleWorker /\ worker[w].cur = Nil
  BY DEF Init, IdleWorker
<1>2. \A i \in Ids : ledger[i] = <<>>
  BY DEF Init
<1>3. \A i \in Ids : DOMAIN ledger[i] = {}
  BY <1>2
<1> QED
  BY <1>1, <1>3, IdleRepairs DEF RepairInv

LEMMA RepairStep == IndInv /\ RepairInv /\ [Next]_vars => RepairInv'
<1> SUFFICES ASSUME IndInv, RepairInv, [Next]_vars PROVE RepairInv'
  OBVIOUS
<1>1. Kept
  BY StepKeeps
<1>2. ASSUME NEW v \in Jobs
      PROVE  /\ Repairs(worker'[v], chainKey')
             /\ worker'[v].cur # Nil => Marks(worker'[v], req'[worker'[v].cur], marker')
  <2>1. CASE worker'[v] = worker[v]
    BY <1>1, <2>1, RestRepairs
  <2>2. ASSUME NEW w \in Jobs, Take(w) \/ Work(w), worker'[v] # worker[v]
        PROVE  /\ Repairs(worker'[v], chainKey')
               /\ worker'[v].cur # Nil =>
                    Marks(worker'[v], req'[worker'[v].cur], marker')
    <3>1. OthersKept(w)
      BY <2>2, TakeRepairs, WorkProgress
    <3>2. v = w
      BY <2>2, <3>1 DEF OthersKept
    <3> QED
      BY <2>2, <3>2, TakeRepairs, WorkRepairs
  <2>3. CASE Crash
    <3>1. worker'[v] = IdleWorker /\ IdleWorker.cur = Nil
      BY <2>3 DEF Crash, IdleWorker
    <3> QED
      BY <3>1, IdleRepairs
  <2>4. ASSUME NEW r \in Reqs, Handle(r) \/ \E b \in Requests(r) : Arrive(r, b)
        PROVE  worker'[v] = worker[v]
    BY <2>4, ServerKept DEF unchangedByServer
  <2>5. CASE UNCHANGED vars
    BY <2>5, <2>1 DEF vars
  <2> QED
    BY <2>1, <2>2, <2>3, <2>4, <2>5 DEF Next
<1>3. ASSUME NEW i \in Ids, NEW k \in DOMAIN ledger'[i]
      PROVE  Marked(ledger[i][k])'
  <2>1. PICK e : e = ledger'[i][k] /\ Marked(e)
    <3>1. CASE k \in DOMAIN ledger[i] /\ ledger'[i][k] = ledger[i][k]
      BY <3>1 DEF RepairInv
    <3>2. CASE \E w \in Jobs : At(w, "Call") /\ ledger'[i][k] = Entry(w)
      BY <3>2, CallMarked
    <3> QED
      BY <3>1, <3>2, LedgerStep
  <2>2. e.req \in Reqs /\ Accepted(e.req)' /\ req'[e.req] = req[e.req]
    BY <1>1, <2>1 DEF Kept, Marked
  <2>3. e.op \in {"like", "signin"} => UniqueKey(req[e.req]) \in marker'
    <3> SUFFICES ASSUME e.op \in {"like", "signin"}
                 PROVE  UniqueKey(req[e.req]) \in marker'
      OBVIOUS
    <3>1. UniqueKey(req[e.req]) \in marker /\ req[e.req].kind \in {"like", "signin"}
      BY <2>1 DEF Marked
    <3>2. UniqueKey(req[e.req])[1] # "follow"
      BY <3>1 DEF UniqueKey
    <3> QED
      BY <3>1, <3>2, <1>1 DEF Kept, Stays
  <2> QED
    BY <2>1, <2>2, <2>3 DEF Marked, Accepted
<1> QED
  BY <1>2, <1>3 DEF RepairInv, Msg

\* A worker that broadcasts knows its account, and the account it follows,
\* likes or answers, to be on the chain, whatever failed on the way: it has
\* found or created each since it last read its name ("if account not exist
\* in chain, create it firstly").
THEOREM AccountsThere == Spec => []AccountsBeforeCall
<1>1. IndInv /\ RepairInv => AccountsBeforeCall
  <2> SUFFICES ASSUME IndInv, RepairInv, NEW w \in Jobs, At(w, "Call"), NEW x \in Roles,
                      worker[w].name[x] # Nil
               PROVE  chainKey[worker[w].name[x]] # Nil
    BY DEF AccountsBeforeCall
  <2>1. /\ worker[w].steps # <<>> /\ worker[w] \in Workers
        /\ Head(worker[w].steps) = <<"Call", Role(w)>>
    BY AtStep
  <2>2. worker[w].steps[1][1] = "Call" /\ 1 \in DOMAIN worker[w].steps
    <3>1. worker[w].steps \in Seq(Steps)
      BY <2>1 DEF Workers
    <3> QED
      BY <2>1, <3>1, TailSteps, LenProperties
  <2>3. Covered(worker[w], 1, x, chainKey)
    BY <2>2 DEF RepairInv, Repairs
  <2>4. \A e : ~Before(worker[w].steps, 1, e)
    BY DEF Before
  <2> QED
    BY <2>3, <2>4 DEF Covered
<1> QED
  BY <1>1, InitOK, StepOK, RepairInit, RepairStep, PTL DEF Spec

\* A like or a sign-in that the chain has accepted has its unique key in
\* redis, for ever: the worker sets it before it broadcasts, and only
\* unfollowing deletes such a key, its own.
THEOREM MarksKept == Spec => []MarkedOnChain
<1>1. RepairInv => MarkedOnChain
  BY DEF RepairInv, MarkedOnChain, Marked
<1> QED
  BY <1>1, InitOK, StepOK, RepairInit, RepairStep, PTL DEF Spec

=============================================================================
