----------------------------- MODULE ProxyProofs -----------------------------
(***************************************************************************)
(* Theorems about the proxy, for every number of users, requests, workers  *)
(* and failures.                                                           *)
(***************************************************************************)
EXTENDS Proxy, SequenceTheorems, TLAPS

-----------------------------------------------------------------------------
(* The tables the steps are driven by.                                      *)

\* The script of every kind of message is made of steps and is not empty.
LEMMA StepsOfType ==
    \A kind \in AllKinds \cup FakeKinds :
        StepsOf(kind) \in Seq(Steps) /\ StepsOf(kind) # <<>>
<1> USE DEF Steps, Roles, S, P
<1>1. processAccountMsg \in Seq(Steps) /\ processAccountMsg # <<>>
  BY DEF processAccountMsg, createAccount
<1>2. processPostMsg \in Seq(Steps) /\ processPostMsg # <<>>
  BY DEF processPostMsg
<1>3. processLikeMsg \in Seq(Steps) /\ processLikeMsg # <<>>
  BY DEF processLikeMsg
<1>4. processCommentMsg \in Seq(Steps) /\ processCommentMsg # <<>>
  BY DEF processCommentMsg
<1>5. processFollowMsg \in Seq(Steps) /\ processFollowMsg # <<>>
  BY DEF processFollowMsg
<1>6. processUnfollowMsg \in Seq(Steps) /\ processUnfollowMsg # <<>>
  BY DEF processUnfollowMsg
<1>7. processSignInMsg \in Seq(Steps) /\ processSignInMsg # <<>>
  BY DEF processSignInMsg
<1>8. processFakeMsg \in Seq(Steps) /\ processFakeMsg # <<>>
  BY DEF processFakeMsg
<1> QED
  BY <1>1, <1>2, <1>3, <1>4, <1>5, <1>6, <1>7, <1>8 DEF StepsOf, AllKinds, FakeKinds

\* Creating an account is made of steps.
LEMMA CreateType ==
    \A role \in Roles : /\ createAccount(role) \in Seq(Steps)
                        /\ Len(createAccount(role)) = 2
  BY DEF createAccount, Steps, Roles

\* The reads of every handler are checks.
LEMMA ChecksOfType ==
    \A kind \in AllKinds : ChecksOf(kind) \in Seq(Checks) /\ ChecksOf(kind) # <<>>
<1> USE DEF Checks
<1>1. accountChecks \in Seq(Checks) /\ accountChecks # <<>>
  BY DEF accountChecks
<1>2. postChecks \in Seq(Checks) /\ postChecks # <<>>
  BY DEF postChecks
<1>3. likeChecks \in Seq(Checks) /\ likeChecks # <<>>
  BY DEF likeChecks
<1>4. commentChecks \in Seq(Checks) /\ commentChecks # <<>>
  BY DEF commentChecks
<1>5. followChecks \in Seq(Checks) /\ followChecks # <<>>
  BY DEF followChecks
<1>6. unfollowChecks \in Seq(Checks) /\ unfollowChecks # <<>>
  BY DEF unfollowChecks
<1>7. signInChecks \in Seq(Checks) /\ signInChecks # <<>>
  BY DEF signInChecks
<1> QED
  BY <1>1, <1>2, <1>3, <1>4, <1>5, <1>6, <1>7 DEF ChecksOf, AllKinds

\* What a client may send is a message, under the id of a user.
LEMMA RequestType ==
    \A r \in Reqs : \A b \in Requests(r) : b \in Messages /\ b.kind \in AllKinds
  BY DEF Requests, Messages, Bodies, Body, Follows, AllKinds, Names

\* The fields of a message, by its kind.
LEMMA MessageFields ==
    ASSUME NEW m \in Messages
    PROVE  /\ m.id \in Ids
           /\ m.kind \in AllKinds \cup FakeKinds
           /\ m.kind \in {"like", "comment"} => m.target \in PostIds
           /\ m.kind \in {"follow", "unfollow"} => m.target \in Ids
           /\ m.kind \in {"post", "comment"} => m.item \in PostIds \cup CommentIds
           /\ m.kind = "signin" => m.item \in Dates
           /\ m.kind = "account" => m.name \in Names
           /\ m.name \in Names \cup {Nil}
  BY DEF Messages, Bodies, Body, Follows, AllKinds, FakeKinds, Names

\* A like or a comment may turn fake, and a fake message may get a name.
LEMMA MessageTurns ==
    ASSUME NEW m \in Messages
    PROVE  /\ m.kind = "like" => [m EXCEPT !.kind = "fakeLike"] \in Messages
           /\ m.kind = "comment" => [m EXCEPT !.kind = "fakeComment"] \in Messages
           /\ m.kind \in FakeKinds =>
                \A n \in Names : [m EXCEPT !.name = n] \in Messages
  BY DEF Messages, Bodies, Body, Follows, AllKinds, FakeKinds, Names

-----------------------------------------------------------------------------
(* The inductive invariant.                                                 *)

\* A handler makes only the checks that suit its request, and a fake message
\* has a name when it is put.
RequestOK(r) ==
    /\ \A k \in DOMAIN checks[r] :
          /\ req[r] # Nil
          /\ checks[r][k] = "FakeName" => req[r].kind \in FakeKinds
          /\ checks[r][k] = "Target" => req[r].kind \in {"like", "comment"}
    /\ req[r] # Nil /\ req[r].kind \in FakeKinds =>
          \/ checks[r] = <<"FakeName">>
          \/ checks[r] = <<>> /\ req[r].name \in Names

\* The handler of r has put its message: nothing about r changes any more.
Accepted(r) == req[r] # Nil /\ reply[r] # Nil /\ checks[r] = <<>>

\* Step e comes before step k of s.
Before(s, k, e) == \E j \in 1 .. k - 1 : s[j] = e

\* Step k of state st suits a message of this kind, and what it uses is
\* there, or is set by an earlier step of what is left of the script.
SuitedStep(st, k, kind) ==
    LET do == st.steps[k][1]
        x  == st.steps[k][2]
    IN  /\ do \in {"Owner", "Uuid"} => kind \in {"like", "comment"}
        /\ do = "Mark" => kind \in {"like", "follow", "signin"}
        /\ do = "Unmark" => kind = "unfollow"
        /\ do = "SavePost" => kind \in {"post", "comment"}
        /\ do \in {"Key", "Call"} => x = "self"
        /\ do = "Owner" => /\ st.name["peer"] = Nil
                           /\ ~Before(st.steps, k, <<"Name", "peer">>)
        /\ do \in {"Exist", "SetAccount", "Create", "Call"} =>
              st.name[x] # Nil \/ Before(st.steps, k, <<"Name", x>>)
        /\ do = "Create" =>
              st.fresh # Nil \/ Before(st.steps, k, <<"SetAccount", x>>)

WorkerOK(st) ==
    /\ st.cur = Nil <=> st.steps = <<>>
    /\ st.cur # Nil => /\ Accepted(st.cur)
                       /\ st.id["self"] = req[st.cur].id
    /\ \A k \in DOMAIN st.steps : SuitedStep(st, k, req[st.cur].kind)
    /\ \A x \in Roles : st.name[x] # Nil => st.id[x] # Nil

IndInv ==
    /\ TypeOK
    /\ \A r \in Reqs : RequestOK(r)
    /\ \A w \in Jobs : \A k \in DOMAIN queue[w] : Accepted(queue[w][k])
    /\ \A w \in Jobs : WorkerOK(worker[w])

\* What keeps the ledger in order: along a worker, from the ledgers of its
\* users over the message in hand to its channel, tickets only grow.
Ticketed(r, w) == /\ reply[r] # Nil
                  /\ ticket[r] \in 1 .. clock
                  /\ JobOf(req[r].id) = w

OrderInv ==
    /\ LedgerInOrder
    /\ \A w \in Jobs : \A k \in DOMAIN queue[w] :
          /\ Ticketed(queue[w][k], w)
          /\ \A l \in DOMAIN queue[w] :
                k < l => ticket[queue[w][k]] < ticket[queue[w][l]]
          /\ worker[w].cur # Nil => ticket[worker[w].cur] < ticket[queue[w][k]]
    /\ \A w \in Jobs : worker[w].cur # Nil => Ticketed(worker[w].cur, w)
    /\ \A i \in Ids : \A n \in DOMAIN ledger[i] :
          LET w == JobOf(i)
              t == ticket[ledger[i][n].req]
          IN  /\ reply[ledger[i][n].req] # Nil
              /\ t <= clock
              /\ worker[w].cur # Nil => t < ticket[worker[w].cur]
              /\ \A k \in DOMAIN queue[w] : t < ticket[queue[w][k]]

-----------------------------------------------------------------------------
(* How the local state of a worker changes.                                 *)

LEMMA JobOfType == \A i \in Ids : JobOf(i) \in Jobs
  BY ConfigAssumption DEF JobOf, Jobs

LEMMA NilType == /\ Nil \notin Reqs /\ Nil \notin Ids /\ Nil \notin Names
                 /\ Nil \notin Keys /\ Nil \notin Messages /\ Nil \notin Replies
  BY ConfigAssumption DEF Names

LEMMA IdleType == IdleWorker \in Workers /\ WorkerOK(IdleWorker)
  BY DEF IdleWorker, Workers, WorkerOK

\* A script starts in a state that suits its message.
LEMMA ScriptSuits ==
    ASSUME NEW kind \in AllKinds \cup FakeKinds, NEW st \in Workers,
           st.steps = StepsOf(kind), st.name["peer"] = Nil,
           kind \in {"account"} \cup FakeKinds => st.name["self"] # Nil
    PROVE  \A k \in DOMAIN st.steps : SuitedStep(st, k, kind)
<1> USE DEF SuitedStep, Before, S, P, Roles, AllKinds, FakeKinds, StepsOf
<1>1. CASE kind = "account"
  BY <1>1 DEF processAccountMsg, createAccount
<1>2. CASE kind = "post"
  BY <1>2 DEF processPostMsg
<1>3. CASE kind = "like"
  BY <1>3 DEF processLikeMsg
<1>4. CASE kind = "comment"
  BY <1>4 DEF processCommentMsg
<1>5. CASE kind = "follow"
  BY <1>5 DEF processFollowMsg
<1>6. CASE kind = "unfollow"
  BY <1>6 DEF processUnfollowMsg
<1>7. CASE kind = "signin"
  BY <1>7 DEF processSignInMsg
<1>8. CASE kind \in FakeKinds
  BY <1>8 DEF processFakeMsg
<1> QED
  BY <1>1, <1>2, <1>3, <1>4, <1>5, <1>6, <1>7, <1>8

\* What is left of a script after its first step.
LEMMA TailSteps ==
    ASSUME NEW s \in Seq(Steps), s # <<>>
    PROVE  /\ Len(s) \in Nat \ {0}
           /\ Tail(s) \in Seq(Steps)
           /\ Len(Tail(s)) = Len(s) - 1
           /\ Len(s) # 1 => Tail(s) # <<>>
           /\ DOMAIN Tail(s) = 1 .. Len(s) - 1
           /\ \A k \in 1 .. Len(s) - 1 : Tail(s)[k] = s[k + 1]
           /\ Head(s) = s[1]
<1>1. Len(s) \in Nat \ {0}
  BY EmptySeq
<1>2. /\ Tail(s) \in Seq(Steps) /\ Len(Tail(s)) = Len(s) - 1
      /\ \A k \in 1 .. Len(Tail(s)) : Tail(s)[k] = s[k + 1]
  BY HeadTailProperties
<1>3. DOMAIN Tail(s) = 1 .. Len(Tail(s)) /\ Len(<<>>) = 0
  BY <1>2, LenProperties
<1>4. Head(s) = s[1]
  OBVIOUS
<1>5. ASSUME Len(s) # 1
      PROVE  Tail(s) # <<>>
  <2>1. Len(Tail(s)) # 0
    BY <1>1, <1>2, <1>5
  <2> QED
    BY ONLY <2>1, <1>3
<1>6. DOMAIN Tail(s) = 1 .. Len(s) - 1
  BY <1>2, <1>3
<1>7. \A k \in 1 .. Len(s) - 1 : Tail(s)[k] = s[k + 1]
  BY <1>2
<1>8. Len(Tail(s)) = Len(s) - 1 /\ Tail(s) \in Seq(Steps)
  BY <1>2
<1> QED
  BY ONLY <1>1, <1>4, <1>5, <1>6, <1>7, <1>8

LEMMA BeforeTail ==
    ASSUME NEW s \in Seq(Steps), s # <<>>, NEW k \in 1 .. Len(s) - 1, NEW e
    PROVE  Before(s, k + 1, e) <=> Head(s) = e \/ Before(Tail(s), k, e)
<1>1. Len(s) \in Nat \ {0} /\ k \in Nat \ {0}
  BY TailSteps
<1>2. ASSUME NEW j \in 1 .. k, s[j] = e, Head(s) # e
      PROVE  j - 1 \in 1 .. k - 1 /\ Tail(s)[j - 1] = e
  <2>1. j # 1
    BY <1>2, TailSteps
  <2>2. j - 1 \in 1 .. k - 1 /\ j - 1 \in 1 .. Len(s) - 1 /\ (j - 1) + 1 = j
    BY <1>1, <2>1
  <2> QED
    BY <2>2, <1>2, TailSteps
<1>3. ASSUME NEW j \in 1 .. k - 1, Tail(s)[j] = e
      PROVE  j + 1 \in 1 .. k /\ s[j + 1] = e
  <2>1. j + 1 \in 1 .. k /\ j \in 1 .. Len(s) - 1
    BY <1>1
  <2> QED
    BY <2>1, <1>3, TailSteps
<1>4. Head(s) = s[1] /\ 1 \in 1 .. k /\ (k + 1) - 1 = k
  BY <1>1, TailSteps
<1> QED
  BY <1>2, <1>3, <1>4 DEF Before

\* A script whose first step is replaced by the creation of an account.
LEMMA CreateSteps ==
    ASSUME NEW s \in Seq(Steps), s # <<>>, NEW role \in Roles
    PROVE  LET t == createAccount(role) \o Tail(s)
           IN  /\ t \in Seq(Steps) /\ t # <<>>
               /\ DOMAIN t = 1 .. Len(s) + 1
               /\ t[1] = <<"SetAccount", role>>
               /\ t[2] = <<"Create", role>>
               /\ \A k \in 2 .. Len(s) : t[k + 1] = s[k]
<1> DEFINE c == createAccount(role)
           t == c \o Tail(s)
<1>1. /\ c \in Seq(Steps) /\ Len(c) = 2
      /\ c[1] = <<"SetAccount", role>>
      /\ c[2] = <<"Create", role>>
  BY CreateType DEF createAccount
<1>2. Tail(s) \in Seq(Steps) /\ Len(Tail(s)) = Len(s) - 1 /\ Len(s) \in Nat \ {0}
      /\ \A k \in 1 .. Len(s) - 1 : Tail(s)[k] = s[k + 1]
  BY TailSteps
<1> HIDE DEF c
<1>3. /\ t \in Seq(Steps) /\ Len(t) = Len(c) + Len(Tail(s))
      /\ \A i \in 1 .. Len(c) + Len(Tail(s)) :
            t[i] = IF i <= Len(c) THEN c[i] ELSE Tail(s)[i - Len(c)]
  BY <1>1, <1>2, ConcatProperties
<1> HIDE DEF t
<1>4. DOMAIN t = 1 .. Len(t) /\ Len(t) = Len(s) + 1 /\ Len(<<>>) = 0
  BY <1>1, <1>2, <1>3, LenProperties
<1>5. t[1] = c[1] /\ t[2] = c[2]
  BY <1>1, <1>2, <1>3
<1>6. ASSUME NEW k \in 2 .. Len(s)
      PROVE  t[k + 1] = s[k]
  <2>1. k - 1 \in 1 .. Len(s) - 1 /\ (k - 1) + 1 = k /\ (k + 1) - 2 = k - 1
        /\ k + 1 \in 1 .. 2 + (Len(s) - 1) /\ ~(k + 1 <= 2)
    BY <1>2
  <2>2. t[k + 1] = Tail(s)[k - 1]
    BY <1>1, <1>2, <1>3, <2>1
  <2> QED
    BY <2>1, <2>2, <1>2
<1>7. t # <<>>
  BY <1>2, <1>4
<1> QED
  BY <1>1, <1>3, <1>4, <1>5, <1>6, <1>7 DEF t, c

LEMMA BeforeCreate ==
    ASSUME NEW s \in Seq(Steps), s # <<>>, NEW role \in Roles,
           Head(s) = <<"Exist", role>>, NEW k \in 2 .. Len(s), NEW e
    PROVE  LET t == createAccount(role) \o Tail(s)
           IN  /\ Before(s, k, e) /\ e[1] # "Exist" => Before(t, k + 1, e)
               /\ Before(t, k + 1, e) /\ e[1] \notin {"SetAccount", "Create"} =>
                    Before(s, k, e)
<1> DEFINE t == createAccount(role) \o Tail(s)
<1>1. Len(s) \in Nat \ {0} /\ k \in Nat /\ (k + 1) - 1 = k /\ s[1] = Head(s)
  BY TailSteps
<1>2. /\ t[1] = <<"SetAccount", role>>
      /\ t[2] = <<"Create", role>>
      /\ \A i \in 2 .. Len(s) : t[i + 1] = s[i]
  BY CreateSteps
<1> HIDE DEF t
<1>3. ASSUME NEW j \in 1 .. k - 1, s[j] = e, e[1] # "Exist"
      PROVE  j + 1 \in 1 .. k /\ t[j + 1] = e
  <2>1. j # 1
    BY <1>3, <1>1
  <2>2. j \in 2 .. Len(s) /\ j + 1 \in 1 .. k
    BY <2>1, <1>1
  <2> QED
    BY <2>2, <1>3, <1>2
<1>4. ASSUME NEW j \in 1 .. k, t[j] = e, e[1] \notin {"SetAccount", "Create"}
      PROVE  j - 1 \in 1 .. k - 1 /\ s[j - 1] = e
  <2>1. j # 1 /\ j # 2
    BY <1>4, <1>2
  <2>2. j - 1 \in 2 .. Len(s) /\ j - 1 \in 1 .. k - 1 /\ (j - 1) + 1 = j
    BY <2>1, <1>1
  <2> QED
    BY <2>2, <1>4, <1>2
<1>5. Before(s, k, e) /\ e[1] # "Exist" => Before(t, k + 1, e)
  BY <1>1, <1>3 DEF Before
<1>6. Before(t, k + 1, e) /\ e[1] \notin {"SetAccount", "Create"} => Before(s, k, e)
  BY <1>1, <1>4 DEF Before
<1> QED
  BY <1>5, <1>6 DEF t

\* What GoOn leaves a worker with, when the step has left in its locals what
\* later steps use.
LEMMA NextStep ==
    ASSUME NEW old \in Workers, WorkerOK(old), old.steps # <<>>,
           NEW st \in Workers, st.cur = old.cur, st.steps = old.steps,
           st.id["self"] = old.id["self"],
           \A x \in Roles : st.name[x] # Nil => st.id[x] # Nil,
           \A x \in Roles : old.name[x] # Nil \/ Head(old.steps) = <<"Name", x>> =>
                              st.name[x] # Nil,
           \A x \in Roles : old.fresh # Nil \/ Head(old.steps) = <<"SetAccount", x>> =>
                              st.fresh # Nil,
           st.name["peer"] # old.name["peer"] => Head(old.steps) = <<"Name", "peer">>
    PROVE  LET new == IF Len(st.steps) = 1 THEN IdleWorker
                      ELSE [st EXCEPT !.steps = Tail(@)]
           IN  new \in Workers /\ WorkerOK(new)
<1>1. CASE Len(st.steps) = 1
  BY <1>1, IdleType
<1>2. CASE Len(st.steps) # 1
  <2> DEFINE new == [st EXCEPT !.steps = Tail(@)]
  <2>1. st.steps \in Seq(Steps)
    BY DEF Workers
  <2>2. /\ Tail(st.steps) \in Seq(Steps) /\ Tail(st.steps) # <<>>
        /\ DOMAIN Tail(st.steps) = 1 .. Len(st.steps) - 1
    BY <1>2, <2>1, TailSteps
  <2>3. /\ new \in Workers /\ new.steps = Tail(st.steps)
        /\ new.cur = st.cur /\ new.id = st.id /\ new.name = st.name
        /\ new.fresh = st.fresh
    BY <2>2 DEF Workers
  <2> HIDE DEF new
  <2>4. ASSUME NEW k \in DOMAIN new.steps
        PROVE  SuitedStep(new, k, req[new.cur].kind)
    <3>1. /\ k \in 1 .. Len(old.steps) - 1 /\ k + 1 \in DOMAIN old.steps
          /\ new.steps[k] = old.steps[k + 1]
      BY <2>1, <2>2, <2>3, TailSteps
    <3>2. SuitedStep(old, k + 1, req[new.cur].kind)
      BY <3>1, <2>3 DEF WorkerOK
    <3>3. \A e : Before(old.steps, k + 1, e) <=>
                   Head(old.steps) = e \/ Before(new.steps, k, e)
      BY <3>1, <2>1, <2>3, BeforeTail
    <3>4. new.steps[k][2] \in Roles
      BY <2>2, <2>3 DEF Steps
    <3> QED
      BY <3>1, <3>2, <3>3, <3>4, <2>3 DEF SuitedStep
  <2>5. WorkerOK(new)
    BY <2>2, <2>3, <2>4 DEF WorkerOK
  <2> QED
    BY <1>2, <2>3, <2>5 DEF new
<1> QED
  BY <1>1, <1>2

\* A missing account is created before the rest of the script.
LEMMA CreateFirst ==
    ASSUME NEW old \in Workers, WorkerOK(old), old.steps # <<>>,
           NEW role \in Roles, Head(old.steps) = <<"Exist", role>>
    PROVE  LET new == [old EXCEPT !.steps = createAccount(role) \o Tail(@)]
           IN  new \in Workers /\ WorkerOK(new)
<1> DEFINE t   == createAccount(role) \o Tail(old.steps)
           new == [old EXCEPT !.steps = t]
<1>1. old.steps \in Seq(Steps) /\ Len(old.steps) \in Nat \ {0}
      /\ old.steps[1] = <<"Exist", role>> /\ DOMAIN old.steps = 1 .. Len(old.steps)
  BY TailSteps DEF Workers
<1>2. /\ t \in Seq(Steps) /\ t # <<>>
      /\ DOMAIN t = 1 .. Len(old.steps) + 1
      /\ t[1] = <<"SetAccount", role>>
      /\ t[2] = <<"Create", role>>
      /\ \A k \in 2 .. Len(old.steps) : t[k + 1] = old.steps[k]
  BY <1>1, CreateSteps
<1> HIDE DEF t
<1>3. /\ new \in Workers /\ new.steps = t /\ new.cur = old.cur
      /\ new.id = old.id /\ new.name = old.name /\ new.fresh = old.fresh
  BY <1>2 DEF Workers
<1> HIDE DEF new
<1>4. old.name[role] # Nil
  BY <1>1 DEF WorkerOK, SuitedStep, Before
<1>5. ASSUME NEW k \in DOMAIN new.steps
      PROVE  SuitedStep(new, k, req[new.cur].kind)
  <2>1. CASE k = 1
    BY <2>1, <1>2, <1>3, <1>4 DEF SuitedStep
  <2>2. CASE k = 2
    BY <2>2, <1>2, <1>3, <1>4 DEF SuitedStep, Before
  <2>3. CASE k \notin {1, 2}
    <3>1. k - 1 \in 2 .. Len(old.steps) /\ k - 1 \in DOMAIN old.steps
          /\ (k - 1) + 1 = k
      BY <2>3, <1>1, <1>2, <1>3
    <3>2. SuitedStep(old, k - 1, req[new.cur].kind)
      BY <3>1, <1>3 DEF WorkerOK
    <3>3. new.steps[k] = old.steps[k - 1]
      BY <3>1, <1>2, <1>3
    <3>4. \A e : /\ Before(old.steps, k - 1, e) /\ e[1] # "Exist" =>
                      Before(new.steps, k, e)
                 /\ Before(new.steps, k, e) /\ e[1] \notin {"SetAccount", "Create"} =>
                      Before(old.steps, k - 1, e)
      <4> SUFFICES ASSUME NEW e
                   PROVE  /\ Before(old.steps, k - 1, e) /\ e[1] # "Exist" =>
                               Before(t, (k - 1) + 1, e)
                          /\ Before(t, (k - 1) + 1, e)
                               /\ e[1] \notin {"SetAccount", "Create"} =>
                               Before(old.steps, k - 1, e)
        BY <3>1, <1>3
      <4> QED
        BY <3>1, <1>1, BeforeCreate DEF t
    <3> QED
      BY <3>2, <3>3, <3>4, <1>3 DEF SuitedStep
  <2> QED
    BY <2>1, <2>2, <2>3
<1> QED
  BY <1>2, <1>3, <1>5 DEF WorkerOK, new, t

-----------------------------------------------------------------------------
(* Every step of a worker keeps the inductive invariant.                    *)

\* What a worker has at hand when it makes a step.
LEMMA AtStep ==
    ASSUME IndInv, NEW w \in Jobs, NEW do, At(w, do)
    PROVE  /\ worker[w] \in Workers /\ WorkerOK(worker[w]) /\ worker[w].steps # <<>>
           /\ worker[w].cur \in Reqs /\ Accepted(worker[w].cur)
           /\ Msg(w) \in Messages /\ Msg(w).id = worker[w].id["self"]
           /\ Role(w) \in Roles /\ Head(worker[w].steps) = <<do, Role(w)>>
           /\ do \in {"Owner", "Uuid"} => Msg(w).kind \in {"like", "comment"}
           /\ do = "Mark" => Msg(w).kind \in {"like", "follow", "signin"}
           /\ do = "Unmark" => Msg(w).kind = "unfollow"
           /\ do = "SavePost" => Msg(w).kind \in {"post", "comment"}
           /\ do \in {"Key", "Call"} => Role(w) = "self"
           /\ do = "Owner" => worker[w].name["peer"] = Nil
           /\ do \in {"Exist", "SetAccount", "Create", "Call"} =>
                 Name(w) \in Names /\ Id(w) \in Ids
           /\ do = "Create" => worker[w].fresh \in Keys
<1> DEFINE st == worker[w]
<1>1. st \in Workers /\ WorkerOK(st) /\ st.steps # <<>> /\ Head(st.steps)[1] = do
  BY DEF IndInv, TypeOK, At, Step
<1>2. st.steps \in Seq(Steps) /\ Head(st.steps) \in Steps
      /\ Head(st.steps) = st.steps[1] /\ 1 \in DOMAIN st.steps
  <2>1. st.steps \in Seq(Steps)
    BY <1>1 DEF Workers
  <2> QED
    BY <2>1, <1>1, HeadTailProperties, EmptySeq, LenProperties
<1>3. st.cur \in Reqs /\ Accepted(st.cur) /\ st.id["self"] = req[st.cur].id
  BY <1>1 DEF Workers, WorkerOK
<1>4. Msg(w) \in Messages /\ Msg(w).id = st.id["self"]
  BY <1>3 DEF Msg, Accepted, IndInv, TypeOK
<1>5. Role(w) \in Roles /\ Head(st.steps) = <<do, Role(w)>>
  BY <1>1, <1>2 DEF Role, Step, Steps
<1>6. SuitedStep(st, 1, Msg(w).kind) /\ \A e : ~Before(st.steps, 1, e)
  BY <1>1, <1>2 DEF WorkerOK, Msg, Before
<1>7. /\ st.name[Role(w)] # Nil => Name(w) \in Names /\ Id(w) \in Ids
      /\ st.fresh # Nil => st.fresh \in Keys
  BY <1>1, <1>5 DEF Name, Id, Workers, WorkerOK
<1>8. st.steps[1][1] = do /\ st.steps[1][2] = Role(w)
  BY <1>2, <1>5
<1>9. /\ do \in {"Owner", "Uuid"} => Msg(w).kind \in {"like", "comment"}
      /\ do = "Mark" => Msg(w).kind \in {"like", "follow", "signin"}
      /\ do = "Unmark" => Msg(w).kind = "unfollow"
      /\ do = "SavePost" => Msg(w).kind \in {"post", "comment"}
      /\ do \in {"Key", "Call"} => Role(w) = "self"
      /\ do = "Owner" => st.name["peer"] = Nil
      /\ do \in {"Exist", "SetAccount", "Create", "Call"} => st.name[Role(w)] # Nil
      /\ do = "Create" => st.fresh # Nil
  BY <1>6, <1>8 DEF SuitedStep
<1> QED
  BY <1>1, <1>3, <1>4, <1>5, <1>7, <1>9

\* The workers are well whenever one of them changes to a state that is.
WorkersOK == /\ worker \in [Jobs -> Workers]
             /\ \A v \in Jobs : WorkerOK(worker[v])

LEMMA BecomeOK ==
    ASSUME IndInv, NEW w \in Jobs, NEW st \in Workers, WorkerOK(st),
           Become(w, st), UNCHANGED <<req, checks, reply>>
    PROVE  WorkersOK'
<1>1. worker' \in [Jobs -> Workers]
  BY DEF Become, IndInv, TypeOK
<1>2. ASSUME NEW v \in Jobs
      PROVE  WorkerOK(worker[v])'
  <2>1. worker'[v] = IF v = w THEN st ELSE worker[v]
    BY DEF Become, IndInv, TypeOK
  <2>2. WorkerOK(worker'[v])
    BY <2>1 DEF IndInv
  <2> QED
    BY <2>2 DEF WorkerOK, Accepted, SuitedStep, Before
<1> QED
  BY <1>1, <1>2 DEF WorkersOK

LEMMA AbandonOK ==
    ASSUME IndInv, NEW w \in Jobs, Abandon(w), UNCHANGED <<req, checks, reply>>
    PROVE  WorkersOK'
  BY IdleType, BecomeOK DEF Abandon

LEMMA GoOnOK ==
    ASSUME IndInv, NEW w \in Jobs, NEW do, At(w, do),
           NEW st \in Workers, st.cur = worker[w].cur, st.steps = worker[w].steps,
           st.id["self"] = worker[w].id["self"],
           \A x \in Roles : st.name[x] # Nil => st.id[x] # Nil,
           \A x \in Roles : worker[w].name[x] # Nil \/ <<do, Role(w)>> = <<"Name", x>> =>
                              st.name[x] # Nil,
           worker[w].fresh # Nil \/ do = "SetAccount" => st.fresh # Nil,
           st.name["peer"] # worker[w].name["peer"] =>
              do = "Name" /\ Role(w) = "peer",
           GoOn(w, st), UNCHANGED <<req, checks, reply>>
    PROVE  WorkersOK'
<1>1. /\ worker[w] \in Workers /\ WorkerOK(worker[w]) /\ worker[w].steps # <<>>
      /\ Head(worker[w].steps) = <<do, Role(w)>>
  BY AtStep
<1> DEFINE new == IF Len(st.steps) = 1 THEN IdleWorker
                  ELSE [st EXCEPT !.steps = Tail(@)]
<1>2. new \in Workers /\ WorkerOK(new)
  <2>1. \A x \in Roles : \/ worker[w].name[x] # Nil
                         \/ Head(worker[w].steps) = <<"Name", x>>
                         => st.name[x] # Nil
    BY <1>1
  <2>2. \A x \in Roles : \/ worker[w].fresh # Nil
                         \/ Head(worker[w].steps) = <<"SetAccount", x>>
                         => st.fresh # Nil
    BY <1>1
  <2>3. st.name["peer"] # worker[w].name["peer"] =>
           Head(worker[w].steps) = <<"Name", "peer">>
    BY <1>1
  <2> QED
    BY ONLY <1>1, <2>1, <2>2, <2>3, NextStep, st \in Workers, st.cur = worker[w].cur,
       st.steps = worker[w].steps, st.id["self"] = worker[w].id["self"],
       \A x \in Roles : st.name[x] # Nil => st.id[x] # Nil
<1>3. Become(w, new)
  BY DEF GoOn
<1> QED
  BY <1>2, <1>3, BecomeOK

\* A step that leaves the locals as they are.
LEMMA PlainGoOnOK ==
    ASSUME IndInv, NEW w \in Jobs, NEW do, At(w, do), do \notin {"Name", "SetAccount"},
           GoOn(w, worker[w]), UNCHANGED <<req, checks, reply>>
    PROVE  WorkersOK'
<1>1. worker[w] \in Workers /\ WorkerOK(worker[w])
  BY AtStep
<1>2. \A x \in Roles : worker[w].name[x] # Nil => worker[w].id[x] # Nil
  BY <1>1 DEF WorkerOK
<1> QED
  BY <1>1, <1>2, GoOnOK

\* Redis, the chain and the failures, as TypeOK has them.
StoresOK == /\ account \in [Ids -> Records \cup {Nil}]
            /\ post \in [PostIds \cup CommentIds -> PostRecords \cup {Nil}]
            /\ marker \subseteq UniqueKeys
            /\ chainKey \in [Names -> Keys \cup {Nil}]
            /\ ledger \in [Ids -> Seq(Entries)]
            /\ faults \in 0 .. MaxFaults

LEMMA StoresType == IndInv => StoresOK
  BY DEF IndInv, TypeOK, StoresOK

LEMMA FaultType ==
    ASSUME NEW k, IndInv, Fault(k)
    PROVE  faults' \in 0 .. MaxFaults
  BY ConfigAssumption DEF IndInv, TypeOK, Fault

\* The key pair of an account is a key, and so is a generated one.
LEMMA RecordTypes ==
    ASSUME IndInv, NEW i \in Ids, account[i] # Nil
    PROVE  account[i].name \in Names /\ account[i].key \in Keys
  BY DEF IndInv, TypeOK, Records

LEMMA NewKeyType ==
    ASSUME IndInv, NEW w \in Jobs, NEW do, At(w, do)
    PROVE  NewKey(w) \in Keys /\ NewKey(w) # Nil
  BY AtStep, NilType DEF NewKey, Keys, Names

LEMMA ReadNameOK ==
    ASSUME IndInv, NEW w \in Jobs, ReadName(w)
    PROVE  WorkersOK'
<1>1. At(w, "Name") /\ UNCHANGED <<req, checks, reply>>
  BY DEF ReadName, unchangedByJob
<1>2. CASE Id(w) = Nil \/ account[Id(w)] = Nil
  BY <1>1, <1>2, AbandonOK DEF ReadName
<1>3. CASE ~(Id(w) = Nil \/ account[Id(w)] = Nil)
  <2> DEFINE st == [worker[w] EXCEPT !.name[Role(w)] = account[Id(w)].name]
  <2>1. /\ worker[w] \in Workers /\ WorkerOK(worker[w]) /\ Role(w) \in Roles
    BY <1>1, AtStep
  <2>2. Id(w) \in Ids
    BY <1>3, <2>1 DEF Id, Workers
  <2>3. account[Id(w)].name \in Names /\ account[Id(w)].name # Nil
    BY <1>3, <2>2, RecordTypes, NilType
  <2>4. /\ st \in Workers /\ st.cur = worker[w].cur /\ st.steps = worker[w].steps
        /\ st.id = worker[w].id /\ st.fresh = worker[w].fresh
    BY <2>1, <2>3 DEF Workers
  <2>5. \A x \in Roles : st.name[x] = IF x = Role(w) THEN account[Id(w)].name
                                      ELSE worker[w].name[x]
    BY <2>1, <2>3 DEF Workers
  <2>6. GoOn(w, st)
    BY <1>3 DEF ReadName
  <2> HIDE DEF st
  <2>7. \A x \in Roles : st.name[x] # Nil => st.id[x] # Nil
    BY <2>1, <2>4, <2>5, <1>3 DEF WorkerOK, Id
  <2>8. \A x \in Roles : worker[w].name[x] # Nil \/ x = Role(w) => st.name[x] # Nil
    BY <2>3, <2>5
  <2>9. st.name["peer"] # worker[w].name["peer"] => Role(w) = "peer"
    BY <2>5 DEF Roles
  <2> QED
    BY <1>1, <2>4, <2>6, <2>7, <2>8, <2>9, GoOnOK
<1> QED
  BY <1>2, <1>3

LEMMA ReadKeyOK ==
    ASSUME IndInv, NEW w \in Jobs, ReadKey(w)
    PROVE  WorkersOK'
<1>1. At(w, "Key") /\ UNCHANGED <<req, checks, reply>>
  BY DEF ReadKey, unchangedByJob
<1>2. CASE account[Id(w)] = Nil
  BY <1>1, <1>2, AbandonOK DEF ReadKey
<1>3. CASE account[Id(w)] # Nil
  <2> DEFINE st == [worker[w] EXCEPT !.key = account[Id(w)].key]
  <2>1. /\ worker[w] \in Workers /\ WorkerOK(worker[w]) /\ Role(w) = "self"
        /\ Accepted(worker[w].cur) /\ worker[w].cur \in Reqs
        /\ Msg(w) \in Messages /\ Msg(w).id = worker[w].id["self"]
    BY <1>1, AtStep
  <2>2. Id(w) \in Ids
    BY <2>1, MessageFields DEF Id
  <2>3. account[Id(w)].key \in Keys
    BY <1>3, <2>2, RecordTypes
  <2>4. /\ st \in Workers /\ st.cur = worker[w].cur /\ st.steps = worker[w].steps
        /\ st.id = worker[w].id /\ st.fresh = worker[w].fresh
        /\ st.name = worker[w].name
    BY <2>1, <2>3 DEF Workers
  <2>5. GoOn(w, st)
    BY <1>3 DEF ReadKey
  <2> HIDE DEF st
  <2>6. \A x \in Roles : st.name[x] # Nil => st.id[x] # Nil
    BY <2>1, <2>4 DEF WorkerOK
  <2> QED
    BY <1>1, <2>4, <2>5, <2>6, GoOnOK
<1> QED
  BY <1>2, <1>3

LEMMA ReadOwnerOK ==
    ASSUME IndInv, NEW w \in Jobs, ReadOwner(w)
    PROVE  WorkersOK'
<1> DEFINE p     == post[Msg(w).target]
           owner == IF p = Nil THEN Nil ELSE p.owner
           st    == [worker[w] EXCEPT !.id["peer"] = owner]
<1>1. At(w, "Owner") /\ UNCHANGED <<req, checks, reply>> /\ GoOn(w, st)
  BY DEF ReadOwner, unchangedByJob
<1>2. /\ worker[w] \in Workers /\ WorkerOK(worker[w])
      /\ Msg(w) \in Messages /\ Msg(w).kind \in {"like", "comment"}
      /\ worker[w].name["peer"] = Nil
  BY <1>1, AtStep
<1>3. owner \in Ids \cup {Nil}
  <2>1. Msg(w).target \in PostIds
    BY <1>2, MessageFields
  <2> QED
    BY <2>1 DEF IndInv, TypeOK, PostRecords
<1> HIDE DEF owner
<1>4. /\ st \in Workers /\ st.cur = worker[w].cur /\ st.steps = worker[w].steps
      /\ st.fresh = worker[w].fresh /\ st.name = worker[w].name
      /\ st.id["self"] = worker[w].id["self"]
  BY <1>2, <1>3 DEF Workers, Roles
<1> HIDE DEF st
<1>5. \A x \in Roles : st.name[x] # Nil => st.id[x] # Nil
  BY <1>2, <1>4 DEF WorkerOK, Roles
<1> QED
  BY <1>1, <1>4, <1>5, GoOnOK

LEMMA ReadUuidOK ==
    ASSUME IndInv, NEW w \in Jobs, ReadUuid(w)
    PROVE  WorkersOK'
<1> DEFINE p    == post[Msg(w).target]
           uuid == IF p = Nil THEN Nil ELSE p.uuid
           st   == [worker[w] EXCEPT !.uuid = uuid]
<1>1. At(w, "Uuid") /\ UNCHANGED <<req, checks, reply>> /\ GoOn(w, st)
  BY DEF ReadUuid, unchangedByJob
<1>2. /\ worker[w] \in Workers /\ WorkerOK(worker[w])
      /\ Msg(w) \in Messages /\ Msg(w).kind \in {"like", "comment"}
  BY <1>1, AtStep
<1>3. uuid \in Uuids \cup {Nil}
  <2>1. Msg(w).target \in PostIds
    BY <1>2, MessageFields
  <2> QED
    BY <2>1 DEF IndInv, TypeOK, PostRecords
<1> HIDE DEF uuid
<1>4. /\ st \in Workers /\ st.cur = worker[w].cur /\ st.steps = worker[w].steps
      /\ st.fresh = worker[w].fresh /\ st.name = worker[w].name
      /\ st.id = worker[w].id
  BY <1>2, <1>3 DEF Workers
<1> HIDE DEF st
<1>5. \A x \in Roles : st.name[x] # Nil => st.id[x] # Nil
  BY <1>2, <1>4 DEF WorkerOK
<1> QED
  BY <1>1, <1>4, <1>5, GoOnOK

LEMMA WriteOK ==
    ASSUME IndInv, NEW w \in Jobs, Write(w)
    PROVE  /\ account' \in [Ids -> Records \cup {Nil}]
           /\ post' \in [PostIds \cup CommentIds -> PostRecords \cup {Nil}]
           /\ marker' \subseteq UniqueKeys
<1> USE DEF IndInv, TypeOK
<1>1. CASE At(w, "Mark") /\ marker' = marker \cup {UniqueKey(Msg(w))}
           /\ UNCHANGED <<account, post>>
  <2>1. Msg(w) \in Messages /\ Msg(w).kind \in {"like", "follow", "signin"}
    BY <1>1, AtStep
  <2>2. UniqueKey(Msg(w)) \in UniqueKeys
    BY <2>1, MessageFields DEF UniqueKey, UniqueKeys
  <2> QED
    BY <1>1, <2>2
<1>2. CASE At(w, "Unmark") /\ marker' = marker \ {UniqueKey(Msg(w))}
           /\ UNCHANGED <<account, post>>
  BY <1>2
<1>3. CASE /\ At(w, "SavePost")
           /\ post' = [post EXCEPT ![Msg(w).item] =
                         [owner |-> Msg(w).id, uuid |-> worker[w].cur]]
           /\ UNCHANGED <<account, marker>>
  <2>1. Msg(w).id \in Ids /\ worker[w].cur \in Uuids
    BY <1>3, AtStep, MessageFields DEF Uuids
  <2> QED
    BY <1>3, <2>1 DEF PostRecords
<1>4. CASE /\ At(w, "SetAccount")
           /\ account' = [account EXCEPT ![Id(w)] =
                            [name |-> Name(w), key |-> NewKey(w)]]
           /\ UNCHANGED <<post, marker>>
  <2>1. Name(w) \in Names /\ NewKey(w) \in Keys
    BY <1>4, AtStep, NewKeyType
  <2> QED
    BY <1>4, <2>1 DEF Records
<1> QED
  BY <1>1, <1>2, <1>3, <1>4 DEF Write

LEMMA WriteRedisOK ==
    ASSUME IndInv, NEW w \in Jobs, WriteRedis(w)
    PROVE  WorkersOK'
<1>1. UNCHANGED <<req, checks, reply>>
  BY DEF WriteRedis, unchangedByJob
<1>2. CASE At(w, "SetAccount")
  <2> DEFINE st == [worker[w] EXCEPT !.fresh = NewKey(w)]
  <2>1. worker[w] \in Workers /\ WorkerOK(worker[w])
    BY <1>2, AtStep
  <2>2. NewKey(w) \in Keys /\ NewKey(w) # Nil
    BY <1>2, NewKeyType
  <2>3. /\ st \in Workers /\ st.cur = worker[w].cur /\ st.steps = worker[w].steps
        /\ st.fresh # Nil /\ st.name = worker[w].name /\ st.id = worker[w].id
    BY <2>1, <2>2 DEF Workers
  <2>4. GoOn(w, st)
    BY <1>2 DEF WriteRedis
  <2> HIDE DEF st
  <2>5. \A x \in Roles : st.name[x] # Nil => st.id[x] # Nil
    BY <2>1, <2>3 DEF WorkerOK
  <2> QED
    BY <1>1, <1>2, <2>3, <2>4, <2>5, GoOnOK
<1>3. CASE ~At(w, "SetAccount")
  <2>1. PICK do \in {"Mark", "Unmark", "SavePost"} : At(w, do)
    BY <1>3 DEF WriteRedis, Write
  <2>2. GoOn(w, worker[w])
    BY <1>3 DEF WriteRedis
  <2> QED
    BY <1>1, <2>1, <2>2, PlainGoOnOK
<1> QED
  BY <1>2, <1>3

\* QueryChain and QueryFails
LEMMA CreatesOK ==
    ASSUME IndInv, NEW w \in Jobs, At(w, "Exist"), UNCHANGED <<req, checks, reply>>,
           Become(w, [worker[w] EXCEPT !.steps = createAccount(Role(w)) \o Tail(@)])
    PROVE  WorkersOK'
<1> DEFINE st == [worker[w] EXCEPT !.steps = createAccount(Role(w)) \o Tail(@)]
<1>1. /\ worker[w] \in Workers /\ WorkerOK(worker[w]) /\ worker[w].steps # <<>>
      /\ Role(w) \in Roles /\ Head(worker[w].steps) = <<"Exist", Role(w)>>
  BY AtStep
<1>2. st \in Workers /\ WorkerOK(st)
  BY <1>1, CreateFirst
<1> HIDE DEF st
<1>3. Become(w, st)
  BY DEF st
<1> QED
  BY <1>2, <1>3, BecomeOK

\* What a transaction leaves on the ledger.
LEMMA EntryType ==
    ASSUME IndInv, NEW w \in Jobs, At(w, "Call")
    PROVE  Entry(w) \in Entries /\ Id(w) \in Ids /\ Id(w) = Msg(w).id
           /\ Entry(w).req = worker[w].cur
<1>1. /\ worker[w] \in Workers /\ worker[w].cur \in Reqs
      /\ Msg(w) \in Messages /\ Msg(w).id = worker[w].id["self"]
      /\ Role(w) = "self" /\ Name(w) \in Names /\ Id(w) \in Ids
  BY AtStep
<1>2. Msg(w).kind \in AllKinds \cup FakeKinds
  BY <1>1, MessageFields
<1>3. worker[w].uuid \in Uuids \cup {Nil} /\ worker[w].name["peer"] \in Names \cup {Nil}
  BY <1>1 DEF Workers, Roles
<1> QED
  BY <1>1, <1>2, <1>3 DEF Entry, Entries, Id

LEMMA CreateOnChainOK ==
    ASSUME IndInv, NEW w \in Jobs, At(w, "Create"),
           \/ UNCHANGED chainKey
           \/ chainKey' = [chainKey EXCEPT ![Name(w)] = worker[w].fresh]
    PROVE  chainKey' \in [Names -> Keys \cup {Nil}]
<1>1. worker[w].fresh \in Keys
  BY AtStep
<1> QED
  BY <1>1 DEF IndInv, TypeOK

\* Each step of a worker, as far as TypeOK goes.
LEMMA WorkOK ==
    ASSUME IndInv, NEW w \in Jobs, Work(w)
    PROVE  WorkersOK' /\ StoresOK' /\ UNCHANGED <<queue, unchangedByJob>>
<1> USE StoresType DEF StoresOK, redisVars, chainVars, unchangedByJob
<1>1. CASE ReadName(w)
  BY <1>1, ReadNameOK DEF ReadName
<1>2. CASE ReadKey(w)
  BY <1>2, ReadKeyOK DEF ReadKey
<1>3. CASE ReadOwner(w)
  BY <1>3, ReadOwnerOK DEF ReadOwner
<1>4. CASE ReadUuid(w)
  BY <1>4, ReadUuidOK DEF ReadUuid
<1>5. CASE WriteRedis(w)
  BY <1>5, WriteOK, WriteRedisOK DEF WriteRedis
<1>6. CASE RedisFails(w)
  BY <1>6, WriteOK, AbandonOK, FaultType DEF RedisFails
<1>7. CASE QueryChain(w)
  <2>1. CASE chainKey[Name(w)] # Nil
    BY <1>7, <2>1, PlainGoOnOK DEF QueryChain
  <2>2. CASE chainKey[Name(w)] = Nil
    BY <1>7, <2>2, CreatesOK DEF QueryChain
  <2> QED
    BY <2>1, <2>2, <1>7 DEF QueryChain
<1>8. CASE QueryFails(w)
  BY <1>8, CreatesOK, FaultType DEF QueryFails
<1>9. CASE CreateOnChain(w)
  <2>1. WorkersOK'
    BY <1>9, PlainGoOnOK, AbandonOK DEF CreateOnChain
  <2>2. chainKey' \in [Names -> Keys \cup {Nil}]
    BY <1>9, CreateOnChainOK DEF CreateOnChain
  <2> QED
    BY <1>9, <2>1, <2>2 DEF CreateOnChain
<1>10. CASE Fund(w)
  BY <1>10, PlainGoOnOK DEF Fund
<1>11. CASE Call(w)
  <2>1. ledger' \in [Ids -> Seq(Entries)]
    BY <1>11, EntryType, AppendProperties DEF Call
  <2> QED
    BY <1>11, <2>1, AbandonOK DEF Call
<1>12. CASE BroadcastFails(w)
  <2>1. chainKey' \in [Names -> Keys \cup {Nil}]
    BY <1>12, CreateOnChainOK DEF BroadcastFails
  <2> QED
    BY <1>12, <2>1, AbandonOK, FaultType DEF BroadcastFails
<1> QED
  BY <1>1, <1>2, <1>3, <1>4, <1>5, <1>6, <1>7, <1>8, <1>9, <1>10, <1>11, <1>12
     DEF Work

\* The message a worker takes was put, and its script suits it.
LEMMA TakeOK ==
    ASSUME IndInv, NEW w \in Jobs, Take(w)
    PROVE  WorkersOK' /\ queue' \in [Jobs -> Seq(Reqs)]
           /\ \A v \in Jobs : /\ Len(queue'[v]) <= QueueSize
                              /\ \A k \in DOMAIN queue'[v] : Accepted(queue'[v][k])
<1> DEFINE r  == Head(queue[w])
           m  == req[r]
           st == [IdleWorker EXCEPT
                    !.cur = r, !.steps = StepsOf(m.kind),
                    !.id["self"] = m.id,
                    !.id["peer"] = IF m.kind \in {"follow", "unfollow"}
                                   THEN m.target ELSE Nil,
                    !.name["self"] = m.name]
<1>1. queue[w] \in Seq(Reqs) /\ queue[w] # <<>>
  BY DEF Take, IndInv, TypeOK
<1>2. /\ r \in Reqs /\ r = queue[w][1] /\ 1 \in DOMAIN queue[w]
      /\ Tail(queue[w]) \in Seq(Reqs) /\ Len(Tail(queue[w])) = Len(queue[w]) - 1
      /\ \A k \in 1 .. Len(queue[w]) - 1 : Tail(queue[w])[k] = queue[w][k + 1]
      /\ Len(queue[w]) \in Nat \ {0}
      /\ DOMAIN queue[w] = 1 .. Len(queue[w])
      /\ DOMAIN Tail(queue[w]) = 1 .. Len(queue[w]) - 1
  BY <1>1, HeadTailProperties, EmptySeq, LenProperties
<1>3. Accepted(r) /\ m \in Messages
  BY <1>2 DEF IndInv, TypeOK, Accepted
<1>4. /\ m.kind \in AllKinds \cup FakeKinds /\ m.id \in Ids
      /\ m.kind \in {"follow", "unfollow"} => m.target \in Ids
      /\ m.name \in Names \cup {Nil}
      /\ m.kind = "account" => m.name \in Names
  BY <1>3, MessageFields
<1>5. m.kind \in FakeKinds => m.name \in Names
  BY <1>2, <1>3 DEF IndInv, RequestOK, Accepted
<1>6. StepsOf(m.kind) \in Seq(Steps) /\ StepsOf(m.kind) # <<>>
  BY <1>4, StepsOfType
<1>7. /\ st \in Workers /\ st.cur = r /\ st.steps = StepsOf(m.kind)
      /\ st.id["self"] = m.id /\ st.name["self"] = m.name /\ st.name["peer"] = Nil
  BY <1>2, <1>4, <1>6 DEF Workers, IdleWorker, Roles
<1>8. Become(w, st) /\ UNCHANGED <<req, checks, reply>>
      /\ queue' = [queue EXCEPT ![w] = Tail(@)]
  BY DEF Take, unchangedByJob
<1> HIDE DEF st
<1>9. WorkerOK(st)
  <2>1. \A k \in DOMAIN st.steps : SuitedStep(st, k, m.kind)
    BY <1>4, <1>5, <1>7, NilType, ScriptSuits
  <2> QED
    BY <1>2, <1>3, <1>4, <1>6, <1>7, <2>1, NilType DEF WorkerOK, Roles
<1>10. WorkersOK'
  BY <1>7, <1>8, <1>9, BecomeOK
<1>11. queue' \in [Jobs -> Seq(Reqs)]
  BY <1>2, <1>8 DEF IndInv, TypeOK
<1>12. ASSUME NEW v \in Jobs
       PROVE  /\ Len(queue'[v]) <= QueueSize
              /\ \A k \in DOMAIN queue'[v] : Accepted(queue'[v][k])
  <2>1. CASE v = w
    <3>1. queue'[v] = Tail(queue[w])
      BY <1>8, <2>1 DEF IndInv, TypeOK
    <3>2. Len(queue[w]) <= QueueSize
      BY DEF IndInv, TypeOK
    <3>3. \A k \in 1 .. Len(queue[w]) - 1 : k + 1 \in 1 .. Len(queue[w])
      BY <1>2
    <3> QED
      BY <1>2, <3>1, <3>2, <3>3, ConfigAssumption DEF IndInv
  <2>2. CASE v # w
    BY <1>8, <2>2 DEF IndInv, TypeOK
  <2> QED
    BY <2>1, <2>2
<1> QED
  BY <1>10, <1>11, <1>12

-----------------------------------------------------------------------------
(* Every step of a handler keeps the inductive invariant.                   *)

\* A step of one handler that is not done does not touch what is accepted.
LEMMA OneHandler ==
    ASSUME IndInv, NEW r \in Reqs, ~Accepted(r), UNCHANGED worker,
           \A q \in Reqs \ {r} : req'[q] = req[q] /\ checks'[q] = checks[q]
                                                  /\ reply'[q] = reply[q]
    PROVE  /\ WorkersOK'
           /\ \A q \in Reqs : Accepted(q) => Accepted(q)'
           /\ \A q \in Reqs \ {r} : RequestOK(q)'
<1>1. \A q \in Reqs : Accepted(q) => q # r /\ Accepted(q)'
  BY DEF Accepted
<1>2. \A q \in Reqs \ {r} : RequestOK(q)'
  BY DEF IndInv, RequestOK
<1>3. ASSUME NEW v \in Jobs
      PROVE  WorkerOK(worker[v])'
  <2>1. WorkerOK(worker[v]) /\ worker[v] \in Workers
    BY DEF IndInv, TypeOK
  <2>2. CASE worker[v].cur = Nil
    <3>1. worker[v].steps = <<>>
      BY <2>1, <2>2 DEF WorkerOK
    <3> QED
      BY <2>1, <2>2, <3>1 DEF WorkerOK
  <2>3. CASE worker[v].cur # Nil
    <3>1. worker[v].cur \in Reqs /\ Accepted(worker[v].cur)
      BY <2>1, <2>3 DEF WorkerOK, Workers
    <3>2. Accepted(worker[v].cur)' /\ req'[worker[v].cur] = req[worker[v].cur]
      BY <3>1, <1>1
    <3> QED
      BY <2>1, <3>1, <3>2 DEF WorkerOK, SuitedStep, Before
  <2> QED
    BY <2>2, <2>3
<1> QED
  BY <1>1, <1>2, <1>3 DEF WorkersOK, IndInv, TypeOK

\* What the actions of the server do not touch keeps its type.
LEMMA ServerKeeps ==
    ASSUME IndInv, UNCHANGED unchangedByServer
    PROVE  /\ account' \in [Ids -> Records \cup {Nil}]
           /\ post' \in [PostIds \cup CommentIds -> PostRecords \cup {Nil}]
           /\ marker' \subseteq UniqueKeys
           /\ chainKey' \in [Names -> Keys \cup {Nil}]
           /\ ledger' \in [Ids -> Seq(Entries)]
           /\ UNCHANGED worker
  BY DEF IndInv, TypeOK, unchangedByServer

\* Parts of IndInv that a step of the handler of r alone has to show.
LEMMA HandlerKeeps ==
    ASSUME IndInv, NEW r \in Reqs, ~Accepted(r), UNCHANGED unchangedByServer,
           UNCHANGED <<queue, ticket, clock>>,
           req' \in [Reqs -> Messages \cup {Nil}],
           checks' \in [Reqs -> Seq(Checks)],
           reply' \in [Reqs -> Replies \cup {Nil}],
           faults' \in 0 .. MaxFaults,
           \A q \in Reqs \ {r} : req'[q] = req[q] /\ checks'[q] = checks[q]
                                                  /\ reply'[q] = reply[q],
           RequestOK(r)'
    PROVE  IndInv'
<1>1. /\ WorkersOK' /\ \A q \in Reqs : Accepted(q) => Accepted(q)'
      /\ \A q \in Reqs \ {r} : RequestOK(q)'
  BY OneHandler, ServerKeeps
<1>2. \A q \in Reqs : RequestOK(q)'
  BY <1>1
<1>3. \A w \in Jobs : \A k \in DOMAIN queue[w] : queue[w][k] \in Reqs
  BY ElementOfSeq, LenProperties DEF IndInv, TypeOK
<1>4. \A w \in Jobs : \A k \in DOMAIN queue'[w] : Accepted(queue[w][k])'
  BY <1>1, <1>3 DEF IndInv, Accepted
<1> QED
  BY <1>1, <1>2, <1>4, ServerKeeps DEF IndInv, TypeOK, WorkersOK

LEMMA ArriveOK ==
    ASSUME IndInv, NEW r \in Reqs, NEW b \in Requests(r), Arrive(r, b)
    PROVE  IndInv'
<1>1. b \in Messages /\ b.kind \in AllKinds /\ b # Nil
  BY RequestType, NilType
<1>2. ChecksOf(b.kind) \in Seq(Checks) /\ ChecksOf(b.kind) # <<>>
  BY <1>1, ChecksOfType
<1>3. /\ req' \in [Reqs -> Messages \cup {Nil}] /\ req'[r] = b
      /\ checks' \in [Reqs -> Seq(Checks)] /\ checks'[r] = ChecksOf(b.kind)
      /\ \A q \in Reqs \ {r} : req'[q] = req[q] /\ checks'[q] = checks[q]
  BY <1>1, <1>2 DEF Arrive, IndInv, TypeOK
<1>4. RequestOK(r)'
  <2>1. \A k \in DOMAIN ChecksOf(b.kind) :
          /\ ChecksOf(b.kind)[k] # "FakeName"
          /\ ChecksOf(b.kind)[k] = "Target" => b.kind \in {"like", "comment"}
    BY <1>1 DEF AllKinds, ChecksOf, accountChecks, postChecks, likeChecks,
                commentChecks, followChecks, unfollowChecks, signInChecks
  <2>2. b.kind \notin FakeKinds
    BY <1>1 DEF AllKinds, FakeKinds
  <2> QED
    BY <1>1, <1>3, <2>1, <2>2 DEF RequestOK
<1>5. ~Accepted(r)
  BY DEF Arrive, Accepted
<1> QED
  BY <1>3, <1>4, <1>5, HandlerKeeps DEF Arrive, IndInv, TypeOK

\* A handler has the next of its checks to make.
LEMMA AtCheck ==
    ASSUME IndInv, NEW r \in Reqs, Checking(r)
    PROVE  /\ req[r] \in Messages /\ RequestOK(r) /\ ~Accepted(r)
           /\ checks[r] \in Seq(Checks) /\ Head(checks[r]) \in Checks
           /\ Tail(checks[r]) \in Seq(Checks)
           /\ Head(checks[r]) = "FakeName" => req[r].kind \in FakeKinds
           /\ Head(checks[r]) = "Target" => req[r].kind \in {"like", "comment"}
           /\ req[r].kind \in FakeKinds => checks[r] = <<"FakeName">>
           /\ \A k \in DOMAIN Tail(checks[r]) :
                 k + 1 \in DOMAIN checks[r] /\ Tail(checks[r])[k] = checks[r][k + 1]
<1>1. req[r] \in Messages /\ RequestOK(r) /\ checks[r] \in Seq(Checks) /\ checks[r] # <<>>
      /\ reply[r] = Nil /\ req[r] # Nil
  BY DEF IndInv, TypeOK, Checking
<1>2. /\ Head(checks[r]) \in Checks /\ Head(checks[r]) = checks[r][1]
      /\ 1 \in DOMAIN checks[r] /\ Tail(checks[r]) \in Seq(Checks)
      /\ \A k \in DOMAIN Tail(checks[r]) :
            k + 1 \in DOMAIN checks[r] /\ Tail(checks[r])[k] = checks[r][k + 1]
  BY <1>1, HeadTailProperties, EmptySeq, LenProperties
<1>3. /\ Head(checks[r]) = "FakeName" => req[r].kind \in FakeKinds
      /\ Head(checks[r]) = "Target" => req[r].kind \in {"like", "comment"}
      /\ req[r].kind \in FakeKinds => checks[r] = <<"FakeName">>
  BY <1>1, <1>2 DEF RequestOK
<1> QED
  BY <1>1, <1>2, <1>3 DEF Accepted

LEMMA CheckPassesOK ==
    ASSUME IndInv, NEW r \in Reqs, CheckPasses(r)
    PROVE  IndInv'
<1> DEFINE name == account[req[r].id].name
<1>1. /\ req[r] \in Messages /\ RequestOK(r) /\ ~Accepted(r) /\ req[r] # Nil
      /\ Tail(checks[r]) \in Seq(Checks) /\ checks[r] \in Seq(Checks)
      /\ Head(checks[r]) = "FakeName" => req[r].kind \in FakeKinds
      /\ req[r].kind \in FakeKinds => checks[r] = <<"FakeName">>
      /\ \A k \in DOMAIN Tail(checks[r]) :
            k + 1 \in DOMAIN checks[r] /\ Tail(checks[r])[k] = checks[r][k + 1]
  BY AtCheck DEF CheckPasses, Checking
<1>2. /\ checks' \in [Reqs -> Seq(Checks)] /\ checks'[r] = Tail(checks[r])
      /\ UNCHANGED <<reply, queue, ticket, clock, faults, unchangedByServer>>
      /\ \A q \in Reqs \ {r} : checks'[q] = checks[q]
  BY <1>1 DEF IndInv, TypeOK, CheckPasses
<1>3. CASE Head(checks[r]) = "FakeName"
  <2>1. req[r].kind \in FakeKinds /\ req[r].id \in Ids /\ checks'[r] = <<>>
    BY <1>1, <1>2, <1>3, MessageFields
  <2>2. name \in Names
    BY <1>3, <2>1, RecordTypes DEF Passes, CheckPasses
  <2>3. [req[r] EXCEPT !.name = name] \in Messages
        /\ [req[r] EXCEPT !.name = name].name = name
    BY <1>1, <2>1, <2>2, MessageTurns DEF Messages, Bodies, Body, Follows
  <2>4. /\ req' = [req EXCEPT ![r] = [req[r] EXCEPT !.name = name]]
        /\ req' \in [Reqs -> Messages \cup {Nil}]
        /\ req'[r] = [req[r] EXCEPT !.name = name]
        /\ \A q \in Reqs \ {r} : req'[q] = req[q]
    BY <1>3, <2>3 DEF IndInv, TypeOK, CheckPasses
  <2>5. RequestOK(r)'
    BY <2>1, <2>2, <2>3, <2>4 DEF RequestOK
  <2> QED
    BY <1>1, <1>2, <2>4, <2>5, HandlerKeeps DEF IndInv, TypeOK
<1>4. CASE Head(checks[r]) # "FakeName"
  <2>1. UNCHANGED req
    BY <1>4 DEF CheckPasses
  <2>2. req[r].kind \notin FakeKinds
    BY <1>1, <1>4
  <2>3. RequestOK(r)'
    BY <1>1, <1>2, <2>1, <2>2 DEF RequestOK
  <2> QED
    BY <1>1, <1>2, <2>1, <2>3, HandlerKeeps DEF IndInv, TypeOK
<1> QED
  BY <1>3, <1>4

LEMMA CheckRefusesOK ==
    ASSUME IndInv, NEW r \in Reqs, CheckRefuses(r)
    PROVE  IndInv'
<1>1. /\ RequestOK(r) /\ ~Accepted(r) /\ Head(checks[r]) \in Checks
  BY AtCheck DEF CheckRefuses
<1>2. Refusal(Head(checks[r]), req[r]) \in Replies
  BY <1>1 DEF Refusal, Replies, Checks
<1>3. RequestOK(r)'
  BY <1>1 DEF RequestOK, CheckRefuses
<1> QED
  BY <1>1, <1>2, <1>3, HandlerKeeps DEF IndInv, TypeOK, CheckRefuses

LEMMA TurnsFakeOK ==
    ASSUME IndInv, NEW r \in Reqs, TurnsFake(r)
    PROVE  IndInv'
<1> DEFINE kind == IF req[r].kind = "like" THEN "fakeLike" ELSE "fakeComment"
           m    == [req[r] EXCEPT !.kind = kind]
<1>1. req[r] \in Messages /\ ~Accepted(r) /\ req[r].kind \in {"like", "comment"}
  BY AtCheck DEF TurnsFake
<1>2. m \in Messages /\ m.kind = kind /\ kind \in FakeKinds /\ m # Nil
  BY <1>1, MessageTurns, NilType DEF FakeKinds, Messages, Bodies, Body, Follows
<1>3. req' = [req EXCEPT ![r] = m]
  BY DEF TurnsFake
<1> HIDE DEF m, kind
<1>4. /\ req' \in [Reqs -> Messages \cup {Nil}] /\ req'[r] = m
      /\ checks'[r] = <<"FakeName">> /\ checks' \in [Reqs -> Seq(Checks)]
      /\ \A q \in Reqs \ {r} : req'[q] = req[q] /\ checks'[q] = checks[q]
  <2>1. <<"FakeName">> \in Seq(Checks)
    BY DEF Checks
  <2>2. checks' = [checks EXCEPT ![r] = <<"FakeName">>]
    BY DEF TurnsFake
  <2> QED
    BY <1>2, <1>3, <2>1, <2>2 DEF IndInv, TypeOK
<1>5. RequestOK(r)'
  BY <1>2, <1>4 DEF RequestOK
<1> QED
  BY <1>1, <1>4, <1>5, HandlerKeeps DEF IndInv, TypeOK, TurnsFake

LEMMA CheckFailsOK ==
    ASSUME IndInv, NEW r \in Reqs, CheckFails(r)
    PROVE  IndInv'
<1>1. /\ RequestOK(r) /\ ~Accepted(r)
  BY AtCheck DEF CheckFails
<1>2. faults' \in 0 .. MaxFaults
  BY FaultType DEF CheckFails
<1>3. RequestOK(r)'
  BY <1>1 DEF RequestOK, CheckFails
<1> QED
  BY <1>1, <1>2, <1>3, HandlerKeeps DEF IndInv, TypeOK, CheckFails, Replies

LEMMA PutOK ==
    ASSUME IndInv, NEW r \in Reqs, Put(r)
    PROVE  IndInv'
<1> DEFINE w == JobOf(req[r].id)
<1>1. /\ req[r] \in Messages /\ w \in Jobs /\ RequestOK(r) /\ ~Accepted(r)
  BY MessageFields, JobOfType DEF Put, IndInv, TypeOK, Accepted
<1>2. /\ queue' = [queue EXCEPT ![w] = Append(@, r)]
      /\ Len(queue[w]) < QueueSize /\ checks[r] = <<>> /\ req[r] # Nil
      /\ UNCHANGED <<req, checks, faults, unchangedByServer>>
  BY DEF Put
<1> HIDE DEF w
<1>3. /\ reply' \in [Reqs -> Replies \cup {Nil}] /\ reply'[r] \in Replies
      /\ \A q \in Reqs \ {r} : reply'[q] = reply[q]
  BY DEF Put, IndInv, TypeOK, Replies
<1>4. Nil \notin Replies
  BY NilType
<1>5. /\ WorkersOK' /\ \A q \in Reqs : Accepted(q) => Accepted(q)'
      /\ \A q \in Reqs \ {r} : RequestOK(q)'
  BY <1>1, <1>2, <1>3, OneHandler, ServerKeeps
<1>6. Accepted(r)' /\ RequestOK(r)'
  BY <1>1, <1>2, <1>3, <1>4 DEF Accepted, RequestOK
<1>7. ASSUME NEW v \in Jobs
      PROVE  /\ queue'[v] \in Seq(Reqs) /\ Len(queue'[v]) <= QueueSize
             /\ \A k \in DOMAIN queue'[v] : Accepted(queue[v][k])'
  <2>1. /\ queue[v] \in Seq(Reqs) /\ Len(queue[v]) <= QueueSize
        /\ \A k \in DOMAIN queue[v] : queue[v][k] \in Reqs /\ Accepted(queue[v][k])
    BY ElementOfSeq, LenProperties DEF IndInv, TypeOK
  <2>2. CASE v # w
    <3>1. queue'[v] = queue[v]
      BY <1>1, <1>2, <2>2 DEF IndInv, TypeOK
    <3> QED
      BY <2>1, <3>1, <1>5 DEF Accepted
  <2>3. CASE v = w
    <3>1. queue'[v] = Append(queue[v], r)
      BY <1>1, <1>2, <2>3 DEF IndInv, TypeOK
    <3>2. /\ queue'[v] \in Seq(Reqs) /\ Len(queue'[v]) = Len(queue[v]) + 1
          /\ \A k \in 1 .. Len(queue[v]) : queue'[v][k] = queue[v][k]
          /\ queue'[v][Len(queue[v]) + 1] = r
      BY <2>1, <3>1, AppendProperties
    <3>3. /\ DOMAIN queue'[v] = 1 .. Len(queue[v]) + 1 /\ Len(queue[v]) \in Nat
          /\ DOMAIN queue[v] = 1 .. Len(queue[v])
      BY <2>1, <3>2, LenProperties
    <3>4. ASSUME NEW k \in DOMAIN queue'[v]
          PROVE  Accepted(queue[v][k])'
      <4>1. CASE k = Len(queue[v]) + 1
        BY <4>1, <3>2, <1>6 DEF Accepted
      <4>2. CASE k # Len(queue[v]) + 1
        <5>1. k \in DOMAIN queue[v] /\ queue'[v][k] = queue[v][k]
          BY <4>2, <3>2, <3>3
        <5> QED
          BY <5>1, <2>1, <1>5 DEF Accepted
      <4> QED
        BY <4>1, <4>2
    <3>5. Len(queue'[v]) <= QueueSize
      BY <1>2, <2>3, <3>2, <3>3, ConfigAssumption
    <3> QED
      BY <3>2, <3>4, <3>5
  <2> QED
    BY <2>2, <2>3
<1>8. queue' \in [Jobs -> Seq(Reqs)]
  BY <1>2, <1>7 DEF IndInv, TypeOK
<1>9. clock' \in Nat /\ ticket' \in [Reqs -> Nat]
  BY DEF Put, IndInv, TypeOK
<1> QED
  BY <1>2, <1>3, <1>5, <1>6, <1>7, <1>8, <1>9, ServerKeeps DEF IndInv, TypeOK, WorkersOK

-----------------------------------------------------------------------------
(* Type correctness.                                                        *)

LEMMA CrashOK == ASSUME IndInv, Crash PROVE IndInv'
<1> USE DEF Crash, redisVars, chainVars
<1>1. worker' \in [Jobs -> Workers] /\ \A v \in Jobs : worker'[v] = IdleWorker
  BY IdleType
<1>2. \A v \in Jobs : WorkerOK(worker[v])'
  BY <1>1 DEF WorkerOK, IdleWorker
<1>3. queue' \in [Jobs -> Seq(Reqs)] /\ \A v \in Jobs : queue'[v] = <<>>
  BY EmptySeq
<1>4. \A v \in Jobs : Len(queue'[v]) <= QueueSize /\ DOMAIN queue'[v] = {}
  BY <1>3, ConfigAssumption
<1>5. reply' \in [Reqs -> Replies \cup {Nil}]
  BY DEF IndInv, TypeOK, Replies
<1>6. \A r \in Reqs : RequestOK(r)'
  BY DEF IndInv, RequestOK
<1> QED
  BY <1>1, <1>2, <1>3, <1>4, <1>5, <1>6, FaultType DEF IndInv, TypeOK

LEMMA InitOK == Init => IndInv
<1> SUFFICES ASSUME Init PROVE IndInv
  OBVIOUS
<1> USE DEF Init
<1>1. account \in [Ids -> Records \cup {Nil}]
  BY ConfigAssumption DEF Records, Names, Keys, Roles
<1>2. post \in [PostIds \cup CommentIds -> PostRecords \cup {Nil}]
  BY ConfigAssumption DEF PostRecords, Uuids
<1>3. chainKey \in [Names -> Keys \cup {Nil}]
  BY ConfigAssumption DEF Names, Keys, Roles
<1>4. worker \in [Jobs -> Workers] /\ \A v \in Jobs : WorkerOK(worker[v])
  BY IdleType
<1>5. /\ \A w \in Jobs : Len(queue[w]) <= QueueSize /\ DOMAIN queue[w] = {}
      /\ queue \in [Jobs -> Seq(Reqs)]
  BY EmptySeq, ConfigAssumption
<1>6. \A r \in Reqs : RequestOK(r)
  BY DEF RequestOK
<1>7. ledger \in [Ids -> Seq(Entries)] /\ checks \in [Reqs -> Seq(Checks)]
  BY EmptySeq
<1>8. faults \in 0 .. MaxFaults
  BY ConfigAssumption
<1> QED
  BY <1>1, <1>2, <1>3, <1>4, <1>5, <1>6, <1>7, <1>8 DEF IndInv, TypeOK

LEMMA StepOK == IndInv /\ [Next]_vars => IndInv'
<1> SUFFICES ASSUME IndInv, [Next]_vars PROVE IndInv'
  OBVIOUS
<1>1. CASE \E r \in Reqs : \E b \in Requests(r) : Arrive(r, b)
  BY <1>1, ArriveOK
<1>2. ASSUME NEW r \in Reqs, Handle(r)
      PROVE  IndInv'
  BY <1>2, CheckPassesOK, CheckRefusesOK, TurnsFakeOK, CheckFailsOK, PutOK DEF Handle
<1>3. ASSUME NEW w \in Jobs, Take(w)
      PROVE  IndInv'
  <2>1. /\ WorkersOK' /\ queue' \in [Jobs -> Seq(Reqs)]
        /\ \A v \in Jobs : /\ Len(queue'[v]) <= QueueSize
                           /\ \A k \in DOMAIN queue'[v] : Accepted(queue'[v][k])
    BY <1>3, TakeOK
  <2>2. UNCHANGED <<redisVars, chainVars, faults, unchangedByJob>>
    BY <1>3 DEF Take
  <2> QED
    BY <2>1, <2>2 DEF IndInv, TypeOK, WorkersOK, RequestOK, Accepted,
                      redisVars, chainVars, unchangedByJob
<1>4. ASSUME NEW w \in Jobs, Work(w)
      PROVE  IndInv'
  <2>1. WorkersOK' /\ StoresOK' /\ UNCHANGED <<queue, unchangedByJob>>
    BY <1>4, WorkOK
  <2> QED
    BY <2>1 DEF IndInv, TypeOK, WorkersOK, StoresOK, RequestOK, Accepted, unchangedByJob
<1>5. CASE Crash
  BY <1>5, CrashOK
<1>6. CASE UNCHANGED vars
  <2> USE <1>6 DEF vars
  <2>1. TypeOK'
    BY DEF IndInv, TypeOK
  <2>2. \A r \in Reqs : RequestOK(r)'
    BY DEF IndInv, RequestOK
  <2>3. \A w \in Jobs : \A k \in DOMAIN queue'[w] : Accepted(queue[w][k])'
    BY DEF IndInv, Accepted
  <2>4. ASSUME NEW w \in Jobs
        PROVE  WorkerOK(worker[w])'
    <3>1. WorkerOK(worker[w]) /\ UNCHANGED <<req, checks, reply, worker>>
      BY DEF IndInv
    <3> QED
      BY ONLY <3>1 DEF WorkerOK, Accepted
  <2> QED
    BY <2>1, <2>2, <2>3, <2>4 DEF IndInv
<1> QED
  BY <1>1, <1>2, <1>3, <1>4, <1>5, <1>6 DEF Next

\* Every variable keeps its type, whatever fails: in particular no channel
\* holds more than its capacity, and a worker never uses a name, a key or the
\* owner of a post that the code has not read or generated before.
THEOREM TypeCorrect == Spec => []TypeOK
<1>1. IndInv => TypeOK
  BY DEF IndInv
<1> QED
  BY <1>1, InitOK, StepOK, PTL DEF Spec

-----------------------------------------------------------------------------
(* The order of a user's ledger.                                            *)

\* The message in hand is kept or dropped by every step but Take.
LEMMA CurKept ==
    ASSUME IndInv, NEW w \in Jobs, Work(w)
    PROVE  \A v \in Jobs : worker'[v].cur \in {worker[v].cur, Nil}
<1> SUFFICES worker'[w].cur \in {worker[w].cur, Nil}
             /\ \A v \in Jobs \ {w} : worker'[v] = worker[v]
  OBVIOUS
<1> USE DEF GoOn, Abandon, Become, IdleWorker
<1>1. worker \in [Jobs -> Workers] /\ worker[w] \in Workers
  BY DEF IndInv, TypeOK
<1>2. DOMAIN worker[w] = {"cur", "steps", "id", "name", "uuid", "key", "fresh"}
  BY <1>1 DEF Workers
<1>3. CASE ReadName(w)
  <2> DEFINE st == [worker[w] EXCEPT !.name[Role(w)] = account[Id(w)].name]
  <2>1. Abandon(w) \/ GoOn(w, st)
    BY <1>3 DEF ReadName
  <2>2. st.cur = worker[w].cur /\ "cur" \in DOMAIN st
    BY <1>2
  <2> HIDE DEF st
  <2> QED
    BY <1>1, <2>1, <2>2
<1>4. CASE ReadKey(w)
  <2> DEFINE st == [worker[w] EXCEPT !.key = account[Id(w)].key]
  <2>1. Abandon(w) \/ GoOn(w, st)
    BY <1>4 DEF ReadKey
  <2>2. st.cur = worker[w].cur /\ "cur" \in DOMAIN st
    BY <1>2
  <2> HIDE DEF st
  <2> QED
    BY <1>1, <2>1, <2>2
<1>5. CASE ReadOwner(w)
  BY <1>1, <1>2, <1>5 DEF ReadOwner
<1>6. CASE ReadUuid(w)
  BY <1>1, <1>2, <1>6 DEF ReadUuid
<1>7. CASE WriteRedis(w)
  BY <1>1, <1>2, <1>7 DEF WriteRedis
<1>8. CASE RedisFails(w)
  BY <1>1, <1>2, <1>8 DEF RedisFails
<1>9. CASE QueryChain(w)
  BY <1>1, <1>2, <1>9 DEF QueryChain
<1>10. CASE QueryFails(w)
  BY <1>1, <1>2, <1>10 DEF QueryFails
<1>11. CASE CreateOnChain(w)
  BY <1>1, <1>2, <1>11 DEF CreateOnChain
<1>12. CASE Fund(w)
  BY <1>1, <1>2, <1>12 DEF Fund
<1>13. CASE Call(w)
  BY <1>1, <1>2, <1>13 DEF Call
<1>14. CASE BroadcastFails(w)
  BY <1>1, <1>2, <1>14 DEF BroadcastFails
<1> QED
  BY <1>3, <1>4, <1>5, <1>6, <1>7, <1>8, <1>9, <1>10, <1>11, <1>12, <1>13, <1>14
     DEF Work

\* Every step but Call leaves the ledger alone.
LEMMA LedgerKept ==
    ASSUME NEW w \in Jobs, Work(w), ~Call(w)
    PROVE  UNCHANGED ledger
  BY DEF Work, ReadName, ReadKey, ReadOwner, ReadUuid, WriteRedis, RedisFails,
         QueryChain, QueryFails, CreateOnChain, Fund, BroadcastFails, chainVars

\* A step that only lets requests, channels or messages in hand go.
LEMMA OrderKept ==
    ASSUME IndInv, OrderInv, UNCHANGED <<ledger, ticket, clock>>,
           \A v \in Jobs : worker'[v].cur \in {worker[v].cur, Nil},
           \A v \in Jobs : queue'[v] \in {queue[v], <<>>},
           \A r \in Reqs : reply[r] # Nil => reply'[r] # Nil,
           \A r \in Reqs : Accepted(r) => req'[r] = req[r]
    PROVE  OrderInv'
<1>1. /\ \A w \in Jobs : \A k \in DOMAIN queue[w] :
            queue[w][k] \in Reqs /\ Accepted(queue[w][k])
      /\ \A w \in Jobs : worker[w].cur # Nil =>
            worker[w].cur \in Reqs /\ Accepted(worker[w].cur)
      /\ \A i \in Ids : \A n \in DOMAIN ledger[i] : ledger[i][n].req \in Reqs
      /\ \A i \in Ids : JobOf(i) \in Jobs
      /\ DOMAIN <<>> = {}
  <2>1. ASSUME NEW w \in Jobs, NEW k \in DOMAIN queue[w]
        PROVE  queue[w][k] \in Reqs /\ Accepted(queue[w][k])
    BY ElementOfSeq, LenProperties DEF IndInv, TypeOK
  <2>2. ASSUME NEW w \in Jobs, worker[w].cur # Nil
        PROVE  worker[w].cur \in Reqs /\ Accepted(worker[w].cur)
    BY <2>2 DEF IndInv, TypeOK, WorkerOK, Workers
  <2>3. ASSUME NEW i \in Ids, NEW n \in DOMAIN ledger[i]
        PROVE  ledger[i][n].req \in Reqs
    <3>1. ledger[i] \in Seq(Entries)
      BY DEF IndInv, TypeOK
    <3>2. ledger[i][n] \in Entries
      BY <3>1, ElementOfSeq, LenProperties
    <3> QED
      BY <3>2 DEF Entries
  <2> QED
    BY <2>1, <2>2, <2>3, JobOfType
<1>2. LedgerInOrder'
  BY DEF OrderInv, LedgerInOrder
<1>3. ASSUME NEW w \in Jobs, NEW k \in DOMAIN queue'[w]
      PROVE  /\ Ticketed(queue[w][k], w)'
             /\ \A l \in DOMAIN queue'[w] :
                   k < l => ticket'[queue'[w][k]] < ticket'[queue'[w][l]]
             /\ worker'[w].cur # Nil => ticket'[worker'[w].cur] < ticket'[queue'[w][k]]
  <2>1. queue'[w] = queue[w]
    BY <1>1
  <2>2. /\ Ticketed(queue[w][k], w)
        /\ \A l \in DOMAIN queue[w] :
              k < l => ticket[queue[w][k]] < ticket[queue[w][l]]
        /\ worker[w].cur # Nil => ticket[worker[w].cur] < ticket[queue[w][k]]
    BY <2>1 DEF OrderInv
  <2> QED
    BY <1>1, <2>1, <2>2 DEF Ticketed
<1>4. ASSUME NEW w \in Jobs, worker'[w].cur # Nil
      PROVE  Ticketed(worker[w].cur, w)'
  <2>1. worker'[w].cur = worker[w].cur /\ Ticketed(worker[w].cur, w)
    BY <1>4 DEF OrderInv
  <2> QED
    BY <1>1, <1>4, <2>1 DEF Ticketed
<1>5. ASSUME NEW i \in Ids, NEW n \in DOMAIN ledger'[i]
      PROVE  LET w == JobOf(i)
                 t == ticket'[ledger'[i][n].req]
             IN  /\ reply'[ledger'[i][n].req] # Nil
                 /\ t <= clock'
                 /\ worker'[w].cur # Nil => t < ticket'[worker'[w].cur]
                 /\ \A k \in DOMAIN queue'[w] : t < ticket'[queue'[w][k]]
  BY <1>1 DEF OrderInv
<1> QED
  BY <1>2, <1>3, <1>4, <1>5 DEF OrderInv

\* Where the requests on a channel, in hand and on the ledger come from.
LEMMA Whereabouts ==
    ASSUME IndInv
    PROVE  /\ \A w \in Jobs : \A k \in DOMAIN queue[w] :
                 queue[w][k] \in Reqs /\ Accepted(queue[w][k])
           /\ \A w \in Jobs : worker[w].cur # Nil =>
                 worker[w].cur \in Reqs /\ Accepted(worker[w].cur)
           /\ \A i \in Ids : /\ ledger[i] \in Seq(Entries)
                             /\ \A n \in DOMAIN ledger[i] : ledger[i][n].req \in Reqs
<1>1. ASSUME NEW w \in Jobs, NEW k \in DOMAIN queue[w]
      PROVE  queue[w][k] \in Reqs /\ Accepted(queue[w][k])
  BY ElementOfSeq, LenProperties DEF IndInv, TypeOK
<1>2. ASSUME NEW w \in Jobs, worker[w].cur # Nil
      PROVE  worker[w].cur \in Reqs /\ Accepted(worker[w].cur)
  BY <1>2 DEF IndInv, TypeOK, WorkerOK, Workers
<1>3. ASSUME NEW i \in Ids, NEW n \in DOMAIN ledger[i]
      PROVE  ledger[i][n].req \in Reqs
  <2>1. ledger[i] \in Seq(Entries)
    BY DEF IndInv, TypeOK
  <2>2. ledger[i][n] \in Entries
    BY <2>1, ElementOfSeq, LenProperties
  <2> QED
    BY <2>2 DEF Entries
<1> QED
  BY <1>1, <1>2, <1>3 DEF IndInv, TypeOK

\* The transaction of the message in hand goes behind the ledger and leaves
\* before the channel.
LEMMA CallOrder ==
    ASSUME IndInv, OrderInv, NEW w \in Jobs, Call(w)
    PROVE  OrderInv'
<1> DEFINE r == worker[w].cur
           u == Id(w)
<1>1. /\ r \in Reqs /\ Accepted(r) /\ r # Nil /\ u \in Ids
      /\ Entry(w) \in Entries /\ Entry(w).req = r /\ u = req[r].id
  BY AtStep, EntryType, NilType DEF Call, Msg
<1>2. Ticketed(r, w) /\ JobOf(u) = w
  BY <1>1 DEF OrderInv, Ticketed
<1>3. /\ UNCHANGED <<queue, ticket, clock, req, reply>>
      /\ \A v \in Jobs \ {w} : worker'[v] = worker[v]
      /\ worker'[w].cur = Nil
      /\ ledger' \in {ledger, [ledger EXCEPT ![u] = Append(@, Entry(w))]}
  BY DEF Call, Abandon, Become, IdleWorker, unchangedByJob, IndInv, TypeOK
<1> HIDE DEF r, u
<1>4. \A i \in Ids \ {u} : ledger'[i] = ledger[i]
  BY <1>1, <1>3 DEF IndInv, TypeOK
<1>5. \/ ledger'[u] = ledger[u]
      \/ /\ DOMAIN ledger[u] = 1 .. Len(ledger[u])
         /\ Len(ledger[u]) \in Nat
         /\ DOMAIN ledger'[u] = 1 .. Len(ledger[u]) + 1
         /\ \A n \in 1 .. Len(ledger[u]) : ledger'[u][n] = ledger[u][n]
         /\ ledger'[u][Len(ledger[u]) + 1].req = r
  <2>1. CASE ledger' = ledger
    BY <2>1
  <2>2. CASE ledger' = [ledger EXCEPT ![u] = Append(@, Entry(w))]
    <3>1. ledger'[u] = Append(ledger[u], Entry(w)) /\ ledger[u] \in Seq(Entries)
      BY <1>1, <2>2 DEF IndInv, TypeOK
    <3> QED
      BY <1>1, <3>1, AppendProperties, LenProperties
  <2> QED
    BY <1>3, <2>1, <2>2
<1>6. ASSUME NEW i \in Ids, NEW n \in DOMAIN ledger'[i]
      PROVE  \/ n \in DOMAIN ledger[i] /\ ledger'[i][n] = ledger[i][n]
             \/ i = u /\ n = Len(ledger[u]) + 1 /\ ledger'[i][n].req = r
                /\ DOMAIN ledger[u] = 1 .. Len(ledger[u])
  BY <1>4, <1>5
<1>7. \A n \in DOMAIN ledger[u] : ticket[ledger[u][n].req] < ticket[r]
  BY <1>1, <1>2 DEF OrderInv, r
<1>8. LedgerInOrder'
  <2> SUFFICES ASSUME NEW i \in Ids, NEW j \in DOMAIN ledger'[i],
                      NEW k \in DOMAIN ledger'[i], j < k
               PROVE  ticket'[ledger'[i][j].req] < ticket'[ledger'[i][k].req]
    BY DEF LedgerInOrder
  <2>1. CASE k \in DOMAIN ledger[i] /\ ledger'[i][k] = ledger[i][k]
    <3>1. j \in DOMAIN ledger[i] /\ ledger'[i][j] = ledger[i][j]
      BY <1>6, <2>1, LenProperties, Whereabouts
    <3> QED
      BY <1>3, <2>1, <3>1 DEF OrderInv, LedgerInOrder
  <2>2. CASE i = u /\ k = Len(ledger[u]) + 1 /\ ledger'[i][k].req = r
    <3>1. j \in DOMAIN ledger[i] /\ ledger'[i][j] = ledger[i][j]
      BY <1>6, <2>2, LenProperties, Whereabouts
    <3> QED
      BY <1>3, <1>7, <2>2, <3>1
  <2> QED
    BY <1>6, <2>1, <2>2
<1>9. \A v \in Jobs : \A k \in DOMAIN queue'[v] :
         /\ Ticketed(queue[v][k], v)'
         /\ \A l \in DOMAIN queue'[v] :
               k < l => ticket'[queue'[v][k]] < ticket'[queue'[v][l]]
         /\ worker'[v].cur # Nil => ticket'[worker'[v].cur] < ticket'[queue'[v][k]]
  BY <1>3 DEF OrderInv, Ticketed
<1>10. \A v \in Jobs : worker'[v].cur # Nil => Ticketed(worker[v].cur, v)'
  BY <1>3 DEF OrderInv, Ticketed
<1>11. ASSUME NEW i \in Ids, NEW n \in DOMAIN ledger'[i]
       PROVE  LET v == JobOf(i)
                  t == ticket'[ledger'[i][n].req]
              IN  /\ reply'[ledger'[i][n].req] # Nil
                  /\ t <= clock'
                  /\ worker'[v].cur # Nil => t < ticket'[worker'[v].cur]
                  /\ \A k \in DOMAIN queue'[v] : t < ticket'[queue'[v][k]]
  <2>1. CASE n \in DOMAIN ledger[i] /\ ledger'[i][n] = ledger[i][n]
    BY <1>3, <2>1, JobOfType DEF OrderInv
  <2>2. CASE i = u /\ ledger'[i][n].req = r
    <3>1. \A k \in DOMAIN queue[w] : ticket[r] < ticket[queue[w][k]]
      BY <1>1 DEF OrderInv, r
    <3>2. reply[r] # Nil /\ ticket[r] <= clock
      BY <1>2 DEF Ticketed, IndInv, TypeOK
    <3> QED
      BY <1>2, <1>3, <2>2, <3>1, <3>2
  <2> QED
    BY <1>6, <2>1, <2>2
<1> QED
  BY <1>8, <1>9, <1>10, <1>11 DEF OrderInv

\* The first message of the channel becomes the one in hand.
LEMMA TakeOrder ==
    ASSUME IndInv, OrderInv, NEW w \in Jobs, Take(w)
    PROVE  OrderInv'
<1> DEFINE r == Head(queue[w])
<1>1. /\ r \in Reqs /\ r = queue[w][1] /\ 1 \in DOMAIN queue[w]
      /\ Len(queue[w]) \in Nat \ {0}
      /\ DOMAIN queue[w] = 1 .. Len(queue[w])
      /\ DOMAIN Tail(queue[w]) = 1 .. Len(queue[w]) - 1
      /\ \A k \in 1 .. Len(queue[w]) - 1 : Tail(queue[w])[k] = queue[w][k + 1]
  <2>1. queue[w] \in Seq(Reqs) /\ queue[w] # <<>>
    BY DEF Take, IndInv, TypeOK
  <2> QED
    BY <2>1, HeadTailProperties, EmptySeq, LenProperties
<1>2. /\ UNCHANGED <<ledger, ticket, clock, req, reply>>
      /\ worker[w].cur = Nil
      /\ \A v \in Jobs \ {w} : worker'[v] = worker[v] /\ queue'[v] = queue[v]
      /\ worker'[w].cur = r
      /\ queue'[w] = Tail(queue[w])
  BY DEF Take, Become, IdleWorker, unchangedByJob, chainVars, IndInv, TypeOK
<1> HIDE DEF r
<1>3. \A k \in DOMAIN queue'[w] :
         k + 1 \in DOMAIN queue[w] /\ queue'[w][k] = queue[w][k + 1] /\ 1 < k + 1 /\ k \in Nat
  BY <1>1, <1>2
<1>4. LedgerInOrder'
  BY <1>2 DEF OrderInv, LedgerInOrder
<1>5. ASSUME NEW v \in Jobs, NEW k \in DOMAIN queue'[v]
      PROVE  /\ Ticketed(queue[v][k], v)'
             /\ \A l \in DOMAIN queue'[v] :
                   k < l => ticket'[queue'[v][k]] < ticket'[queue'[v][l]]
             /\ worker'[v].cur # Nil => ticket'[worker'[v].cur] < ticket'[queue'[v][k]]
  <2>1. CASE v # w
    BY <1>2, <2>1 DEF OrderInv, Ticketed
  <2>2. CASE v = w
    <3>1. Ticketed(queue[w][k + 1], w)
      BY <1>3, <2>2 DEF OrderInv
    <3>2. \A l \in DOMAIN queue'[w] : k < l => k + 1 < l + 1
      BY <1>3, <2>2
    <3>3. \A l \in DOMAIN queue'[v] :
             k < l => ticket'[queue'[v][k]] < ticket'[queue'[v][l]]
      BY <1>2, <1>3, <2>2, <3>2 DEF OrderInv
    <3>4. ticket[queue[w][1]] < ticket[queue[w][k + 1]]
      BY <1>1, <1>3, <2>2 DEF OrderInv
    <3> QED
      BY <1>1, <1>2, <1>3, <2>2, <3>1, <3>3, <3>4 DEF Ticketed
  <2> QED
    BY <2>1, <2>2
<1>6. ASSUME NEW v \in Jobs, worker'[v].cur # Nil
      PROVE  Ticketed(worker[v].cur, v)'
  <2>1. CASE v # w
    BY <1>2, <1>6, <2>1 DEF OrderInv, Ticketed
  <2>2. CASE v = w
    BY <1>1, <1>2, <2>2 DEF OrderInv, Ticketed
  <2> QED
    BY <2>1, <2>2
<1>7. ASSUME NEW i \in Ids, NEW n \in DOMAIN ledger'[i]
      PROVE  LET v == JobOf(i)
                 t == ticket'[ledger'[i][n].req]
             IN  /\ reply'[ledger'[i][n].req] # Nil
                 /\ t <= clock'
                 /\ worker'[v].cur # Nil => t < ticket'[worker'[v].cur]
                 /\ \A k \in DOMAIN queue'[v] : t < ticket'[queue'[v][k]]
  <2>1. CASE JobOf(i) # w
    BY <1>2, <2>1, JobOfType DEF OrderInv
  <2>2. CASE JobOf(i) = w
    <3>1. /\ reply[ledger[i][n].req] # Nil
          /\ ticket[ledger[i][n].req] <= clock
          /\ \A k \in DOMAIN queue[w] : ticket[ledger[i][n].req] < ticket[queue[w][k]]
      BY <1>2, <2>2 DEF OrderInv
    <3> QED
      BY <1>1, <1>2, <1>3, <2>2, <3>1
  <2> QED
    BY <2>1, <2>2
<1> QED
  BY <1>4, <1>5, <1>6, <1>7 DEF OrderInv

\* The new ticket is greater than all before.
LEMMA PutOrder ==
    ASSUME IndInv, OrderInv, NEW r \in Reqs, Put(r)
    PROVE  OrderInv'
<1>0. PICK w \in Jobs : w = JobOf(req[r].id)
  <2>1. req[r] \in Messages
    BY DEF Put, IndInv, TypeOK
  <2> QED
    BY <2>1, MessageFields, JobOfType
<1>1. reply[r] = Nil /\ clock \in Nat /\ queue[w] \in Seq(Reqs)
  BY DEF Put, IndInv, TypeOK
<1>2. /\ UNCHANGED <<ledger, worker, req>>
      /\ clock' = clock + 1 /\ ticket'[r] = clock + 1
      /\ \A q \in Reqs \ {r} : ticket'[q] = ticket[q] /\ reply'[q] = reply[q]
      /\ reply'[r] # Nil
      /\ \A v \in Jobs \ {w} : queue'[v] = queue[v]
      /\ queue'[w] = Append(queue[w], r)
  <2>1. reply'[r] \in Replies
    BY DEF Put, IndInv, TypeOK, Replies
  <2>2. reply'[r] # Nil
    BY <2>1, NilType
  <2> QED
    BY <1>0, <1>1, <2>2 DEF Put, unchangedByServer, IndInv, TypeOK
<1>3. /\ Len(queue[w]) \in Nat /\ DOMAIN queue[w] = 1 .. Len(queue[w])
      /\ DOMAIN queue'[w] = 1 .. Len(queue[w]) + 1
      /\ \A k \in 1 .. Len(queue[w]) : queue'[w][k] = queue[w][k]
      /\ queue'[w][Len(queue[w]) + 1] = r
  BY <1>1, <1>2, AppendProperties, LenProperties
<1>5. ASSUME NEW q \in Reqs, reply[q] # Nil
      PROVE  q # r /\ ticket'[q] = ticket[q] /\ reply'[q] = reply[q]
  BY <1>1, <1>2, <1>5
<1>6. \A q \in Reqs, v \in Jobs : Ticketed(q, v) => Ticketed(q, v)' /\ ticket'[q] = ticket[q]
                                                    /\ ticket'[q] < ticket'[r]
  BY <1>1, <1>2, <1>5 DEF Ticketed
<1>7. Ticketed(r, w)'
  BY <1>0, <1>1, <1>2 DEF Ticketed
<1>8. \A i \in Ids : \A n \in DOMAIN ledger[i] :
         /\ ticket'[ledger[i][n].req] = ticket[ledger[i][n].req]
         /\ reply'[ledger[i][n].req] = reply[ledger[i][n].req]
         /\ ticket[ledger[i][n].req] <= clock
         /\ ticket[ledger[i][n].req] \in Nat
  BY <1>5, Whereabouts DEF OrderInv, IndInv, TypeOK
<1>9. LedgerInOrder'
  BY <1>2, <1>8 DEF OrderInv, LedgerInOrder
<1>10. ASSUME NEW v \in Jobs, NEW k \in DOMAIN queue'[v]
       PROVE  \/ k \in DOMAIN queue[v] /\ queue'[v][k] = queue[v][k]
                 /\ (v = w => k < Len(queue[w]) + 1)
              \/ v = w /\ k = Len(queue[w]) + 1 /\ queue'[v][k] = r
                 /\ \A l \in DOMAIN queue'[v] : ~(k < l)
  BY <1>2, <1>3
<1>11. ASSUME NEW v \in Jobs, worker'[v].cur # Nil
       PROVE  Ticketed(worker[v].cur, v)' /\ ticket'[worker[v].cur] = ticket[worker[v].cur]
              /\ ticket'[worker[v].cur] < ticket'[r]
  <2>1. Ticketed(worker[v].cur, v) /\ worker[v].cur \in Reqs
    BY <1>2, <1>11, Whereabouts DEF OrderInv
  <2> QED
    BY <1>2, <1>6, <2>1 DEF Ticketed
<1>12. ASSUME NEW v \in Jobs, NEW k \in DOMAIN queue[v]
       PROVE  /\ Ticketed(queue[v][k], v) /\ queue[v][k] \in Reqs
              /\ ticket'[queue[v][k]] = ticket[queue[v][k]]
              /\ ticket'[queue[v][k]] < ticket'[r]
  BY <1>6, Whereabouts DEF OrderInv
<1>13. ASSUME NEW v \in Jobs, NEW k \in DOMAIN queue'[v]
       PROVE  /\ Ticketed(queue[v][k], v)'
              /\ \A l \in DOMAIN queue'[v] :
                    k < l => ticket'[queue'[v][k]] < ticket'[queue'[v][l]]
              /\ worker'[v].cur # Nil => ticket'[worker'[v].cur] < ticket'[queue'[v][k]]
  <2>1. CASE k \in DOMAIN queue[v] /\ queue'[v][k] = queue[v][k]
    <3>1. Ticketed(queue[v][k], v)'
      BY <1>6, <1>12, <2>1 DEF Ticketed
    <3>2. ASSUME NEW l \in DOMAIN queue'[v], k < l
          PROVE  ticket'[queue'[v][k]] < ticket'[queue'[v][l]]
      BY <1>10, <1>12, <2>1, <3>2 DEF OrderInv
    <3>3. worker'[v].cur # Nil => ticket'[worker'[v].cur] < ticket'[queue'[v][k]]
      BY <1>2, <1>11, <1>12, <2>1 DEF OrderInv
    <3> QED
      BY <3>1, <3>2, <3>3
  <2>2. CASE v = w /\ queue'[v][k] = r /\ \A l \in DOMAIN queue'[v] : ~(k < l)
    BY <1>2, <1>7, <1>11, <2>2 DEF Ticketed
  <2> QED
    BY <1>10, <2>1, <2>2
<1>14. ASSUME NEW i \in Ids, NEW n \in DOMAIN ledger'[i]
       PROVE  LET v == JobOf(i)
                  t == ticket'[ledger'[i][n].req]
              IN  /\ reply'[ledger'[i][n].req] # Nil
                  /\ t <= clock'
                  /\ worker'[v].cur # Nil => t < ticket'[worker'[v].cur]
                  /\ \A k \in DOMAIN queue'[v] : t < ticket'[queue'[v][k]]
  <2> DEFINE v == JobOf(i)
             t == ticket[ledger[i][n].req]
  <2>1. /\ ticket'[ledger'[i][n].req] = t /\ t <= clock /\ t \in Nat
        /\ reply'[ledger'[i][n].req] # Nil /\ v \in Jobs
    BY <1>2, <1>8, JobOfType DEF OrderInv
  <2>2. worker'[v].cur # Nil => t < ticket'[worker'[v].cur]
    BY <1>2, <1>11, <2>1 DEF OrderInv
  <2>3. ASSUME NEW k \in DOMAIN queue'[v]
        PROVE  t < ticket'[queue'[v][k]]
    <3>1. CASE k \in DOMAIN queue[v] /\ queue'[v][k] = queue[v][k]
      BY <1>2, <1>12, <2>1, <3>1 DEF OrderInv
    <3>2. CASE queue'[v][k] = r
      BY <1>1, <1>2, <2>1, <3>2
    <3> QED
      BY <1>10, <2>1, <3>1, <3>2
  <2> QED
    BY <1>1, <1>2, <2>1, <2>2, <2>3
<1> QED
  BY <1>9, <1>11, <1>13, <1>14 DEF OrderInv

LEMMA OrderInit == Init => OrderInv
<1> SUFFICES ASSUME Init PROVE OrderInv
  OBVIOUS
<1>1. /\ \A w \in Jobs : DOMAIN queue[w] = {} /\ worker[w].cur = Nil
      /\ \A i \in Ids : DOMAIN ledger[i] = {}
  BY DEF Init, IdleWorker
<1> QED
  BY <1>1 DEF OrderInv, LedgerInOrder

LEMMA OrderStep == IndInv /\ OrderInv /\ [Next]_vars => OrderInv'
<1> SUFFICES ASSUME IndInv, OrderInv, [Next]_vars PROVE OrderInv'
  OBVIOUS
<1>1. ASSUME NEW r \in Reqs, NEW b \in Requests(r), Arrive(r, b)
      PROVE  OrderInv'
  <2>1. \A q \in Reqs : Accepted(q) => req'[q] = req[q]
    BY <1>1 DEF Arrive, Accepted, IndInv, TypeOK
  <2> QED
    BY <1>1, <2>1, OrderKept DEF Arrive, unchangedByServer
<1>2. ASSUME NEW r \in Reqs, Handle(r)
      PROVE  OrderInv'
  <2>1. CASE Put(r)
    BY <2>1, PutOrder
  <2>2. CASE ~Put(r)
    <3>1. CheckPasses(r) \/ CheckRefuses(r) \/ TurnsFake(r) \/ CheckFails(r)
      BY <1>2, <2>2 DEF Handle
    <3>2. \A q \in Reqs : Accepted(q) => req'[q] = req[q]
      BY <3>1 DEF CheckPasses, CheckRefuses, TurnsFake, CheckFails, Checking,
                  Accepted, IndInv, TypeOK
    <3>3. \A q \in Reqs : reply[q] # Nil => reply'[q] # Nil
      BY <3>1 DEF CheckPasses, CheckRefuses, TurnsFake, CheckFails, Checking,
                  IndInv, TypeOK
    <3>4. UNCHANGED <<ledger, worker, queue, ticket, clock>>
      BY <3>1 DEF CheckPasses, CheckRefuses, TurnsFake, CheckFails, unchangedByServer
    <3> QED
      BY <3>2, <3>3, <3>4, OrderKept
  <2> QED
    BY <2>1, <2>2
<1>3. ASSUME NEW w \in Jobs, Take(w)
      PROVE  OrderInv'
  BY <1>3, TakeOrder
<1>4. ASSUME NEW w \in Jobs, Work(w)
      PROVE  OrderInv'
  <2>1. CASE Call(w)
    BY <2>1, CallOrder
  <2>2. CASE ~Call(w)
    BY <1>4, <2>2, WorkOK, CurKept, LedgerKept, OrderKept DEF unchangedByJob
  <2> QED
    BY <2>1, <2>2
<1>5. CASE Crash
  <2>1. /\ UNCHANGED <<ledger, ticket, clock, req>>
        /\ \A v \in Jobs : worker'[v].cur = Nil /\ queue'[v] = <<>>
        /\ \A r \in Reqs : reply[r] # Nil => reply'[r] = reply[r]
    BY <1>5 DEF Crash, chainVars, IdleWorker
  <2> QED
    BY <2>1, OrderKept
<1>6. CASE UNCHANGED vars
  BY <1>6, OrderKept DEF vars
<1> QED
  BY <1>1, <1>2, <1>3, <1>4, <1>5, <1>6 DEF Next

\* Whatever overlaps, fails or crashes, and with any number of workers: the
\* chain gets what a user's requests ask for in the order they were put, and
\* each request at most once.
THEOREM InOrder == Spec => []LedgerInOrder
<1>1. OrderInv => LedgerInOrder
  BY DEF OrderInv
<1> QED
  BY <1>1, InitOK, StepOK, OrderInit, OrderStep, PTL DEF Spec

=============================================================================
