------------------------------ MODULE Workers -------------------------------
(***************************************************************************)
(* Package job: each worker takes one message at a time from its channel   *)
(* and runs the process function of its type.  A function is the sequence  *)
(* of the redis commands and chain calls it makes; everything may happen   *)
(* between two of them.  A step that fails abandons the message: nothing   *)
(* is retried and nothing is undone.                                       *)
(***************************************************************************)
EXTENDS ProxyState

S(do) == <<do, "self">>
P(do) == <<do, "peer">>

\* createAccount: write a new name and key pair to redis, then to the chain.
createAccount(role) == << <<"SetAccount", role>>, <<"Create", role>> >>

\* Mutant of processFollowMsg: the followed account is not looked up.
processFollowMsgBlind == <<S("Name"), P("Name"), S("Mark"), S("Exist"), S("Key"), S("Call")>>

\* Mutant of processUnfollowMsg: it sets the unique key, as following does.
processUnfollowMsgMarks == <<S("Name"), P("Name"), S("Mark"), S("Exist"), P("Exist"),
                             S("Key"), S("Call")>>

\* Mutant of processSignInMsg: the unique key is forgotten.
processSignInMsgUnmarked == <<S("Name"), S("Exist"), S("Fund"), S("Key"), S("Call")>>

processAccountMsg == createAccount("self")
processPostMsg    == <<S("Name"), S("SavePost"), S("Exist"), S("Key"), S("Call")>>
processLikeMsg    == <<S("Name"), S("Mark"), S("Exist"), S("Key"), P("Owner"),
                       P("Uuid"), P("Name"), P("Exist"), S("Call")>>
processCommentMsg == <<S("Name"), S("SavePost"), S("Exist"), S("Key"), P("Owner"),
                       P("Uuid"), P("Name"), P("Exist"), S("Call")>>
processFollowMsg  == <<S("Name"), P("Name"), S("Mark"), S("Exist"), P("Exist"),
                       S("Key"), S("Call")>>
processUnfollowMsg == <<S("Name"), P("Name"), S("Unmark"), S("Exist"), P("Exist"),
                        S("Key"), S("Call")>>
processSignInMsg  == <<S("Name"), S("Mark"), S("Exist"), S("Fund"), S("Key"), S("Call")>>
processFakeMsg    == <<S("Exist"), S("Fund"), S("Key"), S("Call")>>

\* Job.Start: the switch on the type of the message.
StepsOf(kind) ==
    CASE kind = "account"  -> processAccountMsg
      [] kind = "post"     -> processPostMsg
      [] kind = "like"     -> processLikeMsg
      [] kind = "comment"  -> processCommentMsg
      [] kind = "follow"   -> processFollowMsg
      [] kind = "unfollow" -> processUnfollowMsg
      [] kind = "signin"   -> processSignInMsg
      [] OTHER             -> processFakeMsg

-----------------------------------------------------------------------------
unchangedByJob == <<req, checks, reply, ticket, clock>>

Msg(w)  == req[worker[w].cur]
Step(w) == Head(worker[w].steps)
Role(w) == Step(w)[2]

\* Worker w is about to make step do.
At(w, do) == /\ worker[w].steps # <<>>
             /\ Step(w)[1] = do

\* The id and the name of the account that the step is about.
Id(w)   == worker[w].id[Role(w)]
Name(w) == worker[w].name[Role(w)]

\* The key pair that worker w generates for the account of its step.
NewKey(w) == <<worker[w].cur, Role(w)>>

Become(w, state) == worker' = [worker EXCEPT ![w] = state]
Abandon(w)       == Become(w, IdleWorker)

\* Go on with the next step, keeping what the locals of state hold.
GoOn(w, state) ==
    Become(w, IF Len(state.steps) = 1 THEN IdleWorker
              ELSE [state EXCEPT !.steps = Tail(@)])

\* The worker receives the next message.
Take(w) ==
    /\ worker[w].cur = Nil
    /\ queue[w] # <<>>
    /\ LET m == req[Head(queue[w])]
       IN  Become(w, [IdleWorker EXCEPT
                        !.cur = Head(queue[w]),
                        !.steps = StepsOf(m.kind),
                        !.id["self"] = m.id,
                        !.id["peer"] = IF m.kind \in {"follow", "unfollow"}
                                       THEN m.target ELSE Nil,
                        !.name["self"] = m.name])
    /\ queue' = [queue EXCEPT ![w] = Tail(@)]
    /\ UNCHANGED <<redisVars, chainVars, faults, unchangedByJob>>

-----------------------------------------------------------------------------
(* Reads from redis.                                                        *)

\* HGETString(id, Name): an unknown id, or "", has no name.
ReadName(w) ==
    /\ At(w, "Name")
    /\ IF Id(w) = Nil \/ account[Id(w)] = Nil
       THEN Abandon(w)
       ELSE GoOn(w, [worker[w] EXCEPT !.name[Role(w)] = account[Id(w)].name])
    /\ UNCHANGED <<redisVars, chainVars, queue, faults, unchangedByJob>>

\* HGETString(id, PrivateKey)
ReadKey(w) ==
    /\ At(w, "Key")
    /\ IF account[Id(w)] = Nil
       THEN Abandon(w)
       ELSE GoOn(w, [worker[w] EXCEPT !.key = account[Id(w)].key])
    /\ UNCHANGED <<redisVars, chainVars, queue, faults, unchangedByJob>>

\* HGETString(post, Owner): a missing post has owner "".
ReadOwner(w) ==
    /\ At(w, "Owner")
    /\ LET p == post[Msg(w).target]
       IN  GoOn(w, [worker[w] EXCEPT !.id["peer"] = IF p = Nil THEN Nil ELSE p.owner])
    /\ UNCHANGED <<redisVars, chainVars, queue, faults, unchangedByJob>>

\* HGETUint64(post, UUID)
ReadUuid(w) ==
    /\ At(w, "Uuid")
    /\ LET p == post[Msg(w).target]
       IN  GoOn(w, [worker[w] EXCEPT !.uuid = IF p = Nil THEN Nil ELSE p.uuid])
    /\ UNCHANGED <<redisVars, chainVars, queue, faults, unchangedByJob>>

-----------------------------------------------------------------------------
(* Writes to redis.  Each is an effect on a variable, so that a command     *)
(* that fails may or may not have had it.                                   *)

WriteSteps == {"Mark", "Unmark", "SavePost", "SetAccount"}

\* SET, DEL, SetPostInfo and SetAccount.
Write(w) ==
    \/ /\ At(w, "Mark")
       /\ marker' = marker \cup {UniqueKey(Msg(w))}
       /\ UNCHANGED <<account, post>>
    \/ /\ At(w, "Unmark")
       /\ marker' = marker \ {UniqueKey(Msg(w))}
       /\ UNCHANGED <<account, post>>
    \/ /\ At(w, "SavePost")
       /\ post' = [post EXCEPT ![Msg(w).item] =
                     [owner |-> Msg(w).id, uuid |-> worker[w].cur]]
       /\ UNCHANGED <<account, marker>>
    \/ /\ At(w, "SetAccount")
       /\ account' = [account EXCEPT ![Id(w)] = [name |-> Name(w), key |-> NewKey(w)]]
       /\ UNCHANGED <<post, marker>>

WriteRedis(w) ==
    /\ Write(w)
    /\ GoOn(w, IF At(w, "SetAccount")
               THEN [worker[w] EXCEPT !.fresh = NewKey(w)] ELSE worker[w])
    /\ UNCHANGED <<chainVars, queue, faults, unchangedByJob>>

\* A redis command returns an error; a write may have been made all the same.
RedisFails(w) ==
    /\ \E do \in WriteSteps \cup {"Name", "Key", "Owner", "Uuid"} : At(w, do)
    /\ Fault("redis")
    /\ Write(w) \/ UNCHANGED redisVars
    /\ Abandon(w)
    /\ UNCHANGED <<chainVars, queue, unchangedByJob>>

-----------------------------------------------------------------------------
(* Calls to the chain.                                                      *)

\* Mutant of QueryChain: the answer is not looked at.
QueryChainBlind(w) ==
    /\ At(w, "Exist")
    /\ Become(w, [worker[w] EXCEPT !.steps = createAccount(Role(w)) \o Tail(@)])
    /\ UNCHANGED <<redisVars, chainVars, queue, faults, unchangedByJob>>

\* Mutant of QueryChain: it polls for the account instead of creating it.
QueryChainPolls(w) ==
    /\ At(w, "Exist")
    /\ chainKey[Name(w)] # Nil
    /\ GoOn(w, worker[w])
    /\ UNCHANGED <<redisVars, chainVars, queue, faults, unchangedByJob>>

\* accountExistInChain; a missing account is created on the way.
QueryChain(w) ==
    /\ At(w, "Exist")
    /\ IF chainKey[Name(w)] # Nil
       THEN GoOn(w, worker[w])
       ELSE Become(w, [worker[w] EXCEPT !.steps = createAccount(Role(w)) \o Tail(@)])
    /\ UNCHANGED <<redisVars, chainVars, queue, faults, unchangedByJob>>

\* accountExistInChain answers false when the call fails or times out, so
\* that the account is created whether or not the chain has it.
QueryFails(w) ==
    /\ At(w, "Exist")
    /\ Fault("query")
    /\ Become(w, [worker[w] EXCEPT !.steps = createAccount(Role(w)) \o Tail(@)])
    /\ UNCHANGED <<redisVars, chainVars, queue, unchangedByJob>>

\* The account-create transaction; the chain refuses a name it has.
CreateOnChain(w) ==
    /\ At(w, "Create")
    /\ IF chainKey[Name(w)] = Nil
       THEN /\ chainKey' = [chainKey EXCEPT ![Name(w)] = worker[w].fresh]
            /\ GoOn(w, worker[w])
       ELSE /\ UNCHANGED chainKey
            /\ Abandon(w)
    /\ UNCHANGED <<redisVars, ledger, queue, faults, unchangedByJob>>

\* transferTo: the account has enough, or is given some by the official one.
Fund(w) ==
    /\ At(w, "Fund")
    /\ GoOn(w, worker[w])
    /\ UNCHANGED <<redisVars, chainVars, queue, faults, unchangedByJob>>

\* The transaction that the message is for.  The chain accepts it when it is
\* signed with the key of the account; its answer is only logged.
Entry(w) ==
    [req |-> worker[w].cur, op |-> Msg(w).kind, by |-> Name(w),
     on |-> CASE Msg(w).kind \in {"follow", "unfollow"} -> worker[w].name["peer"]
              [] Msg(w).kind \in {"like", "comment"}    -> worker[w].uuid
              [] OTHER                                  -> Nil]

Call(w) ==
    /\ At(w, "Call")
    /\ ledger' = IF chainKey[Name(w)] = worker[w].key
                 THEN [ledger EXCEPT ![Id(w)] = Append(@, Entry(w))]
                 ELSE ledger
    /\ Abandon(w)
    /\ UNCHANGED <<redisVars, chainKey, queue, faults, unchangedByJob>>

\* Signing or broadcasting fails: the transaction is lost, or only its answer.
\* For "Call" the second is the step above, whose answer nobody reads.
BroadcastFails(w) ==
    /\ \E do \in {"Create", "Fund", "Call"} : At(w, do)
    /\ Fault("broadcast")
    /\ \/ UNCHANGED chainKey
       \/ /\ At(w, "Create")
          /\ chainKey[Name(w)] = Nil
          /\ chainKey' = [chainKey EXCEPT ![Name(w)] = worker[w].fresh]
    /\ Abandon(w)
    /\ UNCHANGED <<redisVars, ledger, queue, unchangedByJob>>

Work(w) == \/ ReadName(w) \/ ReadKey(w) \/ ReadOwner(w) \/ ReadUuid(w)
           \/ WriteRedis(w) \/ RedisFails(w)
           \/ QueryChain(w) \/ QueryFails(w)
           \/ CreateOnChain(w) \/ Fund(w) \/ Call(w) \/ BroadcastFails(w)

=============================================================================
