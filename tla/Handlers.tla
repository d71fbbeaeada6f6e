------------------------------ MODULE Handlers ------------------------------
(***************************************************************************)
(* Package server: every request runs in a goroutine of its own.  A        *)
(* handler reads redis one command at a time, answers a refusal at once,   *)
(* or Puts a message on the channel of the user's worker and then answers. *)
(***************************************************************************)
EXTENDS ProxyState

\* The reads of each handler, in the order it makes them.
accountChecks  == <<"NewId">>
postChecks     == <<"NewItem", "Id">>
likeChecks     == <<"Id", "Target", "NewMark">>
commentChecks  == <<"NewItem", "Id", "Target">>
followChecks   == <<"Id", "Peer", "NewMark">>
unfollowChecks == <<"Id", "Peer", "Mark">>
signInChecks   == <<"Id", "NewMark">>

ChecksOf(kind) ==
    CASE kind = "account"  -> accountChecks
      [] kind = "post"     -> postChecks
      [] kind = "like"     -> likeChecks
      [] kind = "comment"  -> commentChecks
      [] kind = "follow"   -> followChecks
      [] kind = "unfollow" -> unfollowChecks
      [] kind = "signin"   -> signInChecks

\* What redis must answer for check c of request m to let it go on.  The
\* check "NewId" also stands for the EXISTS of the generated name, which no
\* code ever writes as a key, so that it never refuses.
Passes(c, m) ==
    CASE c = "Id"       -> account[m.id] # Nil
      [] c = "NewId"    -> account[m.id] = Nil
      [] c = "Peer"     -> account[m.target] # Nil
      [] c = "NewItem"  -> post[m.item] = Nil
      [] c = "Target"   -> post[m.target] # Nil
      [] c = "NewMark"  -> UniqueKey(m) \notin marker
      [] c = "Mark"     -> UniqueKey(m) \in marker
      [] c = "FakeName" -> account[m.id] # Nil

\* The answer when it does not.
Refusal(c, m) ==
    CASE c = "Id"       -> "IdNotExist"
      [] c = "NewId"    -> "IdDuplicate"
      [] c = "Peer"     -> "FuidNotExist"
      [] c = "NewItem"  -> IF m.kind = "post" THEN "PostIdDuplicate"
                                              ELSE "CommentIdDuplicate"
      [] c = "NewMark"  -> CASE m.kind = "like"   -> "LikePostDuplicate"
                             [] m.kind = "follow" -> "FollowDuplicate"
                             [] OTHER             -> "Signed"
      [] c = "Mark"     -> "OK"
      [] OTHER          -> "PostIdNotExist"

-----------------------------------------------------------------------------
unchangedByServer == <<account, post, marker, chainKey, ledger, worker>>

\* A client sends request b.
Arrive(r, b) ==
    /\ req[r] = Nil
    /\ req' = [req EXCEPT ![r] = b]
    /\ checks' = [checks EXCEPT ![r] = ChecksOf(b.kind)]
    /\ UNCHANGED <<reply, queue, ticket, clock, faults, unchangedByServer>>

\* The handler of r has its first remaining read to make.
Checking(r) ==
    /\ req[r] # Nil
    /\ reply[r] = Nil
    /\ checks[r] # <<>>

CheckPasses(r) ==
    /\ Checking(r)
    /\ Passes(Head(checks[r]), req[r])
    /\ checks' = [checks EXCEPT ![r] = Tail(@)]
    /\ req' = IF Head(checks[r]) = "FakeName"
              THEN [req EXCEPT ![r].name = account[req[r].id].name]
              ELSE req
    /\ UNCHANGED <<reply, queue, ticket, clock, faults, unchangedByServer>>

CheckRefuses(r) ==
    /\ Checking(r)
    /\ Head(checks[r]) # "Target"
    /\ ~Passes(Head(checks[r]), req[r])
    /\ reply' = [reply EXCEPT ![r] = Refusal(Head(checks[r]), req[r])]
    /\ UNCHANGED <<req, checks, queue, ticket, clock, faults, unchangedByServer>>

\* A like or comment on an unknown post is answered PostIdNotExist, but
\* goes to a fake collector all the same (sendFakeLikeMsg, sendFakeCommentMsg).
TurnsFake(r) ==
    /\ Checking(r)
    /\ Head(checks[r]) = "Target"
    /\ ~Passes("Target", req[r])
    /\ req' = [req EXCEPT ![r].kind = IF @ = "like" THEN "fakeLike"
                                                    ELSE "fakeComment"]
    /\ checks' = [checks EXCEPT ![r] = <<"FakeName">>]
    /\ UNCHANGED <<reply, queue, ticket, clock, faults, unchangedByServer>>

\* A redis error is answered ServerError; sendFakeLikeMsg only logs it.
CheckFails(r) ==
    /\ Checking(r)
    /\ Fault("redis")
    /\ reply' = [reply EXCEPT ![r] = IF Head(checks[r]) = "FakeName"
                                     THEN "PostIdNotExist"
                                     ELSE "ServerError"]
    /\ UNCHANGED <<req, checks, queue, ticket, clock, unchangedByServer>>

\* Mutant of Put: one message too many fits into the channel.
PutToFull(r) ==
    LET w == JobOf(req[r].id)
    IN  /\ req[r] # Nil
        /\ reply[r] = Nil
        /\ checks[r] = <<>>
        /\ Len(queue[w]) <= QueueSize
        /\ queue' = [queue EXCEPT ![w] = Append(@, r)]
        /\ clock' = clock + 1
        /\ ticket' = [ticket EXCEPT ![r] = clock + 1]
        /\ reply' = [reply EXCEPT ![r] = IF req[r].kind \in FakeKinds
                                         THEN "PostIdNotExist" ELSE "OK"]
        /\ UNCHANGED <<req, checks, faults, unchangedByServer>>

\* Mutant of Put: it blocks while the channel has one place left.
PutLeavingRoom(r) ==
    LET w == JobOf(req[r].id)
    IN  /\ req[r] # Nil
        /\ reply[r] = Nil
        /\ checks[r] = <<>>
        /\ Len(queue[w]) + 1 < QueueSize
        /\ queue' = [queue EXCEPT ![w] = Append(@, r)]
        /\ clock' = clock + 1
        /\ ticket' = [ticket EXCEPT ![r] = clock + 1]
        /\ reply' = [reply EXCEPT ![r] = IF req[r].kind \in FakeKinds
                                         THEN "PostIdNotExist" ELSE "OK"]
        /\ UNCHANGED <<req, checks, faults, unchangedByServer>>

\* sendMsg and Put: blocks while the channel is full; the answer follows.
Put(r) ==
    LET w == JobOf(req[r].id)
    IN  /\ req[r] # Nil
        /\ reply[r] = Nil
        /\ checks[r] = <<>>
        /\ Len(queue[w]) < QueueSize
        /\ queue' = [queue EXCEPT ![w] = Append(@, r)]
        /\ clock' = clock + 1
        /\ ticket' = [ticket EXCEPT ![r] = clock + 1]
        /\ reply' = [reply EXCEPT ![r] = IF req[r].kind \in FakeKinds
                                         THEN "PostIdNotExist" ELSE "OK"]
        /\ UNCHANGED <<req, checks, faults, unchangedByServer>>

Handle(r) == CheckPasses(r) \/ CheckRefuses(r) \/ TurnsFake(r)
             \/ CheckFails(r) \/ Put(r)

=============================================================================
