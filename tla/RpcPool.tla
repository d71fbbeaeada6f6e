------------------------------ MODULE RpcPool -------------------------------
(***************************************************************************)
(* Package rpc: the pool of clients of the chain's nodes.  GetClient keeps *)
(* a client that is marked alive in front, by swapping entries under the   *)
(* mutex; whoever has a call that fails marks the client dead; checkAlive  *)
(* goes over the pool, without the mutex, and probes the dead ones.        *)
(***************************************************************************)
EXTENDS Naturals, FiniteSets

CONSTANTS
    Nodes,        \* the nodes; a client is named by its node
    Order,        \* the pool at start-up, from index 0 (config.go: RpcAddr)
    Callers,      \* goroutines that call the chain
    Pinned,       \* those that keep the client of their start (RewardJob)
    MaxOutages,   \* bound on the number of times that a node stops answering
    MaxTimeouts,  \* bound on the number of calls that fail on a node that answers
    Nil           \* no caller, no node

Size    == Cardinality(Nodes)
Indexes == 0 .. Size - 1

ASSUME PoolAssumption ==
    /\ IsFiniteSet(Nodes) /\ Nodes # {}
    /\ Order \in [Indexes -> Nodes]
    /\ \A n \in Nodes : \E i \in Indexes : Order[i] = n
    /\ Pinned \subseteq Callers
    /\ MaxOutages \in Nat
    /\ MaxTimeouts \in Nat
    /\ Nil \notin Nodes \cup Callers

VARIABLES
    pool,      \* RpcPool.pool
    alive,     \* Client.alive
    up,        \* does the node answer?
    holder,    \* who holds the mutex
    caller,    \* where each caller is
    checker,   \* where checkAlive is
    outages,   \* number of outages so far
    timeouts   \* number of timeouts so far

nodeVars == <<up, outages>>
vars == <<pool, alive, holder, caller, checker, timeouts, nodeVars>>

CallerStates ==
    [pc: {"idle", "look", "move", "place", "call", "report"},
     i: Indexes,                  \* loop variable of GetClient
     client: Nodes \cup {Nil},    \* the client in hand
     hope: BOOLEAN]               \* history: was one alive when it took the mutex?

CheckerStates ==
    [pc: {"read", "look", "probe", "set"}, i: Indexes,
     client: Nodes \cup {Nil}, answers: BOOLEAN]

TypeOK ==
    /\ pool \in [Indexes -> Nodes]
    /\ alive \in [Nodes -> BOOLEAN]
    /\ up \in [Nodes -> BOOLEAN]
    /\ holder \in Callers \cup {Nil}
    /\ caller \in [Callers -> CallerStates]
    /\ checker \in CheckerStates
    /\ outages \in 0 .. MaxOutages
    /\ timeouts \in 0 .. MaxTimeouts

Idle == [pc |-> "idle", i |-> 0, client |-> Nil, hope |-> FALSE]
Kept == [Idle EXCEPT !.pc = "call", !.client = Order[0]]

\* A caller that has done its call.
Rest(c) == IF c \in Pinned THEN Kept ELSE Idle

\* NewRpcPool; the reward job has already asked for its client.
Init ==
    /\ pool = Order
    /\ alive = [n \in Nodes |-> TRUE]
    /\ up = [n \in Nodes |-> TRUE]
    /\ holder = Nil
    /\ caller = [c \in Callers |-> Rest(c)]
    /\ checker = [pc |-> "read", i |-> 0, client |-> Nil, answers |-> FALSE]
    /\ outages = 0
    /\ timeouts = 0

-----------------------------------------------------------------------------
(* GetClient, between Lock and Unlock.                                      *)

Become(c, state) == caller' = [caller EXCEPT ![c] = state]

\* The scan visits 0, then the last index down to 1.
Before(i) == IF i = 0 THEN Size - 1 ELSE i - 1

\* Mutant of Lock: the mutex is not waited for.
LockAnyway(c) ==
    /\ caller[c].pc = "idle"
    /\ holder' = c
    /\ Become(c, [Idle EXCEPT !.pc = "look", !.hope = \E n \in Nodes : alive[n]])
    /\ UNCHANGED <<pool, alive, checker, timeouts, nodeVars>>

Lock(c) ==
    /\ caller[c].pc = "idle"
    /\ holder = Nil
    /\ holder' = c
    /\ Become(c, [Idle EXCEPT !.pc = "look", !.hope = \E n \in Nodes : alive[n]])
    /\ UNCHANGED <<pool, alive, checker, timeouts, nodeVars>>

Return(c, n) ==
    /\ holder' = Nil
    /\ Become(c, [caller[c] EXCEPT !.pc = "call", !.client = n])

\* One isAlive of the scan; when none is alive the first is returned.
Look(c) ==
    LET i == caller[c].i
    IN  /\ caller[c].pc = "look"
        /\ \/ /\ alive[pool[i]]
              /\ i = 0
              /\ Return(c, pool[0])
           \/ /\ alive[pool[i]]
              /\ i # 0
              /\ Become(c, [caller[c] EXCEPT !.pc = "move"])
              /\ UNCHANGED holder
           \/ /\ ~alive[pool[i]]
              /\ Before(i) # 0
              /\ Become(c, [caller[c] EXCEPT !.i = Before(i)])
              /\ UNCHANGED holder
           \/ /\ ~alive[pool[i]]
              /\ Before(i) = 0
              /\ Return(c, pool[0])
        /\ UNCHANGED <<pool, alive, checker, timeouts, nodeVars>>

\* The swap is two writes, and checkAlive may read between them.
Move(c) ==
    /\ caller[c].pc = "move"
    /\ pool' = [pool EXCEPT ![0] = pool[caller[c].i]]
    /\ Become(c, [caller[c] EXCEPT !.pc = "place", !.client = pool[0]])
    /\ UNCHANGED <<alive, holder, checker, timeouts, nodeVars>>

Place(c) ==
    /\ caller[c].pc = "place"
    /\ pool' = [pool EXCEPT ![caller[c].i] = caller[c].client]
    /\ Return(c, pool[0])
    /\ UNCHANGED <<alive, checker, timeouts, nodeVars>>

-----------------------------------------------------------------------------
(* A call of a node, by a caller or by checkAlive.                          *)

Answers(n) == up[n] /\ UNCHANGED timeouts

FailsToAnswer(n) ==
    \/ ~up[n] /\ UNCHANGED timeouts
    \/ up[n] /\ timeouts < MaxTimeouts /\ timeouts' = timeouts + 1

Call(c) ==
    /\ caller[c].pc = "call"
    /\ \/ Answers(caller[c].client) /\ Become(c, Rest(c))
       \/ FailsToAnswer(caller[c].client)
          /\ Become(c, [caller[c] EXCEPT !.pc = "report"])
    /\ UNCHANGED <<pool, alive, holder, checker, nodeVars>>

\* Mutant of Report: it calls setAlive, without the mutex.
ReportUnlocked(c) ==
    /\ caller[c].pc = "report"
    /\ alive' = [alive EXCEPT ![caller[c].client] = FALSE]
    /\ Become(c, Rest(c))
    /\ UNCHANGED <<pool, holder, checker, timeouts, nodeVars>>

\* SetAlive(false), whatever has happened since the call was made.
Report(c) ==
    /\ caller[c].pc = "report"
    /\ holder = Nil
    /\ alive' = [alive EXCEPT ![caller[c].client] = FALSE]
    /\ Become(c, Rest(c))
    /\ UNCHANGED <<pool, holder, checker, timeouts, nodeVars>>

-----------------------------------------------------------------------------
(* checkAlive.                                                              *)

\* Mutant of NextEntry: the loop does not end with the last entry.
NextEntryOn ==
    checker' = [checker EXCEPT !.pc = "read", !.i = @ + 1]

\* The next entry of this round, or the first of the next round.
NextEntry ==
    checker' = [checker EXCEPT !.pc = "read", !.i = IF @ = Size - 1 THEN 0 ELSE @ + 1]

CheckRead ==
    /\ checker.pc = "read"
    /\ checker' = [checker EXCEPT !.pc = "look", !.client = pool[checker.i]]
    /\ UNCHANGED <<pool, alive, holder, caller, timeouts, nodeVars>>

\* Mutant of CheckLook: clients that are marked alive are probed as well.
CheckLookAtAll ==
    /\ checker.pc = "look"
    /\ holder = Nil
    /\ checker' = [checker EXCEPT !.pc = "probe"]
    /\ UNCHANGED <<pool, alive, holder, caller, timeouts, nodeVars>>

\* Mutant of CheckLook: the round ends with the first client that is alive.
CheckLookBreaks ==
    /\ checker.pc = "look"
    /\ holder = Nil
    /\ checker' = IF alive[checker.client]
                  THEN [checker EXCEPT !.pc = "read", !.i = 0]
                  ELSE [checker EXCEPT !.pc = "probe"]
    /\ UNCHANGED <<pool, alive, holder, caller, timeouts, nodeVars>>

\* IsAlive, which takes the mutex: only a dead client is probed.
CheckLook ==
    /\ checker.pc = "look"
    /\ holder = Nil
    /\ IF alive[checker.client]
       THEN NextEntry
       ELSE checker' = [checker EXCEPT !.pc = "probe"]
    /\ UNCHANGED <<pool, alive, holder, caller, timeouts, nodeVars>>

CheckProbe ==
    /\ checker.pc = "probe"
    /\ \/ Answers(checker.client)
          /\ checker' = [checker EXCEPT !.pc = "set", !.answers = TRUE]
       \/ FailsToAnswer(checker.client)
          /\ checker' = [checker EXCEPT !.pc = "set", !.answers = FALSE]
    /\ UNCHANGED <<pool, alive, holder, caller, nodeVars>>

\* setAlive without the mutex; the write of a bool is one step.
CheckSet ==
    /\ checker.pc = "set"
    /\ alive' = [alive EXCEPT ![checker.client] = checker.answers]
    /\ NextEntry
    /\ UNCHANGED <<pool, holder, caller, timeouts, nodeVars>>

-----------------------------------------------------------------------------
(* The nodes.                                                               *)

Outage(n) ==
    /\ up[n]
    /\ outages < MaxOutages
    /\ up' = [up EXCEPT ![n] = FALSE]
    /\ outages' = outages + 1
    /\ UNCHANGED <<pool, alive, holder, caller, checker, timeouts>>

Recovery(n) ==
    /\ ~up[n]
    /\ up' = [up EXCEPT ![n] = TRUE]
    /\ UNCHANGED <<pool, alive, holder, caller, checker, outages, timeouts>>

Locked(c) == Look(c) \/ Move(c) \/ Place(c)
Check     == CheckRead \/ CheckLook \/ CheckProbe \/ CheckSet

Next ==
    \/ \E c \in Callers : Lock(c) \/ Locked(c) \/ Call(c) \/ Report(c)
    \/ Check
    \/ \E n \in Nodes : Outage(n) \/ Recovery(n)

Spec == Init /\ [][Next]_vars

\* A goroutine that holds the mutex goes on and releases it, and calls
\* return.  sync.Mutex hands itself over to a goroutine that has waited for
\* a millisecond, so that checkAlive gets it however often others do.
Fairness ==
    /\ \A c \in Callers : WF_vars(Locked(c))
    /\ WF_vars(Check)
    /\ SF_vars(CheckLook)

FairSpec == Spec /\ Fairness

-----------------------------------------------------------------------------
\* Swapping never loses a client: with the mutex free, every one is in the
\* pool, so that it can be probed and used again.
PoolComplete ==
    holder = Nil => \A n \in Nodes : \E i \in Indexes : pool[i] = n

\* GetClient gives out a client that is marked dead only if none was marked
\* alive when it took the mutex, although checkAlive writes the marks without
\* it: it only does so to those it has found dead.
BestClient ==
    [][\A c \in Callers :
         holder = c /\ holder' = Nil /\ caller[c].hope => alive[caller'[c].client]]_vars

\* A node that answers for good is used again, however the round of checkAlive
\* and the swaps of GetClient overlap and however late a failure is reported.
NodesComeBack ==
    \A n \in Nodes : (<>[]up[n]) => (<>[]alive[n])

=============================================================================
