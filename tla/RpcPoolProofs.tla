--------------------------- MODULE RpcPoolProofs ----------------------------
(***************************************************************************)
(* Proofs about RpcPool for any number of nodes, callers and failures.     *)
(***************************************************************************)
EXTENDS RpcClientPool, FiniteSetTheorems, TLAPS

\* The caller that is between Lock and Unlock is the one that has the mutex.
Holding == {"look", "move", "place"}
Mutex   == \A c \in Callers : caller[c].pc \in Holding <=> holder = c

\* Between the two writes of a swap, the client that is missing from the
\* pool is in the hands of the caller, and the entry it goes to is free.
Complete == \A n \in Nodes : \E j \in Indexes : pool[j] = n

Misplaced(c) ==
    /\ caller[c].client \in Nodes
    /\ \A n \in Nodes : \/ n = caller[c].client
                        \/ \E j \in Indexes \ {caller[c].i} : pool[j] = n

Swapping ==
    /\ \A c \in Callers : caller[c].pc \in {"move", "place"} => caller[c].i # 0
    /\ \A c \in Callers : caller[c].pc = "place" => Misplaced(c)
    /\ (\A c \in Callers : caller[c].pc # "place") => Complete

PoolInv == TypeOK /\ Mutex /\ Swapping

\* A scan that began with a client alive has one before it, or in hand.
Unscanned(i) == IF i = 0 THEN Indexes ELSE 1 .. i

Hopeful(c) ==
    /\ caller[c].pc = "look"  => \E j \in Unscanned(caller[c].i) : alive[pool[j]]
    /\ caller[c].pc = "move"  => alive[pool[caller[c].i]]
    /\ caller[c].pc = "place" => alive[pool[0]]

\* checkAlive writes the mark of a client that is marked dead.
Checked == /\ checker.pc # "read" => checker.client \in Nodes
           /\ checker.pc \in {"probe", "set"} => ~alive[checker.client]

ScanInv == /\ PoolInv
           /\ \A c \in Callers : caller[c].hope => Hopeful(c)
           /\ Checked

-----------------------------------------------------------------------------
\* There is at least one index.
LEMMA SizeType == Size \in Nat \ {0} /\ 0 \in Indexes
<1>1. IsFiniteSet(Nodes) /\ Nodes # {}
  BY PoolAssumption DEF PoolAssumption
<1>2. Size \in Nat /\ Size # 0
  BY <1>1, FS_CardinalityType, FS_EmptySet DEF Size
<1> QED
  BY <1>2 DEF Indexes

\* A caller at rest is well-formed and outside the mutex.
LEMMA RestType ==
    ASSUME NEW c \in Callers
    PROVE  /\ Rest(c) \in CallerStates
           /\ Idle \in CallerStates
           /\ Rest(c).pc \in {"idle", "call"}
           /\ ~Rest(c).hope
  BY SizeType, PoolAssumption DEF PoolAssumption, Rest, Idle, Kept, CallerStates

\* The initial state.
LEMMA ScanInit == Init => ScanInv
<1> SUFFICES ASSUME Init PROVE ScanInv
  OBVIOUS
<1> USE DEF Init
<1>1. TypeOK
  <2>1. \A c \in Callers : Rest(c) \in CallerStates
    BY RestType
  <2>2. checker \in CheckerStates
    BY SizeType DEF CheckerStates
  <2> QED
    BY <2>1, <2>2, PoolAssumption DEF PoolAssumption, TypeOK
<1>2. \A c \in Callers : caller[c].pc \in {"idle", "call"} /\ ~caller[c].hope
  BY RestType
<1>3. Mutex
  BY <1>2, PoolAssumption DEF PoolAssumption, Mutex, Holding
<1>4. Swapping
  <2>1. Complete
    BY PoolAssumption DEF PoolAssumption, Complete
  <2> QED
    BY <1>2, <2>1 DEF Swapping
<1> QED
  BY <1>1, <1>2, <1>3, <1>4 DEF ScanInv, PoolInv, Checked

-----------------------------------------------------------------------------
(* One lemma per action: each step keeps ScanInv.                           *)

\* Taking the mutex: nobody is in a swap, so that the pool is complete.
LEMMA LockKeeps ==
    ASSUME ScanInv, NEW c \in Callers, Lock(c)
    PROVE  ScanInv'
<1> USE DEF Lock, Become
<1> DEFINE state == [Idle EXCEPT !.pc = "look", !.hope = \E n \in Nodes : alive[n]]
<1>1. /\ state \in CallerStates
      /\ state.pc = "look" /\ state.i = 0
      /\ state.hope = \E n \in Nodes : alive[n]
  BY RestType DEF Idle, CallerStates
<1>2. caller' = [caller EXCEPT ![c] = state] /\ caller \in [Callers -> CallerStates]
  BY DEF ScanInv, PoolInv, TypeOK
<1> HIDE DEF state
<1>3. \A d \in Callers : caller[d].pc \notin Holding
  BY PoolAssumption DEF ScanInv, PoolInv, Mutex, PoolAssumption
<1>4. Complete
  BY <1>3 DEF ScanInv, PoolInv, Swapping, Holding
<1>5. TypeOK'
  BY <1>1, <1>2 DEF ScanInv, PoolInv, TypeOK, vars, nodeVars
<1>6. Mutex'
  BY <1>1, <1>2, <1>3 DEF Mutex, Holding
<1>7. Swapping'
  BY <1>1, <1>2, <1>3, <1>4 DEF Swapping, Complete, Holding
<1>8. \A d \in Callers : caller'[d].hope => Hopeful(d)'
  <2> SUFFICES ASSUME NEW d \in Callers, caller'[d].hope PROVE Hopeful(d)'
    OBVIOUS
  <2>1. CASE d = c
    <3>1. caller'[c] = state
      BY <1>2
    <3>2. PICK n \in Nodes : alive[n]
      BY <1>1, <2>1, <3>1
    <3>3. PICK j \in Indexes : pool[j] = n
      BY <1>4 DEF Complete
    <3>4. caller'[c].pc = "look" /\ caller'[c].i = 0 /\ j \in Unscanned(0)
      BY <1>1, <3>1 DEF Unscanned
    <3>5. alive'[pool'[j]]
      BY <3>2, <3>3
    <3> QED
      BY <2>1, <3>4, <3>5 DEF Hopeful
  <2>2. CASE d # c
    BY <1>2, <1>3, <2>2 DEF Hopeful, Holding
  <2> QED
    BY <2>1, <2>2
<1> QED
  BY <1>5, <1>6, <1>7, <1>8 DEF ScanInv, PoolInv, Checked

\* A caller that gives the mutex back with the pool complete.
LEMMA ReturnKeeps ==
    ASSUME ScanInv, NEW c \in Callers, caller[c].pc \in Holding,
           NEW n \in Nodes, Return(c, n),
           pool' \in [Indexes -> Nodes], Complete',
           UNCHANGED <<alive, checker, timeouts, nodeVars>>
    PROVE  ScanInv'
<1> DEFINE state == [caller[c] EXCEPT !.pc = "call", !.client = n]
<1>1. caller' = [caller EXCEPT ![c] = state] /\ holder' = Nil
  BY DEF Return, Become
<1>2. state \in CallerStates /\ state.pc = "call"
  BY DEF ScanInv, PoolInv, TypeOK, CallerStates
<1>3. caller \in [Callers -> CallerStates]
  BY DEF ScanInv, PoolInv, TypeOK
<1> HIDE DEF state
<1>4. \A d \in Callers \ {c} : caller[d].pc \notin Holding
  BY DEF ScanInv, PoolInv, Mutex
<1>5. \A d \in Callers : caller'[d].pc \notin Holding
  BY <1>1, <1>2, <1>3, <1>4 DEF Holding
<1>6. TypeOK'
  BY <1>1, <1>2, <1>3 DEF ScanInv, PoolInv, TypeOK, nodeVars
<1>7. Mutex'
  BY <1>1, <1>5, PoolAssumption DEF Mutex, PoolAssumption
<1>8. Swapping' /\ \A d \in Callers : Hopeful(d)'
  BY <1>5 DEF Swapping, Holding, Hopeful
<1> QED
  BY <1>6, <1>7, <1>8 DEF ScanInv, PoolInv, Checked

\* One step of the scan: what is dead is no longer among the unscanned.
LEMMA LookKeeps ==
    ASSUME ScanInv, NEW c \in Callers, Look(c)
    PROVE  ScanInv'
<1> DEFINE i == caller[c].i
<1> USE DEF Look
<1>1. /\ caller \in [Callers -> CallerStates] /\ i \in Indexes
      /\ pool \in [Indexes -> Nodes] /\ alive \in [Nodes -> BOOLEAN]
      /\ Size \in Nat \ {0}
  BY SizeType DEF ScanInv, PoolInv, TypeOK, CallerStates
<1>2. /\ caller[c].pc = "look" /\ holder = c
      /\ \A d \in Callers \ {c} : caller[d].pc \notin Holding
  BY DEF ScanInv, PoolInv, Mutex, Holding
<1>3. Complete
  BY <1>2 DEF ScanInv, PoolInv, Swapping, Holding
<1>4. CASE \/ alive[pool[i]] /\ i = 0
           \/ ~alive[pool[i]] /\ Before(i) = 0
  <2>1. Return(c, pool[0]) /\ pool[0] \in Nodes
    BY <1>1, <1>4, SizeType DEF Before, Return, Become
  <2> QED
    BY <1>1, <1>2, <1>3, <2>1, ReturnKeeps DEF Holding, Complete
<1>5. ASSUME NEW state \in CallerStates,
             caller' = [caller EXCEPT ![c] = state],
             UNCHANGED <<pool, alive, holder, checker, timeouts, nodeVars>>,
             state.pc \in {"look", "move"},
             state.pc = "move" => state.i # 0,
             state.hope => /\ state.pc = "look" =>
                                \E j \in Unscanned(state.i) : alive[pool[j]]
                           /\ state.pc = "move" => alive[pool[state.i]]
      PROVE  ScanInv'
  <2>1. TypeOK'
    BY <1>1, <1>5 DEF ScanInv, PoolInv, TypeOK, nodeVars
  <2>2. Mutex'
    BY <1>1, <1>2, <1>5 DEF Mutex, Holding
  <2>3. Swapping'
    BY <1>1, <1>2, <1>3, <1>5 DEF Swapping, Complete, Holding
  <2>4. \A d \in Callers : caller'[d].hope => Hopeful(d)'
    BY <1>1, <1>2, <1>5 DEF Hopeful, Holding
  <2> QED
    BY <1>5, <2>1, <2>2, <2>3, <2>4 DEF ScanInv, PoolInv, Checked
<1>6. CASE alive[pool[i]] /\ i # 0
  <2> DEFINE state == [caller[c] EXCEPT !.pc = "move"]
  <2>1. caller' = [caller EXCEPT ![c] = state] /\ holder' = holder
    BY <1>1, <1>6 DEF Become
  <2>2. state \in CallerStates /\ state.pc = "move" /\ state.i = i
    BY <1>1 DEF CallerStates
  <2> HIDE DEF state
  <2> QED
    BY <1>5, <1>6, <2>1, <2>2
<1>7. CASE ~alive[pool[i]] /\ Before(i) # 0
  <2> DEFINE state == [caller[c] EXCEPT !.i = Before(i)]
  <2>1. caller' = [caller EXCEPT ![c] = state] /\ holder' = holder
    BY <1>1, <1>7 DEF Become
  <2>2. Before(i) \in Indexes
    BY <1>1 DEF Before, Indexes
  <2>3. /\ state \in CallerStates /\ state.pc = "look"
        /\ state.i = Before(i) /\ state.hope = caller[c].hope
    BY <1>1, <1>2, <2>2 DEF CallerStates
  <2>4. ASSUME caller[c].hope PROVE \E j \in Unscanned(Before(i)) : alive[pool[j]]
    <3>1. PICK j \in Unscanned(i) : alive[pool[j]]
      BY <1>2, <2>4 DEF ScanInv, Hopeful
    <3>2. j # i
      BY <1>7, <3>1
    <3> QED
      BY <1>1, <1>7, <3>1, <3>2 DEF Unscanned, Before, Indexes
  <2> HIDE DEF state
  <2> QED
    BY <1>5, <2>1, <2>3, <2>4
<1> QED
  BY <1>4, <1>6, <1>7

\* The first write of a swap takes the front client out of the pool.
LEMMA MoveKeeps ==
    ASSUME ScanInv, NEW c \in Callers, Move(c)
    PROVE  ScanInv'
<1> DEFINE i == caller[c].i
           state == [caller[c] EXCEPT !.pc = "place", !.client = pool[0]]
<1> USE DEF Move
<1>1. /\ caller \in [Callers -> CallerStates] /\ i \in Indexes \ {0}
      /\ pool \in [Indexes -> Nodes] /\ alive \in [Nodes -> BOOLEAN]
      /\ 0 \in Indexes
  BY SizeType DEF ScanInv, PoolInv, TypeOK, CallerStates, Swapping
<1>2. /\ caller[c].pc = "move" /\ holder = c
      /\ \A d \in Callers \ {c} : caller[d].pc \notin Holding
  BY DEF ScanInv, PoolInv, Mutex, Holding
<1>3. Complete
  BY <1>2 DEF ScanInv, PoolInv, Swapping, Holding
<1>4. /\ caller' = [caller EXCEPT ![c] = state]
      /\ pool' = [pool EXCEPT ![0] = pool[i]]
  BY DEF Become
<1>5. /\ state \in CallerStates /\ state.pc = "place" /\ state.client = pool[0]
      /\ state.i = i /\ state.hope = caller[c].hope
  BY <1>1 DEF CallerStates
<1> HIDE DEF state
<1>6. TypeOK'
  BY <1>1, <1>4, <1>5 DEF ScanInv, PoolInv, TypeOK, nodeVars
<1>7. Mutex'
  BY <1>1, <1>2, <1>4, <1>5 DEF Mutex, Holding
<1>8. Misplaced(c)'
  <2>1. caller'[c].client = pool[0] /\ caller'[c].i = i
    BY <1>1, <1>4, <1>5
  <2>2. ASSUME NEW n \in Nodes, n # pool[0]
        PROVE  \E j \in Indexes \ {i} : pool'[j] = n
    <3>1. PICK j \in Indexes : pool[j] = n
      BY <1>3 DEF Complete
    <3> QED
      BY <1>1, <1>4, <2>2, <3>1
  <2> QED
    BY <1>1, <2>1, <2>2 DEF Misplaced
<1>9. Swapping'
  BY <1>1, <1>2, <1>4, <1>5, <1>8 DEF Swapping, Holding
<1>10. \A d \in Callers : caller'[d].hope => Hopeful(d)'
  <2> SUFFICES ASSUME NEW d \in Callers, caller'[d].hope PROVE Hopeful(d)'
    OBVIOUS
  <2>1. CASE d = c
    BY <1>1, <1>2, <1>4, <1>5, <2>1 DEF ScanInv, Hopeful
  <2>2. CASE d # c
    BY <1>1, <1>2, <1>4, <2>2 DEF Hopeful, Holding
  <2> QED
    BY <2>1, <2>2
<1> QED
  BY <1>6, <1>7, <1>9, <1>10 DEF ScanInv, PoolInv, Checked

\* The second write puts it back.
LEMMA PlaceKeeps ==
    ASSUME ScanInv, NEW c \in Callers, Place(c)
    PROVE  ScanInv'
<1> DEFINE i == caller[c].i
<1> USE DEF Place
<1>1. /\ i \in Indexes \ {0} /\ pool \in [Indexes -> Nodes] /\ 0 \in Indexes
      /\ Misplaced(c)
  BY SizeType DEF ScanInv, PoolInv, TypeOK, CallerStates, Swapping
<1>2. pool' = [pool EXCEPT ![i] = caller[c].client] /\ pool' \in [Indexes -> Nodes]
  BY <1>1 DEF Misplaced
<1>3. Complete'
  BY <1>1, <1>2 DEF Complete, Misplaced
<1>4. pool[0] \in Nodes
  BY <1>1
<1> QED
  BY <1>2, <1>3, <1>4, ReturnKeeps DEF Holding, Return, Become

\* Steps outside the mutex leave the pool and every scan alone, and do not
\* mark a client dead while one is under way.
LEMMA OutsideKeeps ==
    ASSUME ScanInv, TypeOK', Checked',
           UNCHANGED <<pool, holder>>,
           \A d \in Callers : caller'[d] = caller[d]
                              \/ /\ caller[d].pc \notin Holding
                                 /\ caller'[d].pc \notin Holding,
           \/ holder = Nil
           \/ \A n \in Nodes : alive[n] => alive'[n]
    PROVE  ScanInv'
<1>1. Mutex'
  BY DEF ScanInv, PoolInv, Mutex
<1>2. Swapping'
  BY DEF ScanInv, PoolInv, Swapping, Misplaced, Complete, Holding
<1>3. ASSUME NEW d \in Callers, caller'[d].hope PROVE Hopeful(d)'
  <2>1. CASE caller[d].pc \notin Holding /\ caller'[d].pc \notin Holding
    BY <2>1 DEF Hopeful, Holding
  <2>2. CASE caller'[d] = caller[d] /\ caller[d].pc \in Holding
    <3>1. holder = d /\ holder # Nil
      BY <2>2, PoolAssumption DEF ScanInv, PoolInv, Mutex, PoolAssumption
    <3>2. /\ pool \in [Indexes -> Nodes] /\ 0 \in Indexes
          /\ caller[d].i \in Indexes /\ Unscanned(caller[d].i) \subseteq Indexes
      BY SizeType DEF ScanInv, PoolInv, TypeOK, CallerStates, Unscanned, Indexes
    <3>3. Hopeful(d)
      BY <1>3, <2>2 DEF ScanInv
    <3> QED
      BY <2>2, <3>1, <3>2, <3>3 DEF Hopeful
  <2> QED
    BY <2>1, <2>2
<1> QED
  BY <1>1, <1>2, <1>3 DEF ScanInv, PoolInv

\* Calls, reports and the rounds of checkAlive, and the nodes themselves.
LEMMA CallKeeps ==
    ASSUME ScanInv, NEW c \in Callers, Call(c) \/ Report(c)
    PROVE  ScanInv'
<1>1. /\ caller[c].pc \in {"call", "report"}
      /\ \E state \in CallerStates : /\ state.pc \in {"idle", "call", "report"}
                                     /\ caller' = [caller EXCEPT ![c] = state]
  <2>1. /\ Rest(c) \in CallerStates /\ Rest(c).pc \in {"idle", "call"}
        /\ caller[c] \in CallerStates
    BY RestType DEF ScanInv, PoolInv, TypeOK
  <2>2. /\ [caller[c] EXCEPT !.pc = "report"] \in CallerStates
        /\ [caller[c] EXCEPT !.pc = "report"].pc = "report"
    BY <2>1 DEF CallerStates
  <2> HIDE DEF Rest, CallerStates
  <2> QED
    BY <2>1, <2>2 DEF Call, Report, Become
<1>2. TypeOK'
  <2>1. caller' \in [Callers -> CallerStates] /\ alive' \in [Nodes -> BOOLEAN]
    <3>1. caller \in [Callers -> CallerStates] /\ alive \in [Nodes -> BOOLEAN]
      BY DEF ScanInv, PoolInv, TypeOK
    <3>2. PICK state \in CallerStates : caller' = [caller EXCEPT ![c] = state]
      BY <1>1
    <3>3. caller' \in [Callers -> CallerStates]
      BY <3>1, <3>2
    <3>4. alive' \in [Nodes -> BOOLEAN]
      BY <3>1 DEF Call, Report
    <3> QED
      BY <3>3, <3>4
  <2>2. timeouts' \in 0 .. MaxTimeouts
    BY PoolAssumption DEF PoolAssumption, ScanInv, PoolInv, TypeOK, Call, Report,
                          Answers, FailsToAnswer
  <2> QED
    BY <2>1, <2>2 DEF ScanInv, PoolInv, TypeOK, Call, Report, nodeVars
<1>3. Checked'
  <2>1. alive \in [Nodes -> BOOLEAN] /\ Checked /\ checker' = checker
    BY DEF ScanInv, PoolInv, TypeOK, Call, Report
  <2>2. \A n \in Nodes : ~alive[n] => ~alive'[n]
    BY <2>1 DEF Call, Report
  <2> QED
    BY <2>1, <2>2 DEF Checked
<1>4. \A d \in Callers : caller'[d] = caller[d]
                         \/ /\ caller[d].pc \notin Holding
                            /\ caller'[d].pc \notin Holding
  BY <1>1 DEF Holding, ScanInv, PoolInv, TypeOK
<1>5. /\ UNCHANGED <<pool, holder>>
      /\ holder = Nil \/ \A n \in Nodes : alive[n] => alive'[n]
  BY DEF Call, Report
<1> QED
  BY <1>2, <1>3, <1>4, <1>5, OutsideKeeps

\* checkAlive never marks a client dead that is marked alive.
LEMMA CheckKeeps ==
    ASSUME ScanInv, Check
    PROVE  ScanInv'
<1> USE DEF Check, CheckRead, CheckLook, CheckProbe, CheckSet
<1>1. /\ pool \in [Indexes -> Nodes] /\ alive \in [Nodes -> BOOLEAN]
      /\ checker \in CheckerStates /\ Size \in Nat \ {0}
      /\ timeouts \in 0 .. MaxTimeouts /\ MaxTimeouts \in Nat
  BY SizeType, PoolAssumption DEF PoolAssumption, ScanInv, PoolInv, TypeOK
<1>2. checker' \in CheckerStates
  <2>1. (IF checker.i = Size - 1 THEN 0 ELSE checker.i + 1) \in Indexes
    BY <1>1 DEF CheckerStates, Indexes
  <2>2. CASE CheckRead
    BY <1>1, <2>2 DEF CheckerStates
  <2>3. CASE CheckLook
    BY <1>1, <2>1, <2>3 DEF CheckerStates, NextEntry
  <2>4. CASE CheckProbe
    BY <1>1, <2>4 DEF CheckerStates
  <2>5. CASE CheckSet
    BY <1>1, <2>1, <2>5 DEF CheckerStates, NextEntry
  <2> QED
    BY <2>2, <2>3, <2>4, <2>5
<1>3. TypeOK'
  <2>1. alive' \in [Nodes -> BOOLEAN]
    BY <1>1 DEF CheckerStates
  <2>2. timeouts' \in 0 .. MaxTimeouts
    BY <1>1 DEF Answers, FailsToAnswer
  <2> QED
    BY <1>2, <2>1, <2>2 DEF ScanInv, PoolInv, TypeOK, nodeVars
<1>4. Checked'
  <2>1. CASE CheckRead
    BY <1>1, <2>1 DEF Checked, CheckerStates
  <2>2. CASE CheckLook
    <3>1. checker.client \in Nodes /\ checker.pc = "look" /\ alive' = alive
      BY <2>2 DEF ScanInv, Checked
    <3>2. CASE alive[checker.client]
      <4>1. checker'.pc = "read"
        BY <1>1, <2>2, <3>2 DEF CheckerStates, NextEntry
      <4> QED
        BY <4>1 DEF Checked
    <3>3. CASE ~alive[checker.client]
      <4>1. checker'.client = checker.client
        BY <1>1, <2>2, <3>3 DEF CheckerStates
      <4> QED
        BY <3>1, <3>3, <4>1 DEF Checked
    <3> QED
      BY <3>2, <3>3
  <2>3. CASE CheckProbe
    BY <1>1, <2>3 DEF ScanInv, Checked, CheckerStates
  <2>4. CASE CheckSet
    BY <1>1, <2>4 DEF Checked, CheckerStates, NextEntry
  <2> QED
    BY <2>1, <2>2, <2>3, <2>4
<1>5. UNCHANGED <<pool, holder, caller>>
  OBVIOUS
<1>6. \A n \in Nodes : alive[n] => alive'[n]
  BY <1>1 DEF ScanInv, Checked
<1> QED
  BY <1>3, <1>4, <1>5, <1>6, OutsideKeeps

\* Outages and recoveries touch nothing that the pool keeps.
LEMMA NodesKeep ==
    ASSUME ScanInv, NEW n \in Nodes, Outage(n) \/ Recovery(n)
    PROVE  ScanInv'
<1>1. TypeOK'
  <2>1. up \in [Nodes -> BOOLEAN] /\ outages \in 0 .. MaxOutages /\ MaxOutages \in Nat
    BY PoolAssumption DEF PoolAssumption, ScanInv, PoolInv, TypeOK
  <2>2. up' \in [Nodes -> BOOLEAN]
    BY <2>1 DEF Outage, Recovery
  <2>3. outages' \in 0 .. MaxOutages
    BY <2>1 DEF Outage, Recovery
  <2> QED
    BY <2>2, <2>3 DEF ScanInv, PoolInv, TypeOK, Outage, Recovery
<1>2. /\ UNCHANGED <<pool, holder, caller, alive, checker>>
      /\ Checked'
  BY DEF Outage, Recovery, ScanInv, Checked
<1> QED
  BY <1>1, <1>2, OutsideKeeps

\* Every step keeps ScanInv.
LEMMA ScanStep == ScanInv /\ [Next]_vars => ScanInv'
<1> SUFFICES ASSUME ScanInv, [Next]_vars PROVE ScanInv'
  OBVIOUS
<1>1. ASSUME NEW c \in Callers, Lock(c) \/ Locked(c) \/ Call(c) \/ Report(c)
      PROVE  ScanInv'
  BY <1>1, LockKeeps, LookKeeps, MoveKeeps, PlaceKeeps, CallKeeps DEF Locked
<1>2. CASE Check
  BY <1>2, CheckKeeps
<1>3. ASSUME NEW n \in Nodes, Outage(n) \/ Recovery(n) PROVE ScanInv'
  BY <1>3, NodesKeep
<1>4. CASE UNCHANGED vars
  BY <1>4 DEF vars, nodeVars, ScanInv, PoolInv, TypeOK, Mutex, Swapping, Misplaced,
              Complete, Hopeful, Checked
<1> QED
  BY <1>1, <1>2, <1>3, <1>4 DEF Next

-----------------------------------------------------------------------------
\* TypeOK: the indices of GetClient's scan and of checkAlive's round stay in
\* the pool, and the mutex has one holder, with any number of nodes.
THEOREM PoolTypeCorrect == Spec => []TypeOK
<1>1. ScanInv => TypeOK
  BY DEF ScanInv, PoolInv
<1> QED
  BY <1>1, ScanInit, ScanStep, PTL DEF Spec

\* No swap of GetClient loses a client, whatever checkAlive reads meanwhile.
THEOREM NoneLost == Spec => []PoolComplete
<1>1. ScanInv => PoolComplete
  BY PoolAssumption DEF PoolAssumption, ScanInv, PoolInv, Mutex, Swapping, Holding,
                        Complete, PoolComplete
<1> QED
  BY <1>1, ScanInit, ScanStep, PTL DEF Spec

\* The caller that gives the mutex back is given the client in front, which
\* is marked alive if its scan began with one.
LEMMA FrontGiven ==
    ASSUME ScanInv, NEW c \in Callers, holder = c, holder' = Nil, Locked(c)
    PROVE  /\ Return(c, pool[0]) /\ UNCHANGED alive
           /\ caller[c].hope => alive[pool[0]]
<1>1. /\ c # Nil /\ pool \in [Indexes -> Nodes] /\ 0 \in Indexes /\ Size \in Nat \ {0}
      /\ caller[c].i \in Indexes /\ (caller[c].hope => Hopeful(c))
  BY SizeType, PoolAssumption DEF PoolAssumption, ScanInv, PoolInv, TypeOK, CallerStates
<1>2. Look(c) \/ Place(c)
  BY <1>1 DEF Locked, Move
<1>3. CASE Look(c)
  <2>1. Return(c, pool[0]) /\ UNCHANGED alive
    BY <1>1, <1>3 DEF Look, Return
  <2>2. caller[c].hope => alive[pool[0]]
    BY <1>1, <1>3 DEF Look, Hopeful, Unscanned, Before, Indexes
  <2> QED
    BY <2>1, <2>2
<1>4. CASE Place(c)
  BY <1>1, <1>4 DEF Place, Hopeful
<1> QED
  BY <1>2, <1>3, <1>4

\* GetClient returns a client that is marked alive if there was one when it
\* took the mutex, though checkAlive writes marks during the scan.
THEOREM BestReturned == Spec => BestClient
<1> DEFINE Best == \A c \in Callers :
              holder = c /\ holder' = Nil /\ caller[c].hope => alive[caller'[c].client]
<1>1. ScanInv /\ [Next]_vars => [Best]_vars
  <2> SUFFICES ASSUME ScanInv, Next, NEW c \in Callers,
                      holder = c, holder' = Nil, caller[c].hope
               PROVE  alive[caller'[c].client]
    OBVIOUS
  <2>1. c # Nil /\ caller \in [Callers -> CallerStates]
    BY PoolAssumption DEF PoolAssumption, ScanInv, PoolInv, TypeOK
  <2>2. Locked(c)
    BY <2>1 DEF Next, Lock, Locked, Look, Move, Place, Return, Call, Report, Check,
                CheckRead, CheckLook, CheckProbe, CheckSet, Outage, Recovery, ScanInv,
                PoolInv, Mutex, Holding
  <2>3. Return(c, pool[0]) /\ alive[pool[0]]
    BY <2>2, FrontGiven
  <2>4. caller'[c].client = pool[0]
    BY <2>1, <2>3 DEF Return, Become, CallerStates
  <2> QED
    BY <2>3, <2>4
<1> QED
  BY <1>1, ScanInit, ScanStep, PTL DEF Spec, BestClient

-----------------------------------------------------------------------------
(* The pool implements ClientPool.                                          *)

\* A caller that calls has a client, and one that keeps its client always
\* has the same.
ClientsHeld ==
    /\ \A c \in Callers : Calling(c) => caller[c].client \in Nodes
    /\ \A c \in Pinned : Calling(c) /\ caller[c].client = Order[0]

LEMMA HeldInit == Init => ClientsHeld
  BY SizeType, PoolAssumption DEF PoolAssumption, Init, ClientsHeld, Rest, Kept, Idle, Calling

\* What is seen of a step that takes caller c to state.
LEMMA BarsStep ==
    ASSUME ScanInv, ClientsHeld, NEW c \in Callers, NEW state \in CallerStates,
           caller' = [caller EXCEPT ![c] = state],
           state.pc \in {"call", "report"} => state.client \in Nodes,
           c \in Pinned => state.pc \in {"call", "report"} /\ state.client = Order[0]
    PROVE  /\ ClientsHeld'
           /\ givenBar' = [givenBar EXCEPT ![c] =
                             IF state.pc \in {"call", "report"} THEN state.client ELSE Nil]
           /\ failedBar' = IF state.pc = "report" THEN failedBar \cup {c}
                                                  ELSE failedBar \ {c}
<1>1. caller \in [Callers -> CallerStates] /\ Pinned \subseteq Callers
  BY PoolAssumption DEF PoolAssumption, ScanInv, PoolInv, TypeOK
<1>2. \A d \in Callers : caller'[d] = IF d = c THEN state ELSE caller[d]
  BY <1>1
<1>3. ClientsHeld'
  BY <1>1, <1>2 DEF ClientsHeld, Calling
<1>4. givenBar' = [givenBar EXCEPT ![c] =
                     IF state.pc \in {"call", "report"} THEN state.client ELSE Nil]
  <2>1. /\ givenBar' = [d \in Callers |-> IF caller'[d].pc \in {"call", "report"}
                                          THEN caller'[d].client ELSE Nil]
        /\ givenBar = [d \in Callers |-> IF caller[d].pc \in {"call", "report"}
                                         THEN caller[d].client ELSE Nil]
    BY DEF givenBar, Calling
  <2> QED
    BY <1>2, <2>1
<1>5. failedBar' = IF state.pc = "report" THEN failedBar \cup {c} ELSE failedBar \ {c}
  BY <1>2 DEF failedBar
<1> QED
  BY <1>3, <1>4, <1>5

LEMMA LockAsks ==
    ASSUME ScanInv, ClientsHeld, NEW c \in Callers, Lock(c)
    PROVE  C!Ask(c) /\ ClientsHeld'
<1> DEFINE state == [Idle EXCEPT !.pc = "look", !.hope = \E n \in Nodes : alive[n]]
<1>1. /\ state \in CallerStates /\ state.pc = "look"
      /\ state.hope = \E n \in Nodes : alive[n]
  BY RestType DEF Idle, CallerStates
<1>2. /\ caller' = [caller EXCEPT ![c] = state] /\ caller \in [Callers -> CallerStates]
      /\ caller[c].pc = "idle" /\ holder = Nil /\ holder' = c /\ UNCHANGED alive
  BY DEF Lock, Become, ScanInv, PoolInv, TypeOK
<1> HIDE DEF state
<1>3. c \notin Pinned
  BY <1>2 DEF ClientsHeld, Calling
<1>4. /\ ClientsHeld'
      /\ givenBar' = [givenBar EXCEPT ![c] = Nil]
      /\ failedBar' = failedBar \ {c}
  BY <1>1, <1>2, <1>3, BarsStep
<1>5. givenBar[c] = Nil /\ c \notin failedBar
  BY <1>2 DEF givenBar, Calling, failedBar
<1>6. givenBar' = givenBar /\ failedBar' = failedBar /\ markedBar' = markedBar
  BY <1>2, <1>4, <1>5 DEF givenBar, markedBar
<1>7. sureBar' = (markedBar # {})
  <2>1. caller'[c].hope = \E n \in Nodes : alive[n]
    BY <1>1, <1>2
  <2>2. holder' # Nil
    BY <1>2, PoolAssumption DEF PoolAssumption
  <2> QED
    BY <1>2, <2>1, <2>2 DEF sureBar, markedBar
<1> QED
  BY <1>2, <1>4, <1>5, <1>6, <1>7 DEF C!Ask

LEMMA LockedGives ==
    ASSUME ScanInv, ClientsHeld, NEW c \in Callers, Locked(c)
    PROVE  (C!Give(c) \/ UNCHANGED C!vars) /\ ClientsHeld'
<1>1. /\ caller[c].pc \in {"look", "move", "place"} /\ holder = c /\ UNCHANGED alive
      /\ caller \in [Callers -> CallerStates] /\ c # Nil
      /\ pool \in [Indexes -> Nodes] /\ 0 \in Indexes
  BY SizeType, PoolAssumption
     DEF PoolAssumption, Locked, Look, Move, Place, ScanInv, PoolInv, TypeOK, Mutex, Holding
<1>2. c \notin Pinned /\ ~Calling(c)
  BY <1>1 DEF ClientsHeld, Calling
<1>3. markedBar' = markedBar /\ givenBar[c] = Nil /\ c \notin failedBar
  BY <1>1, <1>2 DEF markedBar, givenBar, failedBar, Calling
<1>4. CASE holder' = Nil
  <2> DEFINE state == [caller[c] EXCEPT !.pc = "call", !.client = pool[0]]
  <2>1. /\ caller' = [caller EXCEPT ![c] = state]
        /\ caller[c].hope => alive[pool[0]]
    BY <1>1, <1>4, FrontGiven DEF Return, Become
  <2>2. pool[0] \in Nodes /\ state \in CallerStates
        /\ state.pc = "call" /\ state.client = pool[0]
    BY <1>1 DEF CallerStates
  <2> HIDE DEF state
  <2>3. /\ ClientsHeld' /\ givenBar' = [givenBar EXCEPT ![c] = state.client]
        /\ failedBar' = failedBar \ {c}
    BY <1>2, <2>1, <2>2, BarsStep
  <2>4. sureBar = caller[c].hope /\ sureBar' = FALSE
    BY <1>1, <1>4 DEF sureBar, CallerStates
  <2>5. sureBar => pool[0] \in markedBar
    BY <2>1, <2>2, <2>4 DEF markedBar
  <2> QED
    BY <1>1, <1>3, <1>4, <2>2, <2>3, <2>4, <2>5 DEF C!Give
<1>5. CASE holder' # Nil
  <2>1. PICK state \in CallerStates :
           /\ caller' = [caller EXCEPT ![c] = state] /\ holder' = holder
           /\ state.pc \in {"look", "move", "place"} /\ state.hope = caller[c].hope
    <3>1. /\ [caller[c] EXCEPT !.pc = "move"] \in CallerStates
          /\ [caller[c] EXCEPT !.pc = "move"].pc = "move"
          /\ [caller[c] EXCEPT !.pc = "move"].hope = caller[c].hope
      BY <1>1 DEF CallerStates
    <3>2. /\ [caller[c] EXCEPT !.i = Before(caller[c].i)] \in CallerStates
          /\ [caller[c] EXCEPT !.i = Before(caller[c].i)].pc = caller[c].pc
          /\ [caller[c] EXCEPT !.i = Before(caller[c].i)].hope = caller[c].hope
      <4>1. Before(caller[c].i) \in Indexes
        BY <1>1, SizeType DEF Before, Indexes, CallerStates
      <4> QED
        BY <1>1, <4>1 DEF CallerStates
    <3>3. /\ [caller[c] EXCEPT !.pc = "place", !.client = pool[0]] \in CallerStates
          /\ [caller[c] EXCEPT !.pc = "place", !.client = pool[0]].pc = "place"
          /\ [caller[c] EXCEPT !.pc = "place", !.client = pool[0]].hope = caller[c].hope
      BY <1>1 DEF CallerStates
    <3>4. ASSUME NEW state \in CallerStates, Become(c, state), UNCHANGED holder,
                 state.pc \in {"look", "move", "place"}, state.hope = caller[c].hope
          PROVE  \E st \in CallerStates :
                    /\ caller' = [caller EXCEPT ![c] = st] /\ holder' = holder
                    /\ st.pc \in {"look", "move", "place"} /\ st.hope = caller[c].hope
      BY <3>4 DEF Become
    <3>5. \/ Become(c, [caller[c] EXCEPT !.pc = "move"]) /\ UNCHANGED holder
          \/ Become(c, [caller[c] EXCEPT !.i = Before(caller[c].i)]) /\ UNCHANGED holder
          \/ Become(c, [caller[c] EXCEPT !.pc = "place", !.client = pool[0]])
             /\ UNCHANGED holder
      BY <1>5 DEF Locked, Look, Move, Place, Return
    <3> QED
      BY <1>1, <3>1, <3>2, <3>3, <3>4, <3>5
  <2>2. /\ ClientsHeld' /\ givenBar' = [givenBar EXCEPT ![c] = Nil]
        /\ failedBar' = failedBar \ {c}
    BY <1>2, <2>1, BarsStep
  <2>3. givenBar' = givenBar /\ failedBar' = failedBar
    BY <1>3, <2>2 DEF givenBar
  <2>4. sureBar' = sureBar
    BY <1>1, <2>1 DEF sureBar
  <2> QED
    BY <1>3, <2>1, <2>2, <2>3, <2>4 DEF C!vars
<1> QED
  BY <1>4, <1>5

\* Who makes a call, or reports one, does not have the mutex: what the scan
\* under way has begun with stays as it is.
LEMMA SureStays ==
    ASSUME ScanInv, NEW c \in Callers, caller[c].pc \notin Holding, NEW state,
           caller' = [caller EXCEPT ![c] = state], UNCHANGED holder
    PROVE  sureBar' = sureBar
<1>1. holder # c /\ holder \in Callers \cup {Nil} /\ caller \in [Callers -> CallerStates]
  BY DEF ScanInv, PoolInv, TypeOK, Mutex
<1> QED
  BY <1>1 DEF sureBar

\* A caller that has done its call keeps its client, or gives it up.
LEMMA RestLeaves ==
    ASSUME ScanInv, ClientsHeld, NEW c \in Callers, Calling(c),
           caller' = [caller EXCEPT ![c] = Rest(c)]
    PROVE  C!Leave(c) /\ ClientsHeld' /\ failedBar' = failedBar \ {c}
<1>1. /\ Rest(c) \in CallerStates /\ Rest(c).pc # "report"
      /\ c \notin Pinned => Rest(c).pc = "idle"
      /\ c \in Pinned => Rest(c).pc = "call" /\ Rest(c).client = Order[0]
  BY RestType DEF Rest, Kept, Idle
<1>2. Order[0] \in Nodes
  BY SizeType, PoolAssumption DEF PoolAssumption
<1>3. /\ ClientsHeld'
      /\ givenBar' = [givenBar EXCEPT ![c] = IF Rest(c).pc \in {"call", "report"}
                                             THEN Rest(c).client ELSE Nil]
      /\ failedBar' = failedBar \ {c}
  BY <1>1, <1>2, BarsStep
<1>4. CASE c \in Pinned
  <2>1. givenBar[c] = Order[0]
    BY <1>4 DEF ClientsHeld, givenBar
  <2>2. givenBar' = givenBar
    BY <1>1, <1>3, <1>4, <2>1 DEF givenBar
  <2> QED
    BY <1>3, <1>4, <2>2 DEF C!Leave
<1>5. CASE c \notin Pinned
  BY <1>1, <1>3, <1>5 DEF C!Leave
<1> QED
  BY <1>4, <1>5

LEMMA CallReturns ==
    ASSUME ScanInv, ClientsHeld, NEW c \in Callers, Call(c)
    PROVE  (C!Succeed(c) \/ C!Fail(c)) /\ ClientsHeld'
<1>1. /\ caller[c].pc = "call" /\ UNCHANGED <<alive, holder>>
      /\ caller \in [Callers -> CallerStates]
  BY DEF Call, ScanInv, PoolInv, TypeOK
<1>2. /\ Calling(c) /\ caller[c].client \in Nodes /\ givenBar[c] = caller[c].client
      /\ givenBar[c] # Nil /\ c \notin failedBar /\ markedBar' = markedBar
  BY <1>1, PoolAssumption
     DEF PoolAssumption, Calling, ClientsHeld, givenBar, failedBar, markedBar
<1>3. CASE Become(c, Rest(c))
  <2>1. C!Leave(c) /\ ClientsHeld' /\ failedBar' = failedBar
    BY <1>2, <1>3, RestLeaves DEF Become
  <2>2. sureBar' = sureBar
    BY <1>1, <1>3, SureStays DEF Become, Holding
  <2> QED
    BY <1>1, <1>2, <2>1, <2>2 DEF C!Succeed
<1>4. CASE Become(c, [caller[c] EXCEPT !.pc = "report"])
  <2> DEFINE state == [caller[c] EXCEPT !.pc = "report"]
  <2>1. /\ state \in CallerStates /\ state.pc = "report"
        /\ state.client = caller[c].client
    BY <1>1 DEF CallerStates
  <2>2. caller' = [caller EXCEPT ![c] = state]
    BY <1>4 DEF Become
  <2> HIDE DEF state
  <2>3. /\ ClientsHeld' /\ givenBar' = [givenBar EXCEPT ![c] = caller[c].client]
        /\ failedBar' = failedBar \cup {c}
    BY <1>2, <2>1, <2>2, BarsStep DEF ClientsHeld
  <2>4. givenBar' = givenBar
    BY <1>2, <2>3 DEF givenBar
  <2>5. sureBar' = sureBar
    BY <1>1, <2>2, SureStays DEF Holding
  <2> QED
    BY <1>1, <1>2, <2>3, <2>4, <2>5 DEF C!Fail
<1> QED
  BY <1>3, <1>4 DEF Call

LEMMA ReportReports ==
    ASSUME ScanInv, ClientsHeld, NEW c \in Callers, Report(c)
    PROVE  C!Report(c) /\ ClientsHeld'
<1>1. /\ caller[c].pc = "report" /\ holder = Nil /\ UNCHANGED holder
      /\ caller' = [caller EXCEPT ![c] = Rest(c)]
      /\ alive' = [alive EXCEPT ![caller[c].client] = FALSE]
      /\ alive \in [Nodes -> BOOLEAN]
  BY DEF Report, Become, ScanInv, PoolInv, TypeOK
<1>2. /\ Calling(c) /\ caller[c].client \in Nodes /\ givenBar[c] = caller[c].client
      /\ c \in failedBar
  BY <1>1 DEF Calling, ClientsHeld, givenBar, failedBar
<1>3. C!Leave(c) /\ ClientsHeld' /\ failedBar' = failedBar \ {c}
  BY <1>1, <1>2, RestLeaves
<1>4. markedBar' = markedBar \ {givenBar[c]}
  BY <1>1, <1>2 DEF markedBar
<1>5. sureBar' = sureBar
  BY <1>1, SureStays DEF Holding
<1> QED
  BY <1>1, <1>2, <1>3, <1>4, <1>5 DEF C!Report

\* Of checkAlive only that it revives a client is seen.
LEMMA CheckRevives ==
    ASSUME ScanInv, ClientsHeld, Check
    PROVE  ((\E n \in Nodes : C!Revive(n)) \/ UNCHANGED C!vars) /\ ClientsHeld'
<1>1. UNCHANGED <<caller, holder>> /\ alive \in [Nodes -> BOOLEAN]
  BY DEF Check, CheckRead, CheckLook, CheckProbe, CheckSet, ScanInv, PoolInv, TypeOK
<1>2. /\ UNCHANGED <<givenBar, failedBar, sureBar>> /\ ClientsHeld'
  BY <1>1 DEF givenBar, failedBar, sureBar, Calling, ClientsHeld
<1>3. CASE UNCHANGED alive
  <2>1. UNCHANGED markedBar
    BY <1>3 DEF markedBar
  <2> QED
    BY <1>1, <1>2, <2>1 DEF C!vars
<1>4. CASE alive' # alive
  <2>1. /\ checker.client \in Nodes /\ ~alive[checker.client]
        /\ alive' = [alive EXCEPT ![checker.client] = checker.answers]
        /\ checker.answers \in BOOLEAN
    BY <1>4 DEF Check, CheckRead, CheckLook, CheckProbe, CheckSet, ScanInv, Checked,
                PoolInv, TypeOK, CheckerStates
  <2>2. checker.answers
    BY <1>1, <1>4, <2>1
  <2>3. /\ checker.client \notin markedBar
        /\ markedBar' = markedBar \cup {checker.client}
    BY <1>1, <2>1, <2>2 DEF markedBar
  <2> QED
    BY <1>1, <1>2, <2>1, <2>3 DEF C!Revive
<1> QED
  BY <1>3, <1>4

LEMMA PoolStep == ScanInv /\ ClientsHeld /\ [Next]_vars => ClientsHeld' /\ [C!Next]_C!vars
<1> SUFFICES ASSUME ScanInv, ClientsHeld, [Next]_vars
             PROVE  ClientsHeld' /\ [C!Next]_C!vars
  OBVIOUS
<1>1. ASSUME NEW c \in Callers, Lock(c) \/ Locked(c) \/ Call(c) \/ Report(c)
      PROVE  ClientsHeld' /\ [C!Next]_C!vars
  BY <1>1, LockAsks, LockedGives, CallReturns, ReportReports DEF C!Next
<1>2. CASE Check
  BY <1>2, CheckRevives DEF C!Next
<1>3. CASE (\E n \in Nodes : Outage(n) \/ Recovery(n)) \/ UNCHANGED vars
  <2>1. UNCHANGED <<alive, holder, caller>>
    BY <1>3 DEF Outage, Recovery, vars
  <2>2. UNCHANGED <<markedBar, givenBar, failedBar, sureBar>> /\ ClientsHeld'
    BY <2>1 DEF markedBar, givenBar, failedBar, sureBar, Calling, ClientsHeld
  <2> QED
    BY <2>1, <2>2 DEF C!vars
<1> QED
  BY <1>1, <1>2, <1>3 DEF Next

LEMMA PoolStart == Init => C!Init
<1> SUFFICES ASSUME Init PROVE C!Init
  OBVIOUS
<1>1. \A c \in Callers : caller[c] = Rest(c)
  BY DEF Init
<1>2. \A c \in Callers : /\ Rest(c).pc # "report"
                         /\ c \notin Pinned => Rest(c).pc = "idle"
                         /\ c \in Pinned => Rest(c).pc = "call" /\ Rest(c).client = Order[0]
  BY DEF Rest, Kept, Idle
<1>3. Order[0] \in Nodes /\ Order[0] # Nil
  BY SizeType, PoolAssumption DEF PoolAssumption
<1>4. \A c \in Callers : givenBar[c] = IF c \in Pinned THEN Order[0] ELSE Nil
  BY <1>1, <1>2 DEF givenBar, Calling
<1>5. /\ givenBar \in [Callers -> Nodes \cup {Nil}]
      /\ \A c \in Callers : givenBar[c] = Nil <=> c \notin Pinned
  <2>1. DOMAIN givenBar = Callers /\ givenBar = [c \in Callers |-> givenBar[c]]
    BY DEF givenBar
  <2> QED
    BY <1>3, <1>4, <2>1
<1>6. markedBar = Nodes /\ failedBar = {} /\ sureBar = FALSE /\ holder = Nil
  BY <1>1, <1>2 DEF Init, markedBar, failedBar, sureBar
<1> QED
  BY <1>5, <1>6 DEF C!Init

\* The pool implements ClientPool with any number of nodes, callers, outages
\* and timeouts: the swaps of GetClient, its scans and the unlocked rounds of
\* checkAlive cannot be told from a pool that serves one caller at a time.
THEOREM PoolImplements == Spec => GivesOut
<1>1. Spec => C!Spec
  BY ScanInit, ScanStep, HeldInit, PoolStart, PoolStep, PTL DEF Spec, C!Spec
<1> QED
  BY <1>1 DEF GivesOut

=============================================================================
