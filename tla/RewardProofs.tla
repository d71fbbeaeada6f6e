---------------------------- MODULE RewardProofs ----------------------------
(***************************************************************************)
(* Proofs about RewardJob for any list of cashouts and any bounds.         *)
(***************************************************************************)
EXTENDS RewardJob, SequenceTheorems, TLAPS

\* The cashouts of the job's block that this round has dealt with.
Done == CASE job.pc = "credit" -> 1 .. (job.k - 1)
          [] job.pc = "save"   -> Places
          [] OTHER             -> {}

\* Where the job is: the block after the recorded one, which the chain has.
InStep ==
    /\ blockHeight <= irreversible
    /\ job.pc = "status" => job.height = blockHeight
    /\ job.pc \in {"reward", "credit", "save"} =>
          job.height = blockHeight + 1 /\ job.height <= irreversible
    /\ job.pc = "credit" => job.list = 1

\* Each cashout of the recorded blocks, and each that is done with in the
\* next one, is credited at least once.
Counted ==
    \A h \in Heights, k \in Places :
        /\ h <= blockHeight \/ (h = blockHeight + 1 /\ k \in Done)
        /\ Cashouts[k] \in Indexed
        /\ <<1, h, k>> \notin missed
        => credited[<<1, h, k>>] >= 1

\* At most once and again after each loss; the next block is only credited
\* by rounds that ended in a loss and by the one under way, and those after
\* it not at all.
Bounded ==
    \A h \in Heights, k \in Places :
        /\ credited[<<1, h, k>>] <= 1 + again
        /\ h = blockHeight + 1 /\ k \notin Done => credited[<<1, h, k>>] <= again
        /\ h > blockHeight + 1 => credited[<<1, h, k>>] = 0

RewardInv ==
    /\ TypeOK
    /\ job.pc = "credit" => job.k \in Places
    /\ job.pc \in {"reward", "credit", "save"} => job.height \in Heights
    /\ chain = 1 => InStep /\ Counted /\ Bounded

-----------------------------------------------------------------------------
\* The list of cashouts has a length.
LEMMA PlacesType == Len(Cashouts) \in Nat
  BY RewardAssumption DEF RewardAssumption

\* The initial state.
LEMMA RewardInit == Init => RewardInv
<1> SUFFICES ASSUME Init PROVE RewardInv
  OBVIOUS
<1> USE RewardAssumption, PlacesType DEF RewardAssumption, Init
<1>1. TypeOK /\ job.pc = "height"
  BY DEF TypeOK, JobStates, Waiting, Chains
<1>2. \A h \in Heights, k \in Places :
        <<1, h, k>> \in Entries /\ h > blockHeight /\ credited[<<1, h, k>>] = 0
  BY DEF Entries, Chains, Heights, Places
<1>3. InStep
  BY <1>1 DEF InStep
<1>4. Counted /\ Bounded
  BY <1>1, <1>2 DEF Counted, Bounded, Done, Heights
<1> QED
  BY <1>1, <1>3, <1>4 DEF RewardInv

-----------------------------------------------------------------------------
(* One lemma per action: each step keeps RewardInv.                         *)

\* What RewardInv says of the types, for the steps below.
LEMMA Types ==
    ASSUME RewardInv
    PROVE  /\ blockHeight \in Nat /\ irreversible \in Nat /\ again \in Nat
           /\ MaxHeight \in Nat \ {0} /\ MaxChains \in Nat \ {0}
           /\ blockHeight <= MaxHeight /\ irreversible <= MaxHeight
           /\ job \in JobStates /\ job.k \in Nat /\ job.list \in Chains
           /\ job.height \in 0 .. MaxHeight
           /\ job.pc \in {"height", "status", "reward", "credit", "save"}
           /\ credited \in [Entries -> Nat] /\ missed \subseteq Entries
           /\ chain \in Chains /\ 1 \in Chains /\ Waiting \in JobStates
           /\ Len(Cashouts) \in Nat
  BY RewardAssumption, PlacesType
     DEF RewardAssumption, RewardInv, TypeOK, JobStates, Chains, Waiting

\* A failure is counted.
LEMMA FaultType ==
    ASSUME RewardInv, NEW kind, Fault(kind)
    PROVE  faults' \in 0 .. MaxFaults
  BY RewardAssumption DEF RewardAssumption, RewardInv, TypeOK, Fault

\* The job begins again: what this round has credited counts as done before
\* unless it has lost it, and then a failure is recorded.
LEMMA RestartKeeps ==
    ASSUME RewardInv, job' = Waiting, faults' \in 0 .. MaxFaults,
           UNCHANGED <<blockHeight, credited, chain, irreversible, missed>>,
           \/ again' = again /\ Done = {}
           \/ again' = again + 1
    PROVE  RewardInv'
<1> USE Types
<1>1. TypeOK' /\ job'.pc = "height"
  BY DEF RewardInv, TypeOK, Waiting
<1>2. Done' = {}
  BY <1>1 DEF Done
<1>3. ASSUME chain = 1 PROVE InStep' /\ Counted' /\ Bounded'
  <2>1. InStep /\ Counted /\ Bounded
    BY <1>3 DEF RewardInv
  <2>2. InStep'
    BY <1>1, <2>1 DEF InStep
  <2>3. Counted'
    BY <1>2, <2>1 DEF Counted
  <2>4. ASSUME NEW h \in Heights, NEW k \in Places
        PROVE  /\ credited[<<1, h, k>>] <= 1 + again'
               /\ h = blockHeight + 1 => credited[<<1, h, k>>] <= again'
               /\ h > blockHeight + 1 => credited[<<1, h, k>>] = 0
    <3>1. credited[<<1, h, k>>] \in Nat
      BY DEF Entries
    <3> QED
      BY <2>1, <3>1 DEF Bounded
  <2> QED
    BY <2>2, <2>3, <2>4 DEF Bounded
<1> QED
  BY <1>1, <1>3 DEF RewardInv

\* Steps that only move the job on, before it credits anything.
LEMMA AdvanceKeeps ==
    ASSUME RewardInv, NEW state \in JobStates, job' = state,
           UNCHANGED <<redisVars, chainVars, missed, again, faults>>,
           Done' = Done,
           job'.pc = "credit" => job'.k \in Places,
           job'.pc \in {"reward", "credit", "save"} => job'.height \in Heights,
           chain = 1 => InStep'
    PROVE  RewardInv'
<1>1. TypeOK'
  BY DEF RewardInv, TypeOK, redisVars, chainVars
<1>2. chain = 1 => Counted' /\ Bounded'
  BY DEF RewardInv, Counted, Bounded, redisVars, chainVars
<1> QED
  BY <1>1, <1>2 DEF RewardInv, redisVars, chainVars

\* The recorded height is read.
LEMMA GetHeightKeeps == RewardInv /\ GetHeight => RewardInv'
<1> SUFFICES ASSUME RewardInv, GetHeight PROVE RewardInv'
  OBVIOUS
<1> DEFINE state == [job EXCEPT !.pc = "status", !.height = blockHeight]
<1>1. state \in JobStates /\ state.pc = "status" /\ state.height = blockHeight
  <2>1. blockHeight \in 0 .. MaxHeight
    BY DEF RewardInv, TypeOK
  <2> QED
    BY <2>1, Types DEF JobStates
<1>2. job' = state /\ job.pc = "height"
  BY DEF GetHeight
<1> HIDE DEF state
<1>3. Done' = Done
  BY <1>1, <1>2 DEF Done
<1>4. chain = 1 => InStep'
  BY <1>1, <1>2 DEF InStep, RewardInv, GetHeight, redisVars, chainVars
<1> QED
  BY <1>1, <1>2, <1>3, <1>4, AdvanceKeeps DEF GetHeight

\* The next height is one that the chain has, or the first one again.
LEMMA GetStatusKeeps == RewardInv /\ GetStatus => RewardInv'
<1> SUFFICES ASSUME RewardInv, GetStatus PROVE RewardInv'
  OBVIOUS
<1>1. job.pc = "status" /\ Done = {}
  BY DEF GetStatus, Done
<1>2. CASE job.height = irreversible
  BY <1>1, <1>2, RestartKeeps DEF GetStatus, RewardInv, TypeOK, redisVars, chainVars
<1>3. CASE job.height # irreversible
  <2> DEFINE next == Following(job.height)
             state == [job EXCEPT !.pc = "reward", !.height = next]
  <2>1. next \in Heights
    BY <1>3, Types DEF Following, Heights
  <2>2. chain = 1 => next = blockHeight + 1 /\ next <= irreversible
    BY <1>1, <1>3, Types DEF RewardInv, InStep, Following
  <2>3. job' = state
    BY <1>3 DEF GetStatus
  <2> HIDE DEF next
  <2>6. next \in 0 .. MaxHeight
    BY <2>1, Types DEF Heights
  <2>7. state \in JobStates /\ state.pc = "reward" /\ state.height = next
    BY <2>6, Types DEF JobStates
  <2> HIDE DEF state
  <2>4. Done' = Done
    BY <1>1, <2>3, <2>7 DEF Done
  <2>5. chain = 1 => InStep'
    BY <2>2, <2>3, <2>7 DEF InStep, RewardInv, GetStatus, redisVars, chainVars
  <2> QED
    BY <2>1, <2>3, <2>4, <2>5, <2>7, AdvanceKeeps DEF GetStatus
<1> QED
  BY <1>2, <1>3

\* A block that the chain has is answered with its cashouts; only a cleaned
\* chain lacks the block.
LEMMA GetRewardKeeps == RewardInv /\ GetReward => RewardInv'
<1> SUFFICES ASSUME RewardInv, GetReward PROVE RewardInv'
  OBVIOUS
<1>1. /\ job.pc = "reward" /\ Done = {} /\ job.height \in Heights
      /\ UNCHANGED <<redisVars, chainVars, missed, again, faults>>
  BY DEF GetReward, Done, RewardInv
<1>2. CASE job.height <= irreversible
  <2> DEFINE pc == IF Cashouts = <<>> THEN "save" ELSE "credit"
             state == [job EXCEPT !.pc = pc, !.list = chain, !.k = 1]
  <2>1. /\ state \in JobStates /\ state.pc = pc /\ state.height = job.height
        /\ state.list = chain /\ state.k = 1
    BY Types DEF JobStates
  <2>2. job' = state
    BY <1>2, Types DEF GetReward
  <2>3. CASE Cashouts = <<>>
    <3>1. Places = {} /\ state.pc = "save"
      BY <2>1, <2>3 DEF Places
    <3> HIDE DEF state
    <3>2. Done' = Done
      BY <1>1, <2>2, <3>1 DEF Done
    <3>3. chain = 1 => InStep'
      BY <1>1, <2>1, <2>2, <3>1 DEF InStep, RewardInv, redisVars, chainVars
    <3> QED
      BY <1>1, <2>1, <2>2, <3>1, <3>2, <3>3, AdvanceKeeps
  <2>4. CASE Cashouts # <<>>
    <3>1. 1 \in Places /\ state.pc = "credit"
      BY <2>1, <2>4, RewardAssumption DEF RewardAssumption, Places
    <3> HIDE DEF state
    <3>2. Done' = Done
      BY <1>1, <2>1, <2>2, <3>1 DEF Done
    <3>3. chain = 1 => InStep'
      BY <1>1, <2>1, <2>2, <3>1 DEF InStep, RewardInv, redisVars, chainVars
    <3> QED
      BY <1>1, <2>1, <2>2, <3>1, <3>2, <3>3, AdvanceKeeps
  <2> QED
    BY <2>3, <2>4
<1>3. CASE job.height > irreversible /\ job' = Waiting
  BY <1>1, <1>3, RestartKeeps DEF RewardInv, TypeOK, redisVars, chainVars
<1>4. CASE job.height > irreversible /\ job' = [job EXCEPT !.pc = "save"]
  <2>1. chain # 1
    BY <1>1, <1>4, Types DEF RewardInv, InStep
  <2>2. job' \in JobStates /\ job'.pc = "save" /\ job'.height = job.height
    BY <1>4, Types DEF JobStates
  <2>3. TypeOK'
    BY <1>1, <2>2 DEF RewardInv, TypeOK, redisVars, chainVars
  <2> QED
    BY <1>1, <2>1, <2>2, <2>3 DEF RewardInv, chainVars
<1> QED
  BY <1>2, <1>3, <1>4, Types DEF GetReward

\* A failed query loses nothing.
LEMMA CallFailsKeeps == RewardInv /\ CallFails => RewardInv'
<1> SUFFICES ASSUME RewardInv, CallFails PROVE RewardInv'
  OBVIOUS
<1>1. faults' \in 0 .. MaxFaults
  BY FaultType DEF CallFails
<1>2. Done = {}
  BY DEF CallFails, Done
<1> QED
  BY <1>1, <1>2, RestartKeeps DEF CallFails, redisVars, chainVars

\* A crash may lose what its round has credited, and is recorded.
LEMMA CrashKeeps == RewardInv /\ Crash => RewardInv'
<1> SUFFICES ASSUME RewardInv, Crash PROVE RewardInv'
  OBVIOUS
<1>1. faults' \in 0 .. MaxFaults
  BY FaultType DEF Crash
<1> QED
  BY <1>1, RestartKeeps DEF Crash, redisVars, chainVars

\* One cashout is dealt with: its reward grows by at most one, and only a
\* cashout that is not credited is noted as missed.
LEMMA CashoutKeeps ==
    ASSUME RewardInv, job.pc = "credit", NextCashout,
           UNCHANGED <<blockHeight, chainVars, again>>,
           faults' \in 0 .. MaxFaults,
           \/ credited' = credited
           \/ credited' = [credited EXCEPT ![Cashout] = @ + 1],
           missed' \in {missed, missed \cup {Cashout}},
           \/ Cashouts[job.k] \notin Indexed
           \/ Cashout \in missed'
           \/ credited' = [credited EXCEPT ![Cashout] = @ + 1]
    PROVE  RewardInv'
<1> USE Types
<1>1. Cashout \in Entries /\ job.k \in Places /\ job.height \in Heights
  BY DEF RewardInv, Cashout, Entries
<1>2. /\ job' \in JobStates /\ job'.height = job.height /\ job'.list = job.list
      /\ \/ job'.pc = "credit" /\ job'.k = job.k + 1 /\ job.k < Len(Cashouts)
         \/ job'.pc = "save" /\ job.k = Len(Cashouts)
  <2>1. CASE job.k < Len(Cashouts)
    <3>1. job' = [job EXCEPT !.k = job.k + 1]
      BY <2>1 DEF NextCashout
    <3> QED
      BY <2>1, <3>1 DEF JobStates
  <2>2. CASE ~(job.k < Len(Cashouts))
    <3>1. job' = [job EXCEPT !.pc = "save"]
      BY <2>2 DEF NextCashout
    <3>2. job.k = Len(Cashouts)
      BY <1>1, <2>2 DEF Places
    <3> QED
      BY <3>1, <3>2 DEF JobStates
  <2> QED
    BY <2>1, <2>2
<1>3. Done' = Done \cup {job.k}
  <2>1. Done = 1 .. (job.k - 1)
    BY DEF Done
  <2>2. Done' = 1 .. job.k
    <3>1. CASE job'.pc = "credit" /\ job'.k = job.k + 1
      BY <3>1 DEF Done
    <3>2. CASE job'.pc = "save" /\ job.k = Len(Cashouts)
      <4>1. Done' = Places
        BY <3>2 DEF Done
      <4> QED
        BY <3>2, <4>1 DEF Places
    <3> QED
      BY <1>2, <3>1, <3>2
  <2>3. job.k >= 1
    BY <1>1 DEF Places
  <2> QED
    BY <2>1, <2>2, <2>3
<1>4. credited' \in [Entries -> Nat]
  BY <1>1
<1>5. TypeOK'
  BY <1>1, <1>2, <1>4 DEF RewardInv, TypeOK, chainVars
<1>6. /\ job'.pc = "credit" => job'.k \in Places
      /\ job'.height \in Heights
  BY <1>1, <1>2 DEF Places
<1>7. ASSUME chain = 1 PROVE InStep' /\ Counted' /\ Bounded'
  <2>1. InStep /\ Counted /\ Bounded
    BY <1>7 DEF RewardInv
  <2>2. job.list = 1 /\ job.height = blockHeight + 1 /\ Cashout = <<1, job.height, job.k>>
    BY <2>1 DEF InStep, Cashout
  <2>3. InStep'
    BY <1>2, <2>1, <2>2 DEF InStep, chainVars
  <2>4. ASSUME NEW h \in Heights, NEW k \in Places
        PROVE  /\ <<1, h, k>> \in Entries /\ credited[<<1, h, k>>] \in Nat
               /\ <<1, h, k>> # Cashout => credited'[<<1, h, k>>] = credited[<<1, h, k>>]
               /\ \/ credited'[<<1, h, k>>] = credited[<<1, h, k>>]
                  \/ credited'[<<1, h, k>>] = credited[<<1, h, k>>] + 1
               /\ <<1, h, k>> = Cashout <=> h = blockHeight + 1 /\ k = job.k
    <3>1. <<1, h, k>> \in Entries
      BY DEF Entries
    <3>2. credited[<<1, h, k>>] \in Nat
      BY <3>1
    <3>3. <<1, h, k>> = Cashout <=> h = blockHeight + 1 /\ k = job.k
      BY <2>2
    <3> QED
      BY <1>1, <3>1, <3>2, <3>3
  <2>5. Counted'
    <3> SUFFICES ASSUME NEW h \in Heights, NEW k \in Places,
                        h <= blockHeight \/ (h = blockHeight + 1 /\ k \in Done'),
                        Cashouts[k] \in Indexed,
                        <<1, h, k>> \notin missed'
                 PROVE  credited'[<<1, h, k>>] >= 1
      BY DEF Counted
    <3>1. CASE <<1, h, k>> = Cashout
      <4>1. k = job.k
        BY <2>4, <3>1
      <4>2. credited' = [credited EXCEPT ![Cashout] = @ + 1]
        BY <3>1, <4>1
      <4> QED
        BY <2>4, <3>1, <4>2
    <3>2. CASE <<1, h, k>> # Cashout
      <4>1. h <= blockHeight \/ (h = blockHeight + 1 /\ k \in Done)
        BY <1>3, <2>4, <3>2
      <4> QED
        BY <2>1, <2>4, <3>2, <4>1 DEF Counted
    <3> QED
      BY <3>1, <3>2
  <2>6. Bounded'
    <3> SUFFICES ASSUME NEW h \in Heights, NEW k \in Places
                 PROVE  /\ credited'[<<1, h, k>>] <= 1 + again
                        /\ h = blockHeight + 1 /\ k \notin Done'
                              => credited'[<<1, h, k>>] <= again
                        /\ h > blockHeight + 1 => credited'[<<1, h, k>>] = 0
      BY DEF Bounded
    <3>1. /\ credited[<<1, h, k>>] <= 1 + again
          /\ h = blockHeight + 1 /\ k \notin Done => credited[<<1, h, k>>] <= again
          /\ h > blockHeight + 1 => credited[<<1, h, k>>] = 0
      BY <2>1 DEF Bounded
    <3>2. job.k \notin Done
      BY DEF Done
    <3>3. CASE <<1, h, k>> = Cashout
      <4>1. h = blockHeight + 1 /\ k = job.k
        BY <2>4, <3>3
      <4>2. credited[<<1, h, k>>] <= again
        BY <3>1, <3>2, <4>1
      <4>3. k \in Done' /\ h \in Nat
        BY <1>3, <4>1
      <4> QED
        BY <2>4, <4>1, <4>2, <4>3
    <3>4. CASE <<1, h, k>> # Cashout
      <4>1. k \notin Done' => k \notin Done
        BY <1>3
      <4> QED
        BY <2>4, <3>1, <3>4, <4>1
    <3> QED
      BY <3>3, <3>4
  <2> QED
    BY <2>3, <2>5, <2>6
<1> QED
  BY <1>5, <1>6, <1>7 DEF RewardInv, chainVars

\* A cashout is added to a reward, or its user has no id.
LEMMA CreditKeeps == RewardInv /\ Credit => RewardInv'
<1> SUFFICES ASSUME RewardInv, Credit PROVE RewardInv'
  OBVIOUS
<1>1. faults' \in 0 .. MaxFaults
  BY DEF Credit, RewardInv, TypeOK
<1> QED
  BY <1>1, CashoutKeeps DEF Credit

\* A cashout is skipped, and noted.
LEMMA CreditFailsKeeps == RewardInv /\ CreditFails => RewardInv'
<1> SUFFICES ASSUME RewardInv, CreditFails PROVE RewardInv'
  OBVIOUS
<1>1. faults' \in 0 .. MaxFaults
  BY FaultType DEF CreditFails
<1> QED
  BY <1>1, CashoutKeeps DEF CreditFails

\* The height of a block all of whose cashouts are done with is recorded.
LEMMA RecordKeeps ==
    ASSUME RewardInv, job.pc = "save", job' = Waiting,
           blockHeight' = job.height,
           UNCHANGED <<credited, chainVars, missed>>,
           again' \in {again, again + 1}, faults' \in 0 .. MaxFaults
    PROVE  RewardInv'
<1> USE Types
<1>1. TypeOK' /\ job'.pc = "height" /\ Done' = {}
  BY DEF RewardInv, TypeOK, Waiting, Done, chainVars
<1>2. ASSUME chain = 1 PROVE InStep' /\ Counted' /\ Bounded'
  <2>1. InStep /\ Counted /\ Bounded
    BY <1>2 DEF RewardInv
  <2>2. blockHeight' = blockHeight + 1 /\ blockHeight' <= irreversible /\ Done = Places
    BY <2>1 DEF InStep, Done
  <2>3. InStep'
    BY <1>1, <2>2 DEF InStep, chainVars
  <2>4. ASSUME NEW h \in Heights, NEW k \in Places
        PROVE  credited[<<1, h, k>>] \in Nat /\ h \in Nat
    BY DEF Entries, Heights
  <2>5. Counted'
    <3> SUFFICES ASSUME NEW h \in Heights, NEW k \in Places, h <= blockHeight + 1,
                        Cashouts[k] \in Indexed, <<1, h, k>> \notin missed
                 PROVE  credited[<<1, h, k>>] >= 1
      BY <1>1, <2>2 DEF Counted
    <3>1. h <= blockHeight \/ (h = blockHeight + 1 /\ k \in Done)
      BY <2>2, <2>4
    <3> QED
      BY <2>1, <3>1 DEF Counted
  <2>6. Bounded'
    <3>1. ASSUME NEW h \in Heights, NEW k \in Places
          PROVE  /\ credited[<<1, h, k>>] <= 1 + again
                 /\ h > blockHeight + 1 => credited[<<1, h, k>>] = 0
      BY <2>1 DEF Bounded
    <3>2. ASSUME NEW h \in Heights, NEW k \in Places
          PROVE  /\ credited[<<1, h, k>>] <= 1 + again'
                 /\ h = blockHeight' + 1 => credited[<<1, h, k>>] <= again'
                 /\ h > blockHeight' + 1 => credited[<<1, h, k>>] = 0
      BY <2>2, <2>4, <3>1
    <3> QED
      BY <3>2 DEF Bounded
  <2> QED
    BY <2>3, <2>5, <2>6
<1> QED
  BY <1>1, <1>2 DEF RewardInv, chainVars

\* The record is made.
LEMMA SaveKeeps == RewardInv /\ Save => RewardInv'
<1> SUFFICES ASSUME RewardInv, Save PROVE RewardInv'
  OBVIOUS
<1>1. faults' \in 0 .. MaxFaults
  BY DEF Save, RewardInv, TypeOK
<1> QED
  BY <1>1, RecordKeeps DEF Save

\* A failed record may have been applied.
LEMMA SaveFailsKeeps == RewardInv /\ SaveFails => RewardInv'
<1> SUFFICES ASSUME RewardInv, SaveFails PROVE RewardInv'
  OBVIOUS
<1>1. faults' \in 0 .. MaxFaults
  BY FaultType DEF SaveFails
<1>2. CASE blockHeight' = blockHeight
  BY <1>1, <1>2, RestartKeeps DEF SaveFails, chainVars
<1>3. CASE blockHeight' = job.height
  BY <1>1, <1>3, RecordKeeps DEF SaveFails
<1> QED
  BY <1>2, <1>3 DEF SaveFails

\* A longer chain has every block that it had.
LEMMA GrowKeeps == RewardInv /\ Grow => RewardInv'
<1> SUFFICES ASSUME RewardInv, Grow PROVE RewardInv'
  OBVIOUS
<1>1. TypeOK' /\ Done' = Done
  BY Types DEF RewardInv, TypeOK, Grow, redisVars, Done
<1>2. chain = 1 => InStep' /\ Counted' /\ Bounded'
  BY <1>1, Types DEF RewardInv, Grow, redisVars, InStep, Counted, Bounded
<1> QED
  BY <1>1, <1>2 DEF RewardInv, Grow

\* RewardInv says no more than the types of a cleaned chain.
LEMMA CleanKeeps == RewardInv /\ Clean => RewardInv'
<1> SUFFICES ASSUME RewardInv, Clean PROVE RewardInv'
  OBVIOUS
<1>1. TypeOK'
  BY Types DEF RewardInv, TypeOK, Clean, Chains, redisVars
<1>2. chain' # 1
  BY Types DEF Clean, Chains
<1> QED
  BY <1>1, <1>2 DEF RewardInv, Clean

\* Every step keeps RewardInv.
LEMMA RewardStep == RewardInv /\ [Next]_vars => RewardInv'
<1> SUFFICES ASSUME RewardInv, [Next]_vars PROVE RewardInv'
  OBVIOUS
<1>1. CASE UNCHANGED vars
  BY <1>1 DEF RewardInv, TypeOK, InStep, Counted, Bounded, Done, vars, redisVars, chainVars
<1>2. CASE Next
  BY <1>2, GetHeightKeeps, GetStatusKeeps, GetRewardKeeps, CreditKeeps, SaveKeeps,
     CallFailsKeeps, CreditFailsKeeps, SaveFailsKeeps, CrashKeeps, GrowKeeps, CleanKeeps
     DEF Next, Round
<1> QED
  BY <1>1, <1>2

\* RewardInv holds in every state.
LEMMA RewardInvariant == Spec => []RewardInv
  BY RewardInit, RewardStep, PTL DEF Spec

-----------------------------------------------------------------------------
\* Every variable has its type: heights stay within the chain's and a cashout
\* in hand is one of its list.
THEOREM RewardTypeCorrect == Spec => []TypeOK
<1>1. RewardInv => TypeOK
  BY DEF RewardInv
<1> QED
  BY <1>1, RewardInvariant, PTL

\* CountedAtLeastOnce, for any list of cashouts, any heights and any number of
\* failures: Start never passes over a block of a chain that is not cleaned.
THEOREM EveryBlockCounted == Spec => []CountedAtLeastOnce
<1>1. RewardInv => CountedAtLeastOnce
  <2> SUFFICES ASSUME RewardInv, chain = 1,
                      NEW h \in 1 .. blockHeight, NEW k \in Places,
                      Cashouts[k] \in Indexed, <<1, h, k>> \notin missed
               PROVE  credited[<<1, h, k>>] >= 1
    BY DEF CountedAtLeastOnce
  <2>1. h \in Heights /\ h <= blockHeight
    BY Types DEF Heights
  <2> QED
    BY <2>1 DEF RewardInv, Counted
<1> QED
  BY <1>1, RewardInvariant, PTL

\* CountedAgainOnlyAfterLoss, likewise: a reward is added twice only because
\* the process died or the height could not be recorded.
THEOREM NoneCountedAgain == Spec => []CountedAgainOnlyAfterLoss
<1>1. RewardInv => CountedAgainOnlyAfterLoss
  BY DEF RewardInv, Bounded, CountedAgainOnlyAfterLoss
<1> QED
  BY <1>1, RewardInvariant, PTL

=============================================================================
