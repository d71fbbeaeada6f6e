----------------------------- MODULE RewardJob ------------------------------
(***************************************************************************)
(* The reward job: it follows the irreversible blocks of the chain one     *)
(* height at a time, credits every cashout of a block to a user in redis,  *)
(* and records the height.  The process may die between any two commands;  *)
(* the chain of the test net may be cleaned and grow again from nothing.   *)
(***************************************************************************)
EXTENDS Naturals, Sequences, FiniteSets

CONSTANTS
    Names,       \* account names that cash out
    Cashouts,    \* the CashoutList of a block: the names, in order
    Indexed,     \* names that redis has an id for (no code under src writes one)
    MaxHeight,   \* bound on the height of the chain
    MaxChains,   \* bound on the number of chains, one more than cleanings
    FaultKinds,  \* the failures that may happen: subset of AllFaults
    MaxFaults    \* bound on the number of failures

AllFaults == {"query", "credit", "save", "crash"}
Chains    == 1 .. MaxChains
Heights   == 1 .. MaxHeight
Places    == 1 .. Len(Cashouts)

\* A cashout: the chain, the block and the place in its list.
Entries == Chains \X Heights \X Places

ASSUME RewardAssumption ==
    /\ Cashouts \in Seq(Names)
    /\ Indexed \subseteq Names
    /\ MaxHeight \in Nat \ {0}
    /\ MaxChains \in Nat \ {0}
    /\ FaultKinds \subseteq AllFaults
    /\ MaxFaults \in Nat

VARIABLES
    blockHeight,   \* redis: the height whose rewards are counted, 0 at first
    credited,      \* redis: how often each cashout was added to its user's reward
    chain,         \* chain: which one it is
    irreversible,  \* chain: LastIrreversibleBlockNumber
    job,           \* what the job is doing
    missed,        \* history: cashouts whose AddReward failed
    again,         \* history: failures after which a block may be counted again
    faults         \* number of failures so far

redisVars == <<blockHeight, credited>>
chainVars == <<chain, irreversible>>
vars == <<redisVars, chainVars, job, missed, again, faults>>

\* height is the local variable of Start, list the chain that answered
\* GetReward, k the next cashout of its list.
JobStates == [pc: {"height", "status", "reward", "credit", "save"},
              height: 0 .. MaxHeight, list: Chains, k: Nat]

TypeOK ==
    /\ blockHeight \in 0 .. MaxHeight
    /\ credited \in [Entries -> Nat]
    /\ chain \in Chains
    /\ irreversible \in 0 .. MaxHeight
    /\ job \in JobStates
    /\ missed \subseteq Entries
    /\ again \in Nat
    /\ faults \in 0 .. MaxFaults

Waiting == [pc |-> "height", height |-> 0, list |-> 1, k |-> 0]

Init ==
    /\ blockHeight = 0
    /\ credited = [e \in Entries |-> 0]
    /\ chain = 1
    /\ irreversible = 0
    /\ job = Waiting
    /\ missed = {}
    /\ again = 0
    /\ faults = 0

Fault(kind) == /\ kind \in FaultKinds
               /\ faults < MaxFaults
               /\ faults' = faults + 1

-----------------------------------------------------------------------------
(* One round of Start.                                                      *)

\* getBlockHeight; an error only begins the round again.
GetHeight ==
    /\ job.pc = "height"
    /\ job' = [job EXCEPT !.pc = "status", !.height = blockHeight]
    /\ UNCHANGED <<redisVars, chainVars, missed, again, faults>>

\* Mutant of Following: a cleaned chain is not noticed.
FollowingOn(h) == h + 1

\* The height after h; one above the chain's own means that it was cleaned.
Following(h) == IF h > irreversible THEN 1 ELSE h + 1

\* Mutant of GetStatus: a height above the chain's own is waited for.
GetStatusWaits ==
    /\ job.pc = "status"
    /\ job' = IF job.height >= irreversible
              THEN Waiting
              ELSE [job EXCEPT !.pc = "reward", !.height = Following(job.height)]
    /\ UNCHANGED <<redisVars, chainVars, missed, again, faults>>

\* GetStatisticsInfo
GetStatus ==
    /\ job.pc = "status"
    /\ job' = IF job.height = irreversible
              THEN Waiting
              ELSE [job EXCEPT !.pc = "reward", !.height = Following(job.height)]
    /\ UNCHANGED <<redisVars, chainVars, missed, again, faults>>

\* Mutant of CallFails: a block whose query failed is recorded as counted.
CallFailsOn ==
    /\ job.pc \in {"status", "reward"}
    /\ Fault("query")
    /\ job' = [job EXCEPT !.pc = "save"]
    /\ UNCHANGED <<redisVars, chainVars, missed, again>>

\* A call of the chain fails: nothing is recorded, the round begins again.
CallFails ==
    /\ job.pc \in {"status", "reward"}
    /\ Fault("query")
    /\ job' = Waiting
    /\ UNCHANGED <<redisVars, chainVars, missed, again>>

\* GetReward.  The chain has the block, unless it was cleaned since it
\* told its height: then its answer is an empty list or an error.
GetReward ==
    /\ job.pc = "reward"
    /\ \/ /\ job.height <= irreversible
          /\ job' = [job EXCEPT !.pc = IF Cashouts = <<>> THEN "save" ELSE "credit",
                                !.list = chain, !.k = 1]
       \/ /\ job.height > irreversible
          /\ \/ job' = [job EXCEPT !.pc = "save"]
             \/ job' = Waiting
    /\ UNCHANGED <<redisVars, chainVars, missed, again, faults>>

NextCashout ==
    job' = IF job.k < Len(Cashouts) THEN [job EXCEPT !.k = @ + 1]
                                    ELSE [job EXCEPT !.pc = "save"]

Cashout == <<job.list, job.height, job.k>>

\* GETId and AddReward
Credit ==
    /\ job.pc = "credit"
    /\ credited' = IF Cashouts[job.k] \in Indexed
                   THEN [credited EXCEPT ![Cashout] = @ + 1]
                   ELSE credited
    /\ NextCashout
    /\ UNCHANGED <<blockHeight, chainVars, missed, again, faults>>

\* Mutant of CreditFails: the cashout is tried again.
CreditFailsRetries ==
    /\ job.pc = "credit"
    /\ Fault("credit")
    /\ \/ UNCHANGED credited
       \/ /\ Cashouts[job.k] \in Indexed
          /\ credited' = [credited EXCEPT ![Cashout] = @ + 1]
    /\ UNCHANGED <<blockHeight, chainVars, job, missed, again>>

\* Either fails and the cashout is skipped; AddReward may have been applied.
CreditFails ==
    /\ job.pc = "credit"
    /\ Fault("credit")
    /\ \/ UNCHANGED credited
       \/ /\ Cashouts[job.k] \in Indexed
          /\ credited' = [credited EXCEPT ![Cashout] = @ + 1]
    /\ missed' = missed \cup {Cashout}
    /\ NextCashout
    /\ UNCHANGED <<blockHeight, chainVars, again>>

\* setBlockHeight
Save ==
    /\ job.pc = "save"
    /\ blockHeight' = job.height
    /\ job' = Waiting
    /\ UNCHANGED <<credited, chainVars, missed, again, faults>>

\* Its error is only logged; the SET may have been applied.
SaveFails ==
    /\ job.pc = "save"
    /\ Fault("save")
    /\ blockHeight' \in {blockHeight, job.height}
    /\ job' = Waiting
    /\ again' = again + 1
    /\ UNCHANGED <<credited, chainVars, missed>>

\* The process dies and is started again.
Crash ==
    /\ Fault("crash")
    /\ job' = Waiting
    /\ again' = again + 1
    /\ UNCHANGED <<redisVars, chainVars, missed>>

-----------------------------------------------------------------------------
(* The chain.                                                               *)

Grow ==
    /\ irreversible < MaxHeight
    /\ irreversible' = irreversible + 1
    /\ UNCHANGED <<redisVars, chain, job, missed, again, faults>>

\* The chain is cleaned: another one starts with its first block.
Clean ==
    /\ chain < MaxChains
    /\ chain' = chain + 1
    /\ irreversible' \in {0, 1}
    /\ UNCHANGED <<redisVars, job, missed, again, faults>>

Round == GetHeight \/ GetStatus \/ GetReward \/ Credit \/ Save
         \/ CallFails \/ CreditFails \/ SaveFails

Next == Round \/ Crash \/ Grow \/ Clean

Spec == Init /\ [][Next]_vars

\* The job's goroutine is scheduled, and its node answers in the end.
FairSpec == Spec /\ WF_vars(Round)

-----------------------------------------------------------------------------
\* While the chain is not cleaned, every cashout of a counted block has been
\* added to the reward of its user, unless adding it failed: neither a failed
\* query nor a crash makes the job pass over a block.
CountedAtLeastOnce ==
    chain = 1 =>
        \A h \in 1 .. blockHeight, k \in Places :
            Cashouts[k] \in Indexed /\ <<1, h, k>> \notin missed
                => credited[<<1, h, k>>] >= 1

\* While the chain is not cleaned, a cashout is added once more at most for
\* every crash or failed record of the height, and never for a failed query
\* or a failed AddReward.
CountedAgainOnlyAfterLoss ==
    chain = 1 =>
        \A h \in Heights, k \in Places :
            credited[<<1, h, k>>] <= 1 + again

\* The recorded height catches up with the chain once that has a block, and
\* turns back with it when it is cleaned.
CatchesUp ==
    <>[](irreversible > 0) => []<>(blockHeight = irreversible)

=============================================================================
