----------------------------- MODULE MCGame2048 -----------------------------
(* Small instances of the settlement of games for TLC: of two workers, 4 is *)
(* served by one, 3 and 23 by the other.                                    *)
EXTENDS Game2048, FiniteSetsExt, TLC

DigitsOf == [p \in Players |-> IF p = 23 THEN <<2, 3>> ELSE <<p>>]

Body(id, w, l, wcos, lcos, cos) ==
    [id |-> id, winner |-> w, loser |-> l, wcos |-> wcos, lcos |-> lcos, cos |-> cos]

\* Who wins against whom, in two games; the last is against oneself.
Matches == {<<<<1>>, 3, 4>>, <<<<1>>, 3, 23>>, <<<<1, 2>>, 4, 3>>, <<<<2>>, 23, 3>>,
            <<<<3>>, 23, 23>>}

\* What each has after it, and the stake; the last but one make uint64 wrap, in
\* the last nothing is at stake.
Results == {<<1, 2, 1>>, <<2, 0, 1>>, <<1, 31, 2>>, <<0, 1, 2>>, <<2, 1, 0>>}

Reports == {Body(m[1], m[2], m[3], x[1], x[2], x[3]) : m \in Matches, x \in Results}

\* All coins, shared out between the registered players and the official account.
Shares == {[a \in Registered \cup {Official} |->
              IF a = Official THEN Supply - MapThenSumSet(LAMBDA p : c[p], Registered)
                              ELSE c[a]]
           : c \in [Registered -> {0, 1, 4}]}

ReqSymmetry == Permutations(Reqs)

=============================================================================
