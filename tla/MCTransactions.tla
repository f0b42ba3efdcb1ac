--------------------------- MODULE MCTransactions ---------------------------
(***************************************************************************)
(* A small instance of Transactions, with the tables of MCAstraxis except  *)
(* that everything is built in a second (so that all of it may happen      *)
(* within the horizon) and that a mine yields nothing at its first level   *)
(* (so that its finish and a new factor both change the rate).             *)
(***************************************************************************)
EXTENDS Transactions, MCAstraxis

QuickBuild == [k \in Buildings |-> [n \in 0 .. MaxLevel |-> 1]]
QuickTech ==
  [t \in Techs |-> [n \in 0 .. MaxLevel |-> [lv \in AnyLevelMap |-> 1]]]
LowRate == [lv \in AnyLevelMap |-> [f \in [Mines -> Factors] |->
             [r \in Resources |->
                IF lv["metal_mine"] > 1 THEN f["metal_mine"] \div 100 ELSE 0]]]

\* Every kind of request.
EveryKind ==
  Orders \cup {Overview(pl) : pl \in Planets}
  \cup {SetFactor(pl, k, 0) : pl \in Planets, k \in Mines}

\* Bound: one job at most has stalled or failed.
Troubled(i) ==
  job[i] # NoJob /\ (job[i].stalls > 0 \/ job[i].state = "failed")
OneTrouble == \A i, j \in ItemIds : Troubled(i) /\ Troubled(j) => i = j
=============================================================================
