--------------------------- MODULE MCPartnerMoney ---------------------------
(* Small instances of PartnerMoney for TLC.                                *)
EXTENDS PartnerStatement, TLC

CONSTANTS w1, w2, agent, dsa, m1, m2, fast, slow

Workers == {w1, w2}
WorkerSymmetry == Permutations(Workers)

\* The fast plan is repriced in month 2; the slow one is not sold before it.
MCRateCardFast == {[plan |-> fast, from |-> 1, amount |-> 700],
                   [plan |-> fast, from |-> 2, amount |-> 900]}
MCRateCardOne  == {[plan |-> fast, from |-> 1, amount |-> 700]}
=============================================================================
