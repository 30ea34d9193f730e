-------------------------- MODULE PartnerStatement --------------------------
(***************************************************************************)
(* What is read from the tables of PartnerMoney: the statement of a        *)
(* partner (earning.service statementFor), the list of what is owed        *)
(* (payout.service outstanding) and the two lists of what was paid.  When  *)
(* a lead was created is left out, and with it the months of a statement   *)
(* that have leads and no earning.                                         *)
(***************************************************************************)
EXTENDS PartnerMoney, Functions

AmountOf(S) == SumFunction([l \in S |-> earning[l].amount])
IsPaid(l) == earning[l].status = "PAID"

\* statementFor: the lines of each month with an earning, and the sums.
LinesOf(p, month) == {l \in Earned : earning[l].partner = p /\ earning[l].month = month}
Split(S) ==
    [count |-> Cardinality(S), total |-> AmountOf(S),
     paid |-> AmountOf({l \in S : IsPaid(l)}), outstanding |-> AmountOf({l \in S : ~IsPaid(l)})]
MonthOf(p, month) ==
    [sums |-> Split(LinesOf(p, month)),
     status |-> IF \A l \in LinesOf(p, month) : IsPaid(l) THEN "PAID" ELSE "AWAITING_PAYMENT"]
StatementFor(p) ==
    [months |-> [month \in {n \in Month : LinesOf(p, n) # {}} |-> MonthOf(p, month)],
     sums |-> Split({l \in Earned : earning[l].partner = p})]

\* owedByPartnerMonth and paidByPartnerMonth: one row per partner and month.
Grouped(S) ==
    {LET p == earning[l].partner  month == earning[l].month  group == S \cap LinesOf(p, month)
     IN  [partner |-> p, month |-> month, amount |-> AmountOf(group), count |-> Cardinality(group)] : l \in S}
OwedByPartnerMonth == Grouped({l \in Earned : ~IsPaid(l)})
PaidByPartnerMonth == Grouped({l \in Earned : IsPaid(l)})
Outstanding == SumFunction([r \in OwedByPartnerMonth |-> r.amount])

-----------------------------------------------------------------------------
\* What a partner reads and what Accounts read is one story: a month of the
\* statement is "Paid" exactly if Accounts are owed nothing for it, the months
\* add up to the statement, the statement to the list of what is owed, and what
\* it calls paid is what payments to the partner were made for.
StatementsAgree ==
    /\ \A p \in Partner : LET s == StatementFor(p) IN
        /\ s.sums.total = SumFunction([m \in DOMAIN s.months |-> s.months[m].sums.total])
        /\ s.sums.paid = SumFunction([k \in {i \in DOMAIN payments : payments[i].partner = p} |-> AmountOf(payments[k].owed)])
        /\ \A month \in DOMAIN s.months :
            /\ s.months[month].status = "PAID" <=> ~\E r \in OwedByPartnerMonth : r.partner = p /\ r.month = month
            /\ \A r \in OwedByPartnerMonth : r.partner = p /\ r.month = month => r.amount = s.months[month].sums.outstanding
            /\ \A r \in PaidByPartnerMonth : r.partner = p /\ r.month = month => r.amount = s.months[month].sums.paid
    /\ Outstanding = SumFunction([p \in Partner |-> StatementFor(p).sums.outstanding])

\* A payment was made for what it settled, and the statements and the lists of
\* the money agree with the payments.
BooksAgree == PaymentCoversItsEarnings /\ StatementsAgree
=============================================================================
