-------------------------- MODULE CommissionLedger --------------------------
(***************************************************************************)
(* What the earnings services promise about money, with no requests in it: *)
(* a lead earns at most once, what the rate card says; an earning is       *)
(* withdrawn only while it is owed; a payment settles at one stroke        *)
(* exactly the earnings its amount was made out for, and is never made out *)
(* for nothing.  Once paid, an earning never changes again.                *)
(***************************************************************************)
EXTENDS Naturals, Sequences

CONSTANTS
    Lead,
    Partner,
    Month,
    Fees,    \* what a partner may earn for a plan in a month, with the amount
    None     \* no earning

VARIABLES
    account,   \* the earning of each lead, or None
    payments   \* the payments made, oldest first

vars == <<account, payments>>

Due(p, month) ==
    {l \in Lead : /\ account[l] # None
                  /\ account[l].status = "AWAITING_PAYMENT"
                  /\ account[l].partner = p
                  /\ account[l].month = month}

Earn(l, fee) ==
    /\ account[l] = None
    /\ account' = [account EXCEPT ![l] =
                     [partner |-> fee.partner, plan |-> fee.plan, amount |-> fee.amount,
                      month |-> fee.month, status |-> "AWAITING_PAYMENT", payment |-> 0]]
    /\ UNCHANGED payments

Withdraw(l) ==
    /\ account[l] # None
    /\ account[l].status = "AWAITING_PAYMENT"
    /\ account' = [account EXCEPT ![l] = None]
    /\ UNCHANGED payments

Settle(p, month) ==
    LET due == Due(p, month)
        no  == Len(payments) + 1
    IN  /\ due # {}
        /\ payments' = Append(payments, [partner |-> p, month |-> month, owed |-> due])
        /\ account' = [l \in Lead |->
                         IF l \in due
                         THEN [account[l] EXCEPT !.status = "PAID", !.payment = no]
                         ELSE account[l]]

Init == account = [l \in Lead |-> None] /\ payments = <<>>

Next ==
    \/ \E l \in Lead, fee \in Fees : Earn(l, fee)
    \/ \E l \in Lead : Withdraw(l)
    \/ \E p \in Partner, month \in Month : Settle(p, month)

Spec == Init /\ [][Next]_vars
=============================================================================
