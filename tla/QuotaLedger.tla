------------------------------- MODULE QuotaLedger ------------------------------
(***************************************************************************)
(* What CheckAndReserveQuota and IncrementCallCount of QuotaManager        *)
(* promise together: a customer is allowed a number of calls, charges them *)
(* one by one and may let the rest lapse.  Nothing happens in between.     *)
(*                                                                         *)
(* Three modules implement it, on either side of those functions.  In      *)
(* Quota the statements behind them keep the ledger; in FetchJob the runs, *)
(* and in PostsFetch the script, are its customers.  So the counter that   *)
(* stands for the quota in the latter two is one that Quota provides.      *)
(***************************************************************************)
EXTENDS Integers

CONSTANTS
    Customers,    \* those who are allowed calls and charge them
    Months,       \* each has a ledger of its own
    MonthlyQuota  \* the limit of a month that nobody has changed

VARIABLES
    spent,   \* calls charged, per month
    limit,   \* calls allowed, per month
    credit   \* calls a customer was allowed and has not charged yet

Init ==
    /\ spent = [m \in Months |-> 0]
    /\ limit = [m \in Months |-> MonthlyQuota]
    /\ credit = [c \in Customers |-> 0]

\* A batch is allowed out of what is left of a month, while nobody else has credit.
Reserve(c) ==
    /\ \A d \in Customers \ {c} : credit[d] = 0
    /\ \E m \in Months : credit'[c] \in 1 .. (limit[m] - spent[m])
    /\ credit' = [credit EXCEPT ![c] = credit'[c]]
    /\ UNCHANGED <<spent, limit>>

\* A call is charged to the month in which it is made.
Charge(c) ==
    /\ credit[c] > 0
    /\ credit' = [credit EXCEPT ![c] = @ - 1]
    /\ \E m \in Months : spent' = [spent EXCEPT ![m] = @ + 1]
    /\ UNCHANGED limit

\* Credit lapses: a call has failed, a run is over, a process has died.
Lapse ==
    /\ \A c \in Customers : credit'[c] \in 0 .. credit[c]
    /\ credit' = [c \in Customers |-> credit'[c]]
    /\ UNCHANGED <<spent, limit>>

\* An admin sets the limit of a month, below what was spent if he likes.
ChangeLimit(m) ==
    /\ limit'[m] > 0
    /\ limit' = [limit EXCEPT ![m] = limit'[m]]
    /\ UNCHANGED <<spent, credit>>

Next ==
    \/ \E c \in Customers : Reserve(c) \/ Charge(c)
    \/ Lapse
    \/ \E m \in Months : ChangeLimit(m)

vars == <<spent, limit, credit>>

Spec == Init /\ [][Next]_vars
===============================================================================
