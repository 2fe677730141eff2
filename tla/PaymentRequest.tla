--------------------------- MODULE PaymentRequest ---------------------------
(***************************************************************************)
(* Expense payment requests from submission to payout and back: the rows    *)
(* of payment_requests and expenses, the cash book (treasury_movements and  *)
(* treasury_accounts.balance), the EXPENSE_PAYMENT_GL journals and the      *)
(* accounting period locks.  Handlers run to completion one at a time and   *)
(* each runs in one database transaction, so a handler is one action.       *)
(*                                                                          *)
(* Request handlers: server/controlOps.js.  Payout, reversal, clean-up:     *)
(* server/writeOps.js.  Journals: server/accountingPostingOps.js, with GL   *)
(* posting on (ZAREWA_GL_POSTING_ENABLED, the default).                     *)
(***************************************************************************)
EXTENDS Integers, Sequences, FiniteSets, FiniteSetsExt, Totals

CONSTANTS
    Requests,       \* payment request ids; each also names its own expense
    Memos,          \* expenses posted earlier, without cash, that can be linked
    Loans,          \* requests of approved HR staff loans: payoutRecordMustStay
    Accounts,       \* treasury accounts
    Months,         \* accounting periods
    Users,
    NoUser,
    Exempt,         \* users the two-person rules do not bind (admin, md)
    DualControl,    \* ENFORCE_DUAL_CONTROL_PAYMENTS
    Opening,        \* opening balance of every account
    Amounts,        \* bound: amounts requested and paid
    MaxMovements,   \* bound: cash lines posted in a behaviour
    MaxInsertUpdates, \* bound: submissions and edits in a behaviour
    RolloutDelete,  \* whether the rollout clean-up route is used
    LinkFromList    \* whether requests may link an expense that exists

ASSUME SetsAssumption == /\ Loans \subseteq Requests
                         /\ Requests \cap Memos = {}
                         /\ NoUser \notin Users
                         /\ Exempt \subseteq Users
                         /\ DualControl \in BOOLEAN
ASSUME NumbersAssumption == /\ Opening \in Nat
                            /\ Amounts \subseteq Nat \ {0}
                            /\ Amounts # {} /\ IsFiniteSet(Amounts)
                            /\ MaxMovements \in Nat
                            /\ MaxInsertUpdates \in Nat
                            /\ RolloutDelete \in BOOLEAN
                            /\ LinkFromList \in BOOLEAN

VARIABLES
    pr,         \* payment_requests rows; st is "none" before, "gone" after
    expense,    \* amount_ngn of each expense row, or NoExpense
    cashBook,   \* treasury_movements rows
    balance,    \* treasury_accounts.balance
    journals,   \* gl_journal_entries of payouts and their reversals
    disbursed,  \* loans marked as paid out on the HR side
    locks,      \* accounting_period_locks
    nextId,     \* next treasury movement id
    edits       \* submissions and edits so far

vars == <<pr, expense, cashBook, balance, journals, disbursed, locks, nextId, edits>>

Statuses == {"none", "Pending", "Approved", "Rejected", "Cancelled", "gone"}
Expenses == Requests \cup Memos
NoExpense == -1

NewRequest == [st |-> "none", amount |-> 0, paid |-> 0, exp |-> "", month |-> 0,
               requester |-> NoUser, approver |-> NoUser]

Exists(r) == pr[r].st \notin {"none", "gone"}
Open(m) == m \notin locks                                   \* assertPeriodOpen

\* assertPaymentRequestApproverNotRequester, assertPaymentRequestPayerNotApprover
Apart(u, other) == u \in Exempt \/ u # other
PaidApart(u, approver) == DualControl => Apart(u, approver)

Init == /\ pr = [r \in Requests |-> NewRequest]
        /\ expense = [e \in Expenses |-> IF e \in Memos THEN Max(Amounts) ELSE NoExpense]
        /\ cashBook = {}
        /\ balance = [a \in Accounts |-> Opening]
        /\ journals = {}
        /\ disbursed = {}
        /\ locks = {}
        /\ nextId = 1
        /\ edits = 0

-----------------------------------------------------------------------------
(* Reading the cash book.                                                    *)

Reversed(v) == \E w \in cashBook : w.reverses = v.id
LinesOf(r) == {v \in cashBook : v.req = r}
\* Variant: the query forgets that a line may already have been offset.
LiveLinesUnchecked(r) == {v \in LinesOf(r) : v.amount < 0 /\ v.reverses = 0}
LiveLines(r) == {v \in LinesOf(r) : v.amount < 0 /\ v.reverses = 0 /\ ~Reversed(v)}

LiveOut(r) == -Total(LiveLines(r))

\* Within one naira of the obligation counts as settled.
Tolerance == 1
\* Variant: the tolerance is granted on top of what is owed.
OutstandingLoose(owed, paid) == IF paid >= owed THEN 0 ELSE owed - paid + Tolerance
Outstanding(owed, paid) ==
    IF paid >= owed - Tolerance THEN 0 ELSE owed - paid

AlreadyPaid(r) == Max({pr[r].paid, LiveOut(r)})

LinkedTo(e) == {r \in Requests : Exists(r) /\ pr[r].exp = e}

-----------------------------------------------------------------------------
(* Requests: controlOps.js.                                                  *)

\* assertLinkedExpenseEligibleForPaymentRequest, on an expense without cash.
Linkable(e) ==
    /\ expense[e] # NoExpense
    /\ \A q \in LinkedTo(e) : pr[q].paid = 0 /\ pr[q].st \notin {"Pending", "Approved"}

\* insertPaymentRequest: on a new expense of its own or on any that exists, a memo
\* or the expense of another request.
Insert(r, u, e, amt, m) ==
    /\ pr[r].st = "none" /\ edits < MaxInsertUpdates
    /\ Open(m)
    /\ e = r \/ (LinkFromList /\ e # r /\ Linkable(e))
    /\ pr' = [pr EXCEPT ![r] = [st |-> "Pending", amount |-> amt, paid |-> 0, exp |-> e,
                                month |-> m, requester |-> u, approver |-> NoUser]]
    /\ expense' = IF e = r THEN [expense EXCEPT ![e] = amt] ELSE expense
    /\ edits' = edits + 1
    /\ UNCHANGED <<cashBook, balance, journals, disbursed, locks, nextId>>

\* Variant: an approved request may be edited as well, paid or not.
UpdateApproved(r, amt, m) ==
    /\ pr[r].st \in {"Pending", "Rejected", "Approved"} /\ edits < MaxInsertUpdates
    /\ Open(m)
    /\ pr' = [pr EXCEPT ![r].st = "Pending", ![r].amount = amt, ![r].month = m,
                        ![r].approver = NoUser]
    /\ expense' = IF expense[pr[r].exp] = NoExpense THEN expense
                  ELSE [expense EXCEPT ![pr[r].exp] = amt]
    /\ edits' = edits + 1
    /\ UNCHANGED <<cashBook, balance, journals, disbursed, locks, nextId>>

\* updatePaymentRequest: edits, by anybody, go back to review and clear the
\* approver; the requester stamp stays.
Update(r, amt, m) ==
    /\ pr[r].st \in {"Pending", "Rejected"} /\ edits < MaxInsertUpdates
    /\ Open(m)
    /\ pr' = [pr EXCEPT ![r].st = "Pending", ![r].amount = amt, ![r].month = m,
                        ![r].approver = NoUser]
    /\ expense' = IF expense[pr[r].exp] = NoExpense THEN expense
                  ELSE [expense EXCEPT ![pr[r].exp] = amt]
    /\ edits' = edits + 1
    /\ UNCHANGED <<cashBook, balance, journals, disbursed, locks, nextId>>

\* decidePaymentRequest; m is the month of the decision date.
Decide(r, u, st, m) ==
    /\ pr[r].st = "Pending"
    /\ Apart(u, pr[r].requester)
    /\ Open(m)
    /\ pr' = [pr EXCEPT ![r].st = st, ![r].approver = u]
    /\ UNCHANGED <<expense, cashBook, balance, journals, disbursed, locks, nextId, edits>>

\* cancelApprovedPaymentRequestBeforePay
CancelBeforePay(r, m) ==
    /\ pr[r].st = "Approved" /\ pr[r].paid = 0
    /\ Open(m)
    /\ pr' = [pr EXCEPT ![r].st = "Cancelled"]
    /\ UNCHANGED <<expense, cashBook, balance, journals, disbursed, locks, nextId, edits>>

-----------------------------------------------------------------------------
(* Payout and its undoing: writeOps.js.                                      *)

PayLine == [acct : Accounts, amount : Amounts, month : Months]
PayLines == {<<x>> : x \in PayLine} \cup (PayLine \X PayLine)

LinesTotal(lines) == SumFunction([i \in DOMAIN lines |-> lines[i].amount])
Spent(lines, a) ==
    SumFunction([i \in {j \in DOMAIN lines : lines[j].acct = a} |-> lines[i].amount])

\* Variant: each line is compared with the balance before the first.
AffordableLineByLine(lines) == \A i \in DOMAIN lines : lines[i].amount <= balance[lines[i].acct]
\* adjustTreasuryBalanceTx refuses the outflow that would end below zero.
Affordable(lines) == \A a \in Accounts : Spent(lines, a) <= balance[a]

\* tryPostExpensePaymentGlTx and its reversal: cash moves by v.amount.
Journal(v) == [src |-> v.id, acct |-> v.acct, amount |-> v.amount, month |-> v.month]

\* The cash line of payment line i.
PaidLine(r, u, lines, i) ==
    [id |-> nextId + i - 1, req |-> r, acct |-> lines[i].acct, amount |-> -lines[i].amount,
     month |-> lines[i].month, reverses |-> 0, by |-> u]

\* payPaymentRequest: one cash line and one journal per payment line.
Pay(r, u, lines) ==
    LET created == {PaidLine(r, u, lines, i) : i \in DOMAIN lines}
        nextPaid == AlreadyPaid(r) + LinesTotal(lines)
    IN  /\ pr[r].st = "Approved"
        /\ PaidApart(u, pr[r].approver)
        /\ LinesTotal(lines) <= Outstanding(pr[r].amount, AlreadyPaid(r))
        /\ \A i \in DOMAIN lines : Open(lines[i].month)
        /\ Affordable(lines)
        /\ nextId + Len(lines) - 1 <= MaxMovements
        /\ cashBook' = cashBook \cup created
        /\ balance' = [a \in Accounts |-> balance[a] - Spent(lines, a)]
        /\ journals' = journals \cup {Journal(v) : v \in created}
        /\ pr' = [pr EXCEPT ![r].paid = nextPaid]
        /\ disbursed' = IF r \in Loans /\ nextPaid >= pr[r].amount
                        THEN disbursed \cup {r} ELSE disbursed
        /\ nextId' = nextId + Len(lines)
        /\ UNCHANGED <<expense, locks, edits>>

\* Variant: an expense goes with any of its requests.
ExpenseAfterAnyDelete(r) == [expense EXCEPT ![pr[r].exp] = NoExpense]
\* deleteExpenseAndRequestTx: the expense goes with its last request.
ExpenseAfterDelete(r) ==
    IF LinkedTo(pr[r].exp) = {r} THEN [expense EXCEPT ![pr[r].exp] = NoExpense] ELSE expense

\* Variant: the line is deleted and the account left alone.
RemovedFromBookOnly(bal, gone) == bal
\* removeTreasuryLineTx on each line of gone: the cash goes back to the account
\* and the line's journals are deleted with it.
RemovedFrom(bal, gone) ==
    [a \in Accounts |-> bal[a] - Total({v \in gone : v.acct = a})]
JournalsWithout(gone) == {j \in journals : \A v \in gone : v.id # j.src}

\* The line posted today, in month m, to offset a line of a locked month.
Offset(v, locked, u, m) ==
    [id |-> nextId + Cardinality({w \in locked : w.id < v.id}), req |-> v.req,
     acct |-> v.acct, amount |-> -v.amount, month |-> m, reverses |-> v.id, by |-> u]

\* Live lines of open months are removed, those of locked months are offset; when
\* nothing of the request is locked, its older lines and offsets go as well.
LockedLines(r) == {v \in LiveLines(r) : ~Open(v.month)}
\* Variant: the months of the older lines are not looked at.
RemovableLinesUnchecked(r) ==
    IF LockedLines(r) = {} THEN LinesOf(r) ELSE LiveLines(r) \ LockedLines(r)
RemovableLines(r) ==
    IF \A v \in LinesOf(r) : Open(v.month) THEN LinesOf(r)
    ELSE LiveLines(r) \ LockedLines(r)

\* What the reversal makes of the request.  A loan's request stays, unpaid; any
\* other is cancelled when a locked month shows its payout, and deleted if not.
\* Variants: the paid amount, or the mark of the loan, is left behind.
ResetLoanKeepsPaid(r) ==
    disbursed' = disbursed \ {r} /\ UNCHANGED <<pr, expense>>
ResetLoanKeepsMark(r) ==
    pr' = [pr EXCEPT ![r].paid = 0] /\ UNCHANGED <<expense, disbursed>>
ResetLoan(r) == /\ pr' = [pr EXCEPT ![r].paid = 0]
                /\ disbursed' = disbursed \ {r}
                /\ UNCHANGED expense
CancelRequestKeepsPaid(r) == /\ pr' = [pr EXCEPT ![r].st = "Cancelled"]
                             /\ expense' = [expense EXCEPT ![pr[r].exp] = 0]
                             /\ UNCHANGED disbursed
CancelRequest(r) == /\ pr' = [pr EXCEPT ![r].paid = 0, ![r].st = "Cancelled"]
                    /\ expense' = [expense EXCEPT ![pr[r].exp] = 0]
                    /\ UNCHANGED disbursed
DeleteRequest(r) == /\ pr' = [pr EXCEPT ![r] = [NewRequest EXCEPT !.st = "gone"]]
                    /\ expense' = ExpenseAfterDelete(r)
                    /\ UNCHANGED disbursed

\* reversePaymentRequestTreasuryPayouts, dated in month m.
Reverse(r, u, m) ==
    LET locked == LockedLines(r)
        gone == RemovableLines(r)
        offsets == {Offset(v, locked, u, m) : v \in locked}
    IN  /\ Exists(r) /\ LinesOf(r) # {}
        /\ locked # {} => Open(m)
        /\ nextId + Cardinality(locked) - 1 <= MaxMovements
        /\ cashBook' = (cashBook \ gone) \cup offsets
        /\ balance' = [a \in Accounts |-> RemovedFrom(balance, gone)[a]
                                          + Total({v \in offsets : v.acct = a})]
        /\ journals' = JournalsWithout(gone) \cup {Journal(v) : v \in offsets}
        /\ nextId' = nextId + Cardinality(locked)
        /\ \/ r \in Loans /\ ResetLoan(r)
           \/ r \notin Loans /\ locked # {} /\ CancelRequest(r)
           \/ r \notin Loans /\ locked = {} /\ DeleteRequest(r)
        /\ UNCHANGED <<locks, edits>>

\* clearReversedPaymentRequestPayoutLines: the pairs that cancel out go.
ClearReversed(r) ==
    LET pairs == LinesOf(r) \ LiveLines(r)
    IN  /\ Exists(r) /\ pairs # {}
        /\ \A v \in pairs : Open(v.month)
        /\ cashBook' = cashBook \ pairs
        /\ balance' = RemovedFrom(balance, pairs)
        /\ journals' = JournalsWithout(pairs)
        /\ IF LiveLines(r) = {} /\ r \notin Loans
           THEN DeleteRequest(r)
           ELSE UNCHANGED <<pr, expense, disbursed>>
        /\ UNCHANGED <<locks, nextId, edits>>

\* Variant: the clean-up does not look at paid_amount_ngn.
DeleteRolloutDupPaid(r) ==
    /\ RolloutDelete
    /\ Exists(r)
    /\ Open(pr[r].month)
    /\ cashBook' = cashBook \ LinesOf(r)
    /\ pr' = [pr EXCEPT ![r] = [NewRequest EXCEPT !.st = "gone"]]
    /\ expense' = IF pr[r].exp \in Memos THEN expense ELSE ExpenseAfterDelete(r)
    /\ UNCHANGED <<balance, journals, disbursed, locks, nextId, edits>>

\* deletePaymentRequestRolloutDup: lines are deleted as they are, with no
\* movement of the balance and no journal; only a placeholder expense goes.
DeleteRolloutDup(r) ==
    /\ RolloutDelete
    /\ Exists(r) /\ pr[r].paid = 0
    /\ Open(pr[r].month)
    /\ cashBook' = cashBook \ LinesOf(r)
    /\ pr' = [pr EXCEPT ![r] = [NewRequest EXCEPT !.st = "gone"]]
    /\ expense' = IF pr[r].exp \in Memos THEN expense ELSE ExpenseAfterDelete(r)
    /\ UNCHANGED <<balance, journals, disbursed, locks, nextId, edits>>

-----------------------------------------------------------------------------
(* Period locks: lockAccountingPeriod and unlockAccountingPeriod.            *)

Lock(m) == /\ Open(m)
           /\ locks' = locks \cup {m}
           /\ UNCHANGED <<pr, expense, cashBook, balance, journals, disbursed, nextId, edits>>

Unlock(m) == /\ ~Open(m)
             /\ locks' = locks \ {m}
             /\ UNCHANGED <<pr, expense, cashBook, balance, journals, disbursed, nextId, edits>>

Next ==
    \/ \E r \in Requests, u \in Users, e \in Expenses, amt \in Amounts, m \in Months :
          Insert(r, u, e, amt, m)
    \/ \E r \in Requests, amt \in Amounts, m \in Months : Update(r, amt, m)
    \/ \E r \in Requests, u \in Users, st \in {"Approved", "Rejected"}, m \in Months :
          Decide(r, u, st, m)
    \/ \E r \in Requests, m \in Months : CancelBeforePay(r, m)
    \/ \E r \in Requests, u \in Users, lines \in PayLines : Pay(r, u, lines)
    \/ \E r \in Requests, u \in Users, m \in Months : Reverse(r, u, m)
    \/ \E r \in Requests : ClearReversed(r) \/ DeleteRolloutDup(r)
    \/ \E m \in Months : Lock(m) \/ Unlock(m)

Spec == Init /\ [][Next]_vars

-----------------------------------------------------------------------------
(* Properties.                                                               *)

Movement == [id : 1..MaxMovements, req : Requests, acct : Accounts, amount : Int,
             month : Months, reverses : 0..MaxMovements, by : Users]
JournalType == [src : 1..MaxMovements, acct : Accounts, amount : Int, month : Months]

(* The rows have the shape of their tables, and no account is overdrawn: no
   outflow, split over several lines or not, ends below zero. *)
TypeOK ==
    /\ pr \in [Requests -> [st : Statuses, amount : Nat, paid : Nat,
                            exp : Expenses \cup {""}, month : Months \cup {0},
                            requester : Users \cup {NoUser},
                            approver : Users \cup {NoUser}]]
    /\ expense \in [Expenses -> Nat \cup {NoExpense}]
    /\ cashBook \subseteq Movement
    /\ balance \in [Accounts -> Nat]
    /\ journals \subseteq JournalType
    /\ disbursed \subseteq Requests
    /\ locks \subseteq Months
    /\ nextId \in 1..(MaxMovements + 1)
    /\ edits \in 0..MaxInsertUpdates

(* Every account's stored balance is its opening balance plus the lines on its
   cash book, and the ledger's cash agrees, however lines were posted, offset,
   deleted in pairs or deleted without touching the balance. *)
CashBookTotals ==
    \A a \in Accounts :
        /\ balance[a] = Opening + Total({v \in cashBook : v.acct = a})
        /\ balance[a] = Opening + Total({j \in journals : j.acct = a})

(* paid_amount_ngn of a request is the cash that actually left for it and was
   not taken back; only an approved request has any. *)
PaidIsLiveCash ==
    \A r \in Requests :
        /\ pr[r].paid = LiveOut(r)
        /\ pr[r].st # "Approved" => pr[r].paid = 0

(* The cash that left never exceeds what the approver saw. *)
WithinApproval == \A r \in Requests : LiveOut(r) <= pr[r].amount

(* A cash line is offset at most once, by a line of the opposite amount on the
   same account, dated no matter when. *)
OffsetOnce ==
    \A v, w \in cashBook :
        w.reverses # 0 =>
            /\ w.reverses = v.id => w.acct = v.acct /\ w.amount = -v.amount
            /\ w.reverses = v.reverses => w = v

(* Cash that is out stands under an approver who is not the requester and, under
   dual control, did not pay any of it himself, the exempt roles aside, however
   often the request was rejected, edited and decided again.  The requester may
   pay, and whoever edited the request may approve it. *)
SeparationOfDuties ==
    \A r \in Requests : \A v \in LiveLines(r) :
        /\ Apart(pr[r].approver, pr[r].requester)
        /\ PaidApart(v.by, pr[r].approver)

(* A loan is marked as disbursed only while its whole amount is out. *)
DisbursedIsFunded == \A r \in disbursed : LiveOut(r) >= pr[r].amount

(* A request on file always has the expense it was raised on, also when several
   requests were raised on one expense and some of them were deleted. *)
LinkedExpenseExists == \A r \in Requests : Exists(r) => expense[pr[r].exp] # NoExpense

(* What a locked month shows stays as it is while the month is locked. *)
InLocked(S, L) == {x \in S : x.month \in L}
KeepsLockedMonths ==
    LET L == locks \cap locks'
    IN  /\ InLocked(cashBook', L) = InLocked(cashBook, L)
        /\ InLocked(journals', L) = InLocked(journals, L)
LockedBookIsFrozen == [][KeepsLockedMonths]_vars

(* Two requests that can still be paid never share one expense. *)
OnePayableRequestPerExpense ==
    \A q, r \in Requests :
        /\ q # r /\ pr[q].exp = pr[r].exp
        /\ pr[q].st \in {"Pending", "Approved"} /\ pr[r].st \in {"Pending", "Approved"}
        => FALSE

(* A request is settled, within the naira of tolerance, only when its loan is
   marked as disbursed: nothing more can be paid on it. *)
SettledLoanIsDisbursed ==
    \A r \in Loans :
        pr[r].st = "Approved" /\ pr[r].paid > 0 /\ Outstanding(pr[r].amount, pr[r].paid) = 0
        => r \in disbursed
=============================================================================
