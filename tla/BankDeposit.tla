---------------------------- MODULE BankDeposit -----------------------------
(***************************************************************************)
(* The pool of unlinked bank deposits: Finance registers money seen on the  *)
(* bank statement, Sales links it to a customer receipt or advance, and     *)
(* Finance merges, reverses or reclassifies what turns out otherwise.  One  *)
(* branch and one treasury account.  Each handler runs to completion, its   *)
(* writes in one database transaction, so a handler is one action.          *)
(*                                                                         *)
(* Pool: server/bankDepositOps.js.  Journals: server/glOps.js, with GL      *)
(* posting on.  Receipts and advances: server/httpApi.js and                *)
(* server/writeOps.js; both are "entries" here, as the pool treats them     *)
(* alike, and an advance is reversed before any of it is applied.           *)
(***************************************************************************)
EXTENDS Integers, Sequences, FiniteSets, FiniteSetsExt, Totals

CONSTANTS
    Deposits,       \* bank deposit ids
    SameLine,       \* deposits registered under one and the same bank reference
    Entries,        \* ids of ledger entries: receipts and advances
    Users,
    NoUser,
    NoId,           \* in a journal or a request: no deposit, no entry
    Months,         \* accounting periods
    DepositAmounts, \* bound: amounts of deposits
    EntryAmounts,   \* bound: amounts of receipts and advances
    PayoutAmounts,  \* bound: amounts of payouts
    Payouts,        \* bound: payouts of other handlers from the account
    ForceUnlinked   \* whether clerks override the unlinked-deposit guard

ASSUME PoolAssumption == /\ SameLine \subseteq Deposits
                         /\ Deposits \cap Entries = {}
                         /\ NoUser \notin Users
                         /\ Payouts \cap (Deposits \cup Entries) = {}
                         /\ NoId \notin Deposits \cup Entries \cup Payouts
                         /\ DepositAmounts \cup EntryAmounts \cup PayoutAmounts \subseteq Nat \ {0}
                         /\ ForceUnlinked \in BOOLEAN

VARIABLES
    dep,        \* bank_deposits rows; by and expired are the reservation
    ent,        \* ledger_entries rows; st also tells a posted reversal
    links,      \* bank_deposit_allocations rows
    lines,      \* treasury_movements: line i of src, or the offset of it
    till,       \* treasury_accounts.balance
    journals,   \* gl_journal_entries, by source kind and source id
    locks       \* accounting_period_locks

vars == <<dep, ent, links, lines, till, journals, locks>>

Terminal == {"REVERSED", "RECLASSED"}
Statuses == {"none", "OPEN", "RESERVED", "PARTIAL", "ALLOCATED"} \cup Terminal
Kinds == {"register", "alloc", "reverse", "reclass", "refundOut", "receipt",
          "receiptReversal", "merge", "spend"}

NewDeposit == [st |-> "none", amount |-> 0, alloc |-> 0, month |-> 0,
               by |-> NoUser, expired |-> FALSE]
NewEntry == [st |-> "none", amount |-> 0]

Open(m) == m \notin locks                                   \* assertPeriodOpen

Init == /\ dep = [d \in Deposits |-> NewDeposit]
        /\ ent = [e \in Entries |-> NewEntry]
        /\ links = {}
        /\ lines = {}
        /\ till = 0
        /\ journals = {}
        /\ locks = {}

-----------------------------------------------------------------------------
(* Cash lines and journals.                                                  *)

CashLine(src, i, amt, m) ==
    [src |-> src, i |-> i, amount |-> amt, month |-> m, offset |-> FALSE]
Offset(v, m) == [v EXCEPT !.amount = -@, !.month = m, !.offset = TRUE]

LiveLines(src) ==
    {v \in lines : /\ v.src = src /\ ~v.offset
                   /\ ~\E w \in lines : w.offset /\ w.src = src /\ w.i = v.i}

\* Variant: the balance is allowed to go negative.
ReverseCashAnyway(src, m) ==
    /\ lines' = lines \cup {Offset(v, m) : v \in LiveLines(src)}
    /\ till' = till - Total(LiveLines(src))
\* reverseTreasurySourceTx: every live line of src is offset, dated in month m;
\* refused if the account would end below zero.
ReverseCash(src, m) ==
    /\ Total(LiveLines(src)) <= till
    /\ lines' = lines \cup {Offset(v, m) : v \in LiveLines(src)}
    /\ till' = till - Total(LiveLines(src))

Journal(kind, d, e, amt, m) ==
    [kind |-> kind, dep |-> d, ent |-> e, amount |-> amt, month |-> m]

-----------------------------------------------------------------------------
(* Reservation.                                                              *)

Remaining(d) == dep[d].amount - dep[d].alloc

\* Variant: a deposit linked to the last naira still counts as partly linked.
StatusOfStrict(amt, alloc) == IF alloc > amt THEN "ALLOCATED"
                              ELSE IF alloc > 0 THEN "PARTIAL" ELSE "OPEN"
\* refreshDepositStatus: the status that goes with the allocated amount.
StatusOf(amt, alloc) == IF alloc >= amt THEN "ALLOCATED"
                        ELSE IF alloc > 0 THEN "PARTIAL" ELSE "OPEN"
Refreshed(row) == [row EXCEPT !.st = StatusOf(row.amount, row.alloc),
                              !.by = NoUser, !.expired = FALSE]

\* Variant: a reservation binds only until somebody else comes along.
LinkableByAnyone(d, u, amt) ==
    /\ dep[d].st \notin Terminal \cup {"none", "ALLOCATED"}
    /\ Remaining(d) > 0 /\ amt <= Remaining(d)
\* assertDepositLinkable
Linkable(d, u, amt) ==
    /\ dep[d].st \notin Terminal \cup {"none", "ALLOCATED"}
    /\ Remaining(d) > 0 /\ amt <= Remaining(d)
    /\ dep[d].st = "RESERVED" => dep[d].expired \/ dep[d].by = u

\* reserveBankDeposit: for a quarter of an hour.
Reserve(d, u) ==
    /\ Linkable(d, u, 0)
    /\ dep' = [dep EXCEPT ![d].st = "RESERVED", ![d].by = u, ![d].expired = FALSE]
    /\ UNCHANGED <<ent, links, lines, till, journals, locks>>

\* The quarter of an hour passes.
ReservationLapses(d) ==
    /\ dep[d].st = "RESERVED" /\ ~dep[d].expired
    /\ dep' = [dep EXCEPT ![d].expired = TRUE]
    /\ UNCHANGED <<ent, links, lines, till, journals, locks>>

\* releaseBankDepositReservation
ReleaseReservation(d, u) ==
    /\ dep[d].st = "RESERVED" /\ dep[d].by = u
    /\ dep' = [dep EXCEPT ![d] = Refreshed(dep[d])]
    /\ UNCHANGED <<ent, links, lines, till, journals, locks>>

-----------------------------------------------------------------------------
(* Registering, linking and posting.                                         *)

\* Variant: any deposit that left the pool gives its reference free.
ReferenceFreeOnceClosed(d) ==
    d \in SameLine => \A x \in SameLine \ {d} : dep[x].st \in Terminal \cup {"none"}
ReferenceFree(d) ==
    d \in SameLine => \A x \in SameLine \ {d} : dep[x].st \in {"none", "REVERSED"}

\* registerBankDeposit, dated in month m of the bank statement.
Register(d, amt, m) ==
    /\ dep[d].st = "none"
    /\ Open(m)
    /\ ReferenceFree(d)
    /\ dep' = [dep EXCEPT ![d] = [NewDeposit EXCEPT !.st = "OPEN", !.amount = amt,
                                                    !.month = m]]
    /\ lines' = lines \cup {CashLine(d, 1, amt, m)}
    /\ till' = till + amt
    /\ journals' = journals \cup {Journal("register", d, NoId, amt, m)}
    /\ UNCHANGED <<ent, links, locks>>

\* Variant: the link is recorded and the deposit's allocated amount forgotten.
AllocatedNotCounted(d, amt) == Refreshed(dep[d])
Allocated(d, amt) == Refreshed([dep[d] EXCEPT !.alloc = @ + amt])

\* allocateBankDepositTx; its journal is dated like the deposit.
Allocate(d, e, u, amt) ==
    /\ Linkable(d, u, amt)
    /\ Open(dep[d].month)
    /\ dep' = [dep EXCEPT ![d] = Allocated(d, amt)]
    /\ links' = links \cup {[dep |-> d, ent |-> e, amount |-> amt, by |-> u]}
AllocationJournal(d, e, amt) == Journal("alloc", d, e, amt, dep[d].month)

\* The payment lines that make up the cash due, at most two.
Splits(due) == IF due = 0 THEN {<<>>}
               ELSE {<<due>>} \cup {<<x, due - x>> : x \in 1..(due - 1)}

\* guardUnlinkedBankTillDoubleCount
UnlinkedGuard(amt) ==
    \/ ForceUnlinked
    \/ \A d \in Deposits : dep[d].st \in {"OPEN", "PARTIAL", "RESERVED"} => dep[d].amount # amt

\* Variant: the deposit covers the receipt and the lines are its whole amount.
CashDueInFull(amt, cover) == amt
CashDue(amt, cover) == amt - cover

\* Posting a receipt or an advance of month m, covered as far as possible by
\* deposit d, the rest paid into the account.  The receipt's journal debits cash
\* with the whole amount.
PostCovered(e, u, d, amt, m, parts, cover) ==
    /\ ent[e].st = "none"
    /\ Open(m)
    /\ IF d = NoId
       THEN UnlinkedGuard(amt) /\ UNCHANGED <<dep, links>>
       ELSE cover > 0 /\ Allocate(d, e, u, cover)
    /\ parts \in Splits(CashDue(amt, cover))
    /\ ent' = [ent EXCEPT ![e] = [st |-> "posted", amount |-> amt]]
    /\ lines' = lines \cup {CashLine(e, i, parts[i], m) : i \in DOMAIN parts}
    /\ till' = till + CashDue(amt, cover)
    /\ journals' = journals \cup {Journal("receipt", NoId, e, amt, m)}
                            \cup (IF d = NoId THEN {} ELSE {AllocationJournal(d, e, cover)})
    /\ UNCHANGED locks
Cover(d, amt) == IF d = NoId THEN 0 ELSE Min({amt, Remaining(d)})
Post(e, u, d, amt, m, parts) == PostCovered(e, u, d, amt, m, parts, Cover(d, amt))

\* reverseReceiptEntry, reverseAdvanceEntry: today is in month m.  Links to
\* deposits stay.
ReverseEntry(e, m) ==
    /\ ent[e].st = "posted"
    /\ Open(m)
    /\ ReverseCash(e, m)
    /\ ent' = [ent EXCEPT ![e].st = "reversed"]
    /\ journals' = journals \cup {Journal("receiptReversal", NoId, e, ent[e].amount, m)}
    /\ UNCHANGED <<dep, links, locks>>

-----------------------------------------------------------------------------
(* Merging, reversing and reclassifying.                                     *)

\* listBankDepositDuplicateExceptions: dates within two days lie in the same
\* month or in adjacent ones.
Mergeable(d, e) ==
    /\ dep[d].st \in {"OPEN", "PARTIAL", "RESERVED"} /\ Remaining(d) > 0
    /\ \A l \in links : l.ent # e
    /\ \E v \in LiveLines(e) : v.amount = dep[d].amount /\ v.month - dep[d].month \in -1..1

\* mergeBankDepositDuplicate
Merge(d, e, u) ==
    LET amt == Min({Remaining(d), ent[e].amount})
    IN  /\ Mergeable(d, e)
        /\ Allocate(d, e, u, amt)
        /\ ReverseCash(e, dep[d].month)
        /\ journals' = journals \cup {AllocationJournal(d, e, amt),
                                      Journal("merge", d, e, amt, dep[d].month)}
        /\ UNCHANGED <<ent, locks>>

\* Variant: what is already linked is not looked at.
ClosableThoughLinked(d) == dep[d].st \notin Terminal \cup {"none"}
Closable(d) == dep[d].st \notin Terminal \cup {"none"} /\ dep[d].alloc = 0
Closed(d, st) == [dep EXCEPT ![d].st = st, ![d].by = NoUser, ![d].expired = FALSE]

\* Variant: the journal goes back to the month of the deposit, locked or not.
ReverseDepositInItsMonth(d, m) ==
    /\ Closable(d)
    /\ Open(m)
    /\ ReverseCash(d, dep[d].month)
    /\ dep' = Closed(d, "REVERSED")
    /\ journals' = journals \cup
           {Journal("reverse", d, NoId, dep[d].amount, dep[d].month)}
    /\ UNCHANGED <<ent, links, locks>>
\* reverseBankDeposit: the journal is of today, month m; the cash line goes to
\* the date of the deposit.  Somebody's reservation is not looked at.
ReverseDeposit(d, m) ==
    /\ Closable(d)
    /\ Open(m)
    /\ ReverseCash(d, dep[d].month)
    /\ dep' = Closed(d, "REVERSED")
    /\ journals' = journals \cup {Journal("reverse", d, NoId, dep[d].amount, m)}
    /\ UNCHANGED <<ent, links, locks>>

\* reclassBankDeposit to an account that is not cash.
Reclass(d, m) ==
    /\ Closable(d)
    /\ Open(m) /\ Open(dep[d].month)
    /\ dep' = Closed(d, "RECLASSED")
    /\ journals' = journals \cup
           {Journal("reclass", d, NoId, dep[d].amount, dep[d].month)}
    /\ UNCHANGED <<ent, links, lines, till, locks>>

\* reclassBankDeposit as REFUND_OUT: the money goes back.
\* Variant: the journal is posted and the cash stays.
ReclassRefundOutKeepsCash(d, m) ==
    /\ Closable(d)
    /\ Open(m) /\ Open(dep[d].month)
    /\ dep' = Closed(d, "RECLASSED")
    /\ journals' = journals \cup
           {Journal("refundOut", d, NoId, dep[d].amount, dep[d].month)}
    /\ UNCHANGED <<ent, links, lines, till, locks>>
ReclassRefundOut(d, m) ==
    /\ Closable(d)
    /\ Open(m) /\ Open(dep[d].month)
    /\ ReverseCash(d, dep[d].month)
    /\ dep' = Closed(d, "RECLASSED")
    /\ journals' = journals \cup
           {Journal("refundOut", d, NoId, dep[d].amount, dep[d].month)}
    /\ UNCHANGED <<ent, links, locks>>

-----------------------------------------------------------------------------
(* Around the pool: payouts from the account, and period locks.              *)

\* A payout with its cash line and journal, refused when the money is not there.
Spend(p, amt, m) ==
    /\ \A v \in lines : v.src # p
    /\ Open(m)
    /\ amt <= till
    /\ lines' = lines \cup {CashLine(p, 1, -amt, m)}
    /\ till' = till - amt
    /\ journals' = journals \cup {Journal("spend", NoId, p, amt, m)}
    /\ UNCHANGED <<dep, ent, links, locks>>

Lock(m) == /\ Open(m)
           /\ locks' = locks \cup {m}
           /\ UNCHANGED <<dep, ent, links, lines, till, journals>>

Unlock(m) == /\ ~Open(m)
             /\ locks' = locks \ {m}
             /\ UNCHANGED <<dep, ent, links, lines, till, journals>>

Next ==
    \/ \E d \in Deposits, amt \in DepositAmounts, m \in Months : Register(d, amt, m)
    \/ \E d \in Deposits, u \in Users : Reserve(d, u) \/ ReleaseReservation(d, u)
    \/ \E d \in Deposits : ReservationLapses(d)
    \/ \E e \in Entries, u \in Users, d \in Deposits \cup {NoId}, amt \in EntryAmounts, m \in Months :
          \E parts \in UNION {Splits(due) : due \in 0..amt} : Post(e, u, d, amt, m, parts)
    \/ \E e \in Entries, m \in Months : ReverseEntry(e, m)
    \/ \E d \in Deposits, e \in Entries, u \in Users : Merge(d, e, u)
    \/ \E d \in Deposits, m \in Months :
          ReverseDeposit(d, m) \/ Reclass(d, m) \/ ReclassRefundOut(d, m)
    \/ \E p \in Payouts, amt \in PayoutAmounts, m \in Months : Spend(p, amt, m)
    \/ \E m \in Months : Lock(m) \/ Unlock(m)

Spec == Init /\ [][Next]_vars

-----------------------------------------------------------------------------
(* Properties.                                                               *)

Sources == Deposits \cup Entries \cup Payouts

(* The rows have the shape of their tables, and the account is never overdrawn,
   also when money that was paid out again is reversed. *)
TypeOK ==
    /\ dep \in [Deposits -> [st : Statuses, amount : Nat, alloc : Nat, month : Months \cup {0},
                             by : Users \cup {NoUser}, expired : BOOLEAN]]
    /\ ent \in [Entries -> [st : {"none", "posted", "reversed"}, amount : Nat]]
    /\ links \subseteq [dep : Deposits, ent : Entries, amount : Nat, by : Users]
    /\ \A v \in lines : v.src \in Sources /\ v.amount \in Int /\ v.month \in Months
    /\ till \in Nat
    /\ \A j \in journals : j.kind \in Kinds /\ j.amount \in Nat /\ j.month \in Months
    /\ locks \subseteq Months

LinksOf(d) == {l \in links : l.dep = d}

(* allocated_ngn of a deposit is the sum of its links. *)
LinksAddUp == \A d \in Deposits : dep[d].alloc = Total(LinksOf(d))

(* No more than the money received is linked, the status tells how much of it is,
   and a deposit that left the pool, like one that shows as open, has no links:
   what Finance reversed or reclassified was nobody's payment. *)
StatusAgrees ==
    \A d \in Deposits :
        /\ dep[d].alloc <= dep[d].amount
        /\ dep[d].st = "ALLOCATED" <=> dep[d].amount > 0 /\ dep[d].alloc = dep[d].amount
        /\ dep[d].st = "PARTIAL" => dep[d].alloc > 0
        /\ dep[d].st \in Terminal \cup {"OPEN"} => LinksOf(d) = {}

(* What the ledger holds in suspense for a deposit is the part of it that nobody
   has claimed: nothing of a deposit that was reversed or reclassified. *)
Suspense(d) == SumFunction([j \in {i \in journals : i.dep = d /\ i.kind # "merge"} |->
                              IF j.kind = "register" THEN j.amount ELSE -j.amount])
SuspenseIsUnclaimed ==
    \A d \in Deposits :
        Suspense(d) = IF dep[d].st \in Terminal THEN 0 ELSE Remaining(d)

(* No entry is backed by more money than it is for: the cash it brought into the
   account and the deposit money linked to it are not the same money twice. *)
NotBackedTwice ==
    \A e \in Entries :
        Total(LiveLines(e)) + Total({l \in links : l.ent = e}) <= ent[e].amount

(* The cash of a deposit is in the account once while the deposit or its
   reclassification stands, and not at all after it was reversed or refunded. *)
Refunded(d) == \E j \in journals : j.kind = "refundOut" /\ j.dep = d
DepositCashOnce ==
    \A d \in Deposits :
        Total({v \in lines : v.src = d}) =
            IF dep[d].st = "REVERSED" \/ Refunded(d) THEN 0 ELSE dep[d].amount

(* A bank reference registered several times is in the account at most once. *)
StatementLineOnce ==
    \A c, d \in SameLine : LiveLines(c) # {} /\ LiveLines(d) # {} => c = d

(* While a reservation runs only its holder links the deposit, whether by
   posting or by merging. *)
RunningReservation(d, u) ==
    dep[d].st = "RESERVED" /\ ~dep[d].expired /\ dep[d].by # u
ReservationHolds == [][\A l \in links' \ links : ~RunningReservation(l.dep, l.by)]_vars

(* A locked month's journals stay as they are, and its cash lines change only by
   the offset of a deposit. *)
KeepsLockedMonths ==
    LET L == locks \cap locks'
    IN  /\ \A j \in journals' \ journals : j.month \notin L
        /\ \A v \in lines' \ lines : v.month \in L => v.offset /\ v.src \in Deposits
        /\ journals \subseteq journals' /\ lines \subseteq lines'
LockedLedgerIsFrozen == [][KeepsLockedMonths]_vars

(* Cash in the general ledger is the cash on the treasury account: linking a
   deposit does not count its money a second time. *)
Debits == {"register", "receipt"}
Credits == {"reverse", "refundOut", "merge", "receiptReversal", "spend"}
LedgerCash == Total({j \in journals : j.kind \in Debits})
              - Total({j \in journals : j.kind \in Credits})
CashCountedOnce == LedgerCash = till
=============================================================================
