# Verification of the Zarewa backend

This directory holds TLA+ models of the Zarewa backend (`src/server`, `src/shared`), the TLC
configurations that check them on small instances, and TLAPS proofs of theorems about them for
every value of the constants.

## 1. The system

Zarewa is the back office of a roofing manufacturer: quotations, receipts, production, stock,
procurement, treasury, refunds, HR and payroll, over one MySQL/MariaDB schema. An Express
application (`app.js`, `httpApi.js`) runs in a single Node process. Handlers are synchronous: they
call an interface shaped like better-sqlite3 (`db.prepare().run/get/all`, `db.transaction(fn)`)
that blocks the main thread on a worker thread, which talks to MySQL through a pool. So two
handlers of one process never interleave between statements. What interleaves is the *sequence* of
whole requests that different people send (request, approve, pay, reverse, lock a month, correct),
and, beneath a handler, the environment: statements that fail, connections that drop, timeouts of
the blocking call, deadlocks with other processes, crashes. Two things loosen this. Some handlers
answer first and leave work to `setImmediate`, which runs after other handlers or, if the process
dies, never. And a restart may overlap (`docs/HOSTINGER_API_RESTART.md` warns of it): then two
processes run handlers on one database and interleave statement by statement.

| Component | State | Operations | Interacts with | What is hard | Correct when |
|---|---|---|---|---|---|
| Database bridge (`mysqlDatabase.js`, `mysqlWorker.mjs`) | nesting depth in each thread, transaction connection, savepoint stack; InnoDB undo log | `run`, `transaction`, `txBegin/txCommit/txRollback`, deadlock retry | everything | two copies of the depth, partial failure of a commit, ignored rollback errors, late answers | `db.transaction` is nested all-or-nothing |
| Payment requests (`controlOps.js`, `writeOps.js`) | request, expense, cash lines, balances, journals, loan marks | submit, edit, decide, cancel, pay, reverse, clear, clean up | period locks, cash book, HR loans, GL | long sequences; open and locked months; shared expenses | paid amount = live cash; balances = lines; two-person rule; locked months frozen |
| Bank deposits (`bankDepositOps.js`) | deposits, allocations, cash lines, journals | register, reserve, allocate, merge, reverse, reclass | receipts and advances, GL, period locks | the same money recorded twice, by the bank and by the till | each naira once in the cash book, once in the ledger |
| Period locks (`controlOps.js`) | locked months | lock, unlock | every posting handler | postings and clean-ups that change a locked month | locked months frozen |
| Receipts and customer ledger (`writeOps.js`) | ledger entries, receipts, settlement | post, settle, reverse, apply advance | deposits, quotations, refunds | duplicate posting, partial settlement | customer balance = entries |
| Refunds, partner wallet (`refundHandlers.js`, `refundCreditApplyOps.js`, `finance/partnerWallet*`) | refunds, credits, withdrawals | request, decide, pay, apply, reverse | receipts, cash book | headroom computed from several tables | never refund more than was received |
| General ledger, close (`glOps.js`, `accountingCloseOps.js`) | accounts, journals, close checklist | post, reverse, close | every money path | duplicate keys, posting switched off | debits = credits; close needs its checks |
| Production and coils (`productionTraceability.js`, `operations/coil*`) | jobs, coils, reservations, kg events | allocate, start, complete, recall, correct | stock, quotations, GL | kg reserved, drawn and returned in pieces; recalculation after the commit, or deferred | kg reserved = rows of open jobs, within the kg on hand, which equal the book |
| Stock (`productBranchInventory.js`, `stoneInventory.js`) | quantities by branch | issue, receive, count | production, delivery | negative-stock approvals used once | stock = movements |
| Procurement (`ap2*`, `inTransitOps.js`, `finance/purchasePayment*`) | orders, advances, loads | order, receive, pay, acknowledge | treasury, stock | advance settlement, partial receipt | paid and received agree |
| HR and payroll (`hrOps.js`, `staffObligationOps.js`, `otOps.js`) | staff, requests, payroll runs, obligations | request, review, run, lock, recover | payment requests, GL | recovery over months, reruns | obligation = principal minus recoveries |
| Edit approvals (`editApproval.js`), negative-stock approvals | tokens | request, approve, reject, consume | patched records, stock | single use, expiry, and late decisions when two processes overlap; a rollback that has nothing to undo | a token is used at most once, by another person than its approver |
| Inter-branch loans (`interBranchLoanOps.js`) | loans, repayments | create, approve, reject, repay | cash book | two cash lines per step | cash conserved between branches |
| Boot (`db.js`, `migrate.js`, `migrationLock.js`) | named lock, schema, seed | bootstrap, migrate, seed | bridge | several processes start together | one process migrates |
| Office, reports, AI, auth, HTTP | threads, sessions | messages, queries | all | mostly projections | not in scope of these models |

`PROJECT.json` lists every component with its files and, under `hazards`, each behaviour that is
hard to test, at its line.

## 2. Plan

Ordered by what the rest of the system stands on, then by money. A module is written so that it can
be proved about: parameters are CONSTANTS with named assumptions, a handler is one action, sums are
the `SumFunction` of the community modules (`Totals` for rows with an amount), and no module has a
RECURSIVE operator.

| Step | Module | About | State |
|---|---|---|---|
| 1 | `NestedTx` | abstract specification: nested all-or-nothing units of work over one store | done |
| 2 | `SyncDb` | the bridge: main thread, worker, InnoDB; implements `NestedTx` | done |
| 3 | `SyncDbProofs` | the bridge's invariants and its refinement, for all bounds | done |
| 4 | `PaymentRequest` | payment requests, expenses, cash book, journals, locks, loan marks | done |
| 5 | `PaymentRequestProofs`, `PaymentCashProofs` | offsets, locked months, separation of duties, shared expenses; balances, paid amounts, loans | done |
| 6 | `BankDeposit` | the pool of bank deposits with receipts and advances | done |
| 7 | `BankDepositProofs` | bank references, statuses, reservations, locked months; links, suspense and cash lines of every deposit | done |
| 8 | `EditTicket` | abstract specification: a code granted by somebody else, for one record, for one write | done |
| 9 | `EditApproval`, `EditApprovalProofs` | second-party approval, statement by statement on several processes; implements `EditTicket` | done |
| 10 | `CoilProduction`, `CoilProductionProofs`, `CoilBookProofs` | kilograms reserved, drawn, cleared, returned; the recalculations after the commit; crashes; liveness | done |
| 11 | `SyncDb` again | statements that commit implicitly inside a transaction; what nested transactions keep when connections drop and answers come late | done |
| – | `Totals`, `SumTheorems` | sums over finite sets of rows, and what the proofs of steps 5, 7 and 10 need of them | done |
| 12 | `InterBranchLoan` | two cash lines per step, conserved between branches | next |
| 13 | `Receipt` | settlement of receipts, advances applied, the refund fund and its unwinding; composed with the pool | planned |
| 14 | `Refund` | refund headroom, credits, partner wallet | planned |
| 15 | `Stock` | stock by branch; negative-stock approvals as a second implementation of `EditTicket` | planned |
| 16 | `StaffObligation` | recovery over months, reruns of a payroll; composed with the loans of `PaymentRequest` | planned |
| 17 | `Boot` | the named lock of migrations, several processes | planned |

Abstract specifications: `NestedTx` and `EditTicket` (done); worth stating too is a cash book (append,
offset, remove in open months; balance equals lines) that payment requests, the pool and loans all
implement. Compositions: the cash book shared by steps 4, 6 and 12; receipts with the pool;
obligations with loans. Runs: one per question, with two of everything where people or rows
interact. Every invariant of a passing run is stated by a theorem by now. Still worth proving: that
payment requests and the pool each implement the cash book above.

## 3. Modules and the code

### `NestedTx`, `SyncDb`

| In the model | In the code |
|---|---|
| `frames` | callbacks of `db.transaction` open on the main thread (`mysqlDatabase.js:134`) |
| `throwing` | an exception on its way through those callbacks |
| `wk.depth`, `.conn`, `.sps`, `.seq` | `txDepth`, `txConn`, `savepointStack`, `savepointSeq` of the worker (`mysqlWorker.mjs:13`) |
| `wk.held`, `late` | connections taken from the pool; those of `txBegin` calls whose caller timed out |
| `srv[c]` | InnoDB: whether a transaction is open, whether the connection is dead, undo log by savepoint |
| `store` | what other connections read |
| `acked`, `failed`, `unsure` | history: what callers were told |

Handler code is arbitrary: it may open, write, return, throw and catch in any order. The exception
paths are those of the wrapper: `Unwind` is its catch and finally, `CommitThrows` the case in which
`txCommit` throws after it has decremented the depth and `txRollback` then decrements it again.
`WriteOnPool` is what `execTarget` does outside a transaction. MySQL is modelled as the worker uses
it: `RELEASE SAVEPOINT` merges a level, `ROLLBACK TO` drops levels, a lost connection rolls back.
`ExecDdl` is a CREATE or ALTER that a lazily creating helper runs inside an open transaction: MySQL
commits what was written and forgets the savepoints, while neither thread's depth changes; the next
`RELEASE SAVEPOINT` fails and the rollback has nothing to undo.

### `PaymentRequest`

| In the model | In the code |
|---|---|
| `Insert`, `Update`, `Decide`, `CancelBeforePay` | `insertPaymentRequest`, `updatePaymentRequest`, `decidePaymentRequest`, `cancelApprovedPaymentRequestBeforePay` (`controlOps.js`) |
| `Pay` | `payPaymentRequest` (`writeOps.js:10115`), with its treasury split, journal and loan mark |
| `Reverse` | `reversePaymentRequestTreasuryPayouts`: offsets for lines of locked months, removal for open ones |
| `ClearReversed`, `DeleteRolloutDup` | `clearReversedPaymentRequestPayoutLines`, `deletePaymentRequestRolloutDup` |
| `Lock`, `Unlock` | `lockAccountingPeriod`, `unlockAccountingPeriod` |
| `cashBook`, `balance`, `journals` | `treasury_movements`, `treasury_accounts.balance`, `gl_journal_entries` |
| `Loans` | requests of approved HR staff loans, whose row stays through a reversal (`payoutRecordMustStay`) |
| `disbursed` | the mark on the HR request that its loan was paid |

`Totals.Total` is the sum of the amounts of a set of rows, as the SUM queries of the code compute it.
A month stands for a date, as only the month decides what is locked. A journal is kept as its cash
side. A new request raises an expense of its own or, with `LinkFromList`, names any that exists, a memo
or that of another request. Left out: CAPEX assets, category reclassification, outside-work charges on quotations, cash
lines of the older `EXPENSE` source, and chairman loans, which follow the same branches as others.

### `BankDeposit`

| In the model | In the code |
|---|---|
| `Register`, `Reserve`, `ReleaseReservation`, `ReservationLapses` | `registerBankDeposit`, `reserveBankDeposit`, `releaseBankDepositReservation`, the quarter of an hour of `BANK_DEPOSIT_RESERVE_MS` |
| `Allocate`, used by `Post` and `Merge` | `allocateBankDepositTx` with `assertDepositLinkable` |
| `Post` | the receipt and advance routes of `httpApi.js`: guard, link, cash lines, journal |
| `ReverseEntry` | `reverseReceiptEntry`, `reverseAdvanceEntry` |
| `Merge` | `mergeBankDepositDuplicate` on a pair that `listBankDepositDuplicateExceptions` offers |
| `ReverseDeposit`, `Reclass`, `ReclassRefundOut` | `reverseBankDeposit`, `reclassBankDeposit` |
| `Spend` | any other outflow of the account: with it, reversals meet an empty till |
| `dep[d].by`, `.expired` | `reserved_by_user_id`, `reserved_until_iso` |

One branch and one account. A receipt and an advance are both "entries": the pool treats them alike.
Cash lines carry the month of their entry, a deposit that exceeds the amount due is not split over
several entries, and an advance is reversed before any of it is applied. The listing of duplicates
compares dates within two days; two such dates lie in one month or in neighbouring ones.
The release of a link by a refund-fund confirmation (`writeOps.js:13084`) belongs to the settlement
of receipts and is left for step 13.

### `CoilProduction`

| In the model | In the code |
|---|---|
| `received`, `remaining`, `reserved`, `parent` | `weight_kg`, `qty_remaining`, `qty_reserved`, `parent_coil_no` of `coil_lots` |
| `status`, `opening`, `consumed` | `production_jobs.status`; `opening_weight_kg` of a row of `production_job_coils`, and its opening less closing |
| `Texts` | what else the status route stores: it refuses `Running`, `Completed`, `Cancelled`, `Returned` letter for letter and takes any other text, also those words in lower case, which the rest of the code reads as closed or as completed |
| `drawn`, `tail`, `ancillary`, `confirmed` | net kg of the `stock_movements` of a coil, by kind: taken by a job, finished as a tail by a job, scrapped, returned or counted, finished on stock confirmation |
| `finishLogged`, `finishNet` | the `coil_control_events` of finished and restored tails |
| `pending` | `setImmediate` callbacks with a recalculation (`productionTraceability.js:1074`, `:1920`) |
| `SaveAllocations`, `AppendCoil`, `Start`, `RunLog`, `ReturnToPlanned`, `Unwind`, `PatchStatus` | the routes that plan and run a job |
| `Complete`, `CompleteWithoutCoil`, `Correct`, `ForceRecall`, `DeleteList` | the three completions, correction of a completed job, forced recall, deletion of the cutting list |
| `Scrap`, `ScrapReserved`, `Gain`, `ReturnToStock`, `PatchReceived`, `Split`, `FinishRoll`, `UndoFinish` | the coil register in `writeOps.js` |
| `Recalculated`, `RecalculateJob`, `RecalculateCoil`, `ReconcileReservation` | the recalculations |
| `Owed`, `GivenKg`, `Restore`, `Posted`, `ShowHolders` | the restore of kg held by deleted jobs, which a GET route also makes; it takes a finish on stock confirmation, whose reference is no job either, for one of theirs |
| `RunDeferred`, `Crash`, `RestoreDies` | the event loop; the process dies with callbacks waiting, in the middle of one, or in a restore between the UPDATE of the coil and its movement, which share no transaction |

`Book` is `reconcileCoilBookFromProductionHolders`: the kg on hand rebuilt from rows, movements, splits
and events, with its two preferences (completed rows or movements, whichever show more; control
events, or movements where the coil has none). A recalculation is a conditional repair: it sets the
reservation to what the rows of open jobs hold unless they do not fit, or the book is off and below
what is reserved. `Follow` is the work after a commit, which a crash may cut off at any coil.

Some steps of the code are known to leave an account off: the history sets name the coils for which
a step did, and the exactness properties are about the others. `loose` (reservation off the rows)
may grow by a finished tail or a mis-posted line at completion, a correction, a forced recall, and
the status route; a recalculation that goes through takes the coil out of it again. `drifted` (kg on
hand off the book, or movements that no longer cover what completed rows show as consumed, see
`Covered`: the book then comes out right by chance and shows the gap later) may grow by a completion
whose reading names another coil than its row (`productionTraceability.js:1406`), by a finish where
control events and movements of the same coil mix (`writeOps.js:5037`), by a finish on stock
confirmation, which the book counts as drawn and as finished, by an undo for another kg than was
finished, by a correction, by a forced recall of a completed job, by a correction of the received kg
(the movement it posts counts the change a second time, on a coil and on the one it was split from;
recalculating the coil then takes a reduction off once more, `writeOps.js:4500`), and by a restore
during which the process dies. Every other step, and these on every other coil, must keep both
accounts. So the exactness properties do not speak of the coils that those steps leave off; what must
hold even of a loose coil is `ReservedFits`, `MovementsCover` and `NoSilentRestore`, and of a drifted
one `ReservedFits`, `ReservedExact` and `NoSilentRestore`.

A correction may fail half-way. Its route throws then, but consuming the approval has committed the
transaction, so the rows already undone stay undone: `applied` is the set of rows that were charged
again before the error, and `Swaps` excludes what the unique index on job and coil refuses. A failure
between the last row and the final recalculation is not a case of its own. That a closed job holds no
row is not claimed: with the texts of the status route it is false.

One branch, whole kg, open periods. Correcting the received kg to zero is left out. Conversion checks, metres, costs, accessories, stone lines and
the recognition journal of a completion are left out. Coils are on the register from the start.

### `EditTicket`, `EditApproval`

| In the model | In the code |
|---|---|
| `tok[t]` | a row of `edit_approval_tokens`; `expires` is whether `expires_at_iso` lies ahead |
| `call[p]` | the handler under way in process `p`, after its last statement |
| `AskRead`, `AskInsert` | `createEditApprovalRequest`: look for a pending row, draw a number, insert |
| `DecideRead`, `DecideUpdate` | `approveEditApproval`, `rejectEditApproval`: checks on the row read, then the UPDATE with `status = 'pending'` |
| `Consume`, `Statement`, `Answer` | `consumeEditApprovalInTransaction`, the statements of `executeWrite`, the answer of the guard |
| `Lapse`, `Crash` | half an hour passes; the process dies in a handler |
| `uses`, `changed` | history: writes a code let through, codes under which a record was changed |

Here one action is one statement, since processes may overlap during a restart. The transaction that
the guard opens does not bind the statements together: the guard's own `CREATE TABLE` commits it
before the code is consumed, so what is modelled after it is a sequence of durable statements.
The refinement maps a row to a stage of the ticket (`LifeOf`), and the writes under way to `open`.
Left out: when a route asks for a code at all, exempt users, branches, the wording of the change
(which a repeated request may refresh and nothing compares with the write).

### Why a handler is one action

`db.transaction` and every statement block the main thread until the worker answers, so a handler
of the API process is never interleaved with another between two statements, and its writes are
wrapped in one transaction. `SyncDb` is the model in which that atomicity is *checked*; the money
modules and `CoilProduction` use it, the latter splitting a handler where it commits and goes on.
What they explore is the order of whole requests. `EditApproval` does not use it: a code exists to be
safe when a second person acts at the same time, and its single use must not hang on one process.

## 4. Runs

Every configuration has `CHECK_DEADLOCK FALSE` because behaviours end where the bounds on writes,
lines, moves, edits or codes are reached. Fairness is assumed once, in `floor`: `WF_vars(RunDeferred)`,
because Node runs a `setImmediate` callback when the handlers of the turn are done, so a waiting
callback is not put off for ever. Nothing else is retried or run by the server itself; elsewhere the
code promises no progress, people do, and no fairness is assumed.

| Run | Shows | Bounds, and why they are enough |
|---|---|---|
| `nested` | with failing statements, exceptions, catches and crashes the bridge is all-or-nothing at each level, both threads agree on the depth, a request ends with nothing open, and it implements `NestedTx` | depth 3: an outer, a middle and an inner level, so that releasing, cutting and catching meet a level above and one below; 4 writes: one per level and one after; two connections |
| `faults` | what every fault at once (statements, crashes, lost connections, late answers, deadlocks, DDL) leaves intact: a `COMMIT` without answer is whole or absent, and no connection in the pool is inside a transaction. Not claimed under faults: that failed work leaves nothing | transactions one level deep, 4 writes, one savepoint (a late `txBegin` turns the next one into a savepoint); both connections can be taken by late calls. `PooledIsClean` is proved for every depth; the nested case is `lostconn` |
| `lostconn` (violation) | see finding 2 | depth 2, 3 writes |
| `deadlock` (violation) | see finding 1 | 3 writes |
| `one` | for one request: paid amount is live cash and within the approval, lines are offset at most once, duties stay separate, locked months stay frozen | two accounts, two months, three people (so that requester, approver and payer can all differ), split payouts, 5 lines: pay in two months, reverse with one month locked, pay or reverse again; a submission and an edit, so that a rejected request is sent back and decided anew. The code lets the requester pay, and so does the property |
| `shared` | balances equal lines and journals, loan marks are funded, expenses outlive all but their last request | a loan and another request, each on its own expense, on a memo or on that of the other; the clean-up route on, 4 lines, 3 submissions or edits; one exempt person, as duties are the subject of `one` |
| `secondopen`, `settled` (violations) | see findings 3 and 4 | as small as the counterexample allows |
| `pool` | links add up and agree with statuses; suspense is what is unclaimed; no entry is backed twice; a deposit's cash counts once and so does a bank reference; reservations hold; locked months stay frozen | two deposits under one reference, two entries, two clerks, two months, a payout: deposits of 2, entries of 1 or 2, so that a deposit is linked partly, wholly, twice and by a smaller entry; the same model with deposits of 1 as well has been checked too (4.4 million states). As both deposits are of one reference, the second lives only once the first is reversed: two live deposits that compete for an entry are covered by the theorems, not by this run |
| `doublecash` (violation) | see finding 5 | one deposit, one receipt |
| `floor` | no coil promises more than it has; reservations equal the rows and kg on hand the book, but for the steps named above; movements cover what rows show as consumed; kg come back only with a posting, unless the process dies in a restore; a deferred recalculation settles (liveness) | two jobs that compete for a coil of 2 kg and a spare one for a split; postings up to 2 kg, so that two lines fit, just fit and do not fit; a tail of 2 kg, so that a finish is allowed and refused; one register posting, correction or status text between planning, running, completing and recalling; one waiting callback. A completion that charges another coil than its row needs a second stocked coil and does not occur here: it, longer sequences of postings, more jobs and more coils are covered by the theorems |
| `codes` | a code lets one write through, everything changed stands under a code granted by another person, and the handlers implement `EditTicket` | two codes for the same or for different records, a clerk and two approvers who may decide against each other, two processes, two statements per write. With three codes (456,756 states) it has been checked too |

The unlinked-deposit guard of the receipt route is overridden in `pool` (clerks may), which is the
larger set of behaviours. Symmetry is used for interchangeable values only: connections, people and
accounts without distinguished members, deposits that share their one reference, entries, codes, records and
processes. `floor` uses none, as it checks liveness.

## 5. Findings

1. **A deadlock retry keeps the tail of a rolled-back transaction** (`mysqlWorker.mjs:195`). InnoDB
   rolls the victim's whole transaction back; `withDeadlockRetry` re-runs only the last statement, on
   a connection that is now in autocommit. What was written before is gone although the callback may
   succeed; what is written from then on stays although it may throw. Against
   `materialPricingOps.js:987`, "All-or-nothing: any row failure rolls back successful upserts".
2. **An inner failure on a lost connection takes the worker out of the outer transaction**
   (`mysqlWorker.mjs:528`). `txCommit` lowers the depth before `RELEASE SAVEPOINT` fails; the wrapper
   answers with `txRollback`, which lowers it again. An outer callback that catches the exception goes on
   writing in autocommit, and what it writes stays when it throws. The comment at `mysqlWorker.mjs:19`
   says that monotonic savepoint names avoid "sp_depth drift bugs"; the text at
   `materialPricingOps.js:987` is that of finding 1.
3. **Two open requests on one expense** (`controlOps.js:2667`): while a request is rejected, its
   expense may be linked by another; editing the first one back to Pending is not checked, against
   `paymentRequestLinkGuards.test.js:106`.
4. **A settled loan that is never disbursed** (`writeOps.js:10263`): paying all but one naira is
   within the tolerance and refuses further payment, while the mark waits for the whole amount.
5. **A linked deposit's cash is debited twice in the ledger** (`httpApi.js:14283`): registering it
   debits cash and credits suspense, linking moves suspense to the customer, and the receipt posts its
   whole amount to cash and customer again. The treasury balance is right; ledger cash is not.

Observed and not stated as properties, since no text of the repository says otherwise: a merge links
only what is left of the deposit but offsets every line of the entry; reversing a receipt leaves its
link on the deposit; reversing and reclassifying a deposit do not look at a running reservation; the
cash line of a deposit's reversal takes the bank date even when that month is locked (the one
exception that `LockedLedgerIsFrozen` names); the clean-up route deletes lines of locked months
(`LockedBookIsFrozen` is checked and proved with that route off); the answer to an approver does not
look at whether the UPDATE changed a row, so of two decisions at once both are told they won; a code
is bound to its record, but neither to its requester nor to the change that was asked for; the steps
that leave a coil's reservation or book off, listed under `CoilProduction`.

Also observed, and listed under the hazards: `consumeEditApprovalInTransaction` "must run inside an
outer db.transaction() together with the mutating write" (`editApproval.js:471`) and then runs
`CREATE TABLE IF NOT EXISTS` in it, which commits. So a write that fails keeps its first statements
and the used code, and a write that opens a nested transaction fails on `RELEASE SAVEPOINT` although
its rows are durable. `SyncDb` has the step as `ExecDdl`; what survives it, that the pool and the next
request stay clean, single use and named approval, is what the runs and theorems state.

## 6. Proofs

`tlapm` proves every theorem for every value of the constants that meets the modules' ASSUMEs.

**`SyncDbProofs`**, under `OrderlyFaults`: statements fail, callbacks throw, the process crashes, but
connections are not lost, answers are not late, there are no deadlocks (with a deadlock the
property is false, finding 1) and no DDL inside a transaction. `TypeOK` and `FailedLeavesNothing` are not inductive alone: whether a
rollback removes the right writes depends on how the undo log lines up with the callbacks. `IInv`
says that it does: level *i* of the log holds exactly what callback *i* wrote (`Mirror`), savepoint
names on the worker's stack climb and stay below its counter (`Climbs`), so a name identifies its
level, the writes of different callbacks, of the store and of failed transactions are disjoint
(`Parted`, `Apart`), and no connection is dead or late (`Orderly`). From it: `BridgeTypes`,
`FailedNeverDurable`, `AckedAlwaysDurable`, `OpenNeverVisible`, `DepthsAlwaysAgree`, and
`BridgeImplementsNestedTx`, the refinement.

**`PaymentRequestProofs`.** `BookOK`: ids of lines are unique and below the next id, an offset has the
account and the opposite amount of its line and is the only one of it, each journal is dated as its
line. It gives `OffsetsAreUnique`, and `LockedMonthsFrozen` under `~RolloutDelete`. `DutiesSeparated`
rests on `DutiesInv`: besides `BookOK` and the shape of the rows, `Accountable` says that live cash is
out only for approved or cancelled rows whose approver is set and apart, because an edit clears the
approver and would break the property if it were possible with cash out. `ExpensesOutliveRequests`
needs that the name of an expense on a row is one of an expense at all (`Raised`): an expense goes only
when `LinkedTo` has the deleted request alone, and a new request links only what is there.

**`BankDepositProofs`.** `PoolInv`: status, amount and allocated amount of a row go together, each
link is counted in its row, lines belong to registered deposits and posted entries, a reversed
deposit has no live line, one deposit of a reference counts. Two of these are there for a step that
would otherwise break the others: that posted entries have a positive amount (a merge must link
something), and that links imply a positive allocated amount (closing a deposit must find none).
From it `StatementLineCounted` and `StatusAlwaysAgrees`; `ReservationAlwaysHolds` follows from the
guards of posting and merging, `LockedLedgerStaysFrozen` from `WritesKeepLocked` of each step.

**`CoilProductionProofs`.** `IInv` is `TypeOK` and `ReservedFits` together. The first needs the second,
because a subtraction from the kg on hand stays natural only where what was reserved is covered; the
second needs the first for every clamp. No sum is evaluated: a recalculation writes the sum of the rows
only where it lies between zero and the kg on hand (`Fits`), whatever it is (`RecalculatedFits`). Each
step is shown to keep `IInv` and to post what it restores (`Keeps`), which gives `TypeCorrect`,
`ReservationsFit` and `RestoresArePosted`, with crashes, with any text in a status and for any number of
waiting callbacks. In a restore the kg of jobs and of stock confirmations are one pot, so the posting
is shown of their sum; the restore that dies is the exception the property names.

**`EditApprovalProofs`.** A decision is checked on one state and stored on a later one, and a write goes
on after its code was looked at, so the properties alone are not inductive. `Deciders` says that a
decision under way is about an existing row of somebody else, `Writers` that a write under way holds
its used code for its record, `TwoPeople` that a decided row names two people. From `IInv` follow
`CodesTyped`, `CodesUsedOnce`, `ChangesApproved`; and `ApprovalImplementsTicket`: the initial state maps
to the initial state, a statement of `AskInsert`, `DecideUpdate`, `Lapse`, `Consume`, `Statement`, `Answer`
or `Crash` to a step of `EditTicket` or to none, and a read to none. That a write is open under one
process only (part of `SingleUse`) is what makes its end a `Close`.

**`SumTheorems`.** The sum of a function over a finite set: it is an integer, it splits off any
element, it is additive over disjoint sets, it depends on the values in the set only, and it is
monotonic in them. A fold of the community modules is a recursive function
that takes out a CHOSEn element; each lemma looks at the smallest subset for which the claim fails
(`SmallestSet`, by the well-founded order of finite subsets) and finds that it cannot exist, since the
chosen element may be exchanged for any other. So no induction theorem with an operator parameter is
needed.

**`PaymentCashProofs`.** That balances equal lines is not inductive: deleting lines could take away one
half of a pair. `CashInv` adds to `BookOK` that each line has exactly its journal (`LedgerOK`), that
each is a payout or offsets a payout that is still on the book (`OffsetsOK`), and, for each request,
`Settled`: the paid amount is the sum of its live lines, lies within the approval, is zero unless the
request stands approved, and reaches the amount where a loan is marked as disbursed. Lines that are
not live cancel out on every account, which carries the reversal (offsets in locked months, deletion
in open ones), the clean-up of cancelled pairs and the rollout route, which moves no balance because what
it deletes sums to zero. From it `RowsWellFormed`, `AccountsMatchTheBooks`, `PaidIsOut`,
`NeverBeyondApproval`, `DisbursedLoansAreFunded`.

**`BankDepositProofs`, the money.** The sums of the pool are held up by facts about which rows exist.
`MoneyInv`, beside `PoolInv`: an entry is linked at most once (so "already linked" in
`assertDepositLinkable` means that its link is the whole of it); a deposit has exactly its own cash line,
and its offset once it was reversed or refunded (`Cashed`); a closing journal exists only for a deposit
that is closed, a refund journal only for a reclassified one, a link journal only with its link
(`JournalRow`), so a handler that posts one again would be seen. Merging is the step that needs them
all: it reverses the cash of an entry, links it with what is left of the deposit, and must neither
count suspense twice nor back the entry beyond its amount. From it `AccountNeverOverdrawn`, `AllocatedIsLinked`,
`SuspenseAlwaysUnclaimed`, `NeverBackedTwice`, `DepositsCountedOnce`.

**`CoilBookProofs`.** `BookInv` adds to `IInv`, `ReservedExact` and `BookExact`: what is not on the
register stands on no account (`RegisterOK`), and on a coil that has not drifted the movements cover
the rows (`MovementsCover`), so that the book is a plain difference of sums (`BookIs`) and not the larger
of two accounts. Each step splits the sums over jobs into the share of its job and the rest. The
proof attempt found the history too narrow: a job completed and then patched back to another status
leaves movements that mask those of a second job, and after a forced recall, a scrap and a deletion a
coil was off the book that no step had been named for. Since then a coil counts as drifted as soon as
its movements stop covering its rows. From it `ReservationsExact`, `MovementsStayCovering`,
`BooksExact`.

**`SyncDbProofs`, faults.** Under `FlatFaults` (no transaction inside another, no deadlocks, no DDL in a
transaction) connections may drop, calls time out and answers come late in any order. The depths of
the threads then differ, and several connections may be open behind the handler's back. `FlatInv` holds
on to what stays: open, durable, failed and doubtful writes are disjoint and each doubtful group is
there or not as a whole (`Separate`), the worker's connection is lost or in a transaction wherever the
depth is positive (`Attached`), and where the worker will send a COMMIT rather than release a savepoint, the
log of its connection is what the callback wrote (`OwnLog`). From it `DoubtIsAtomic` and
`FaultsLeaveNothing`. These two are about transactions that are not nested, and must be: finding 2 is a
nested transaction in which the latter fails.

What the bridge keeps at any depth and under any mixture of faults is narrower and matters more to
everybody else: `PoolStaysClean`, no connection that the pool may hand out is inside a transaction. Its
invariant `HeldInv` ties the connection of the worker to those held from the pool. And without late
answers `RequestsEndClean`: when the outermost callback has ended, the worker is at depth zero with no
connection, however often the depths of the two threads parted on the way. `CleanInv` holds the reason:
the worker is never deeper than the main thread, so the decrements of the remaining callbacks, clamped
at zero, bring it there.

**Assumptions.** Only the named ASSUMEs of the modules: the sets that stand for people, rows and months
are what their names say, numbers are natural, and where sums are taken over them, the sets of jobs and coils are
finite (a table is), as is the set of amounts a request may have (the initial expense of a memo is its
largest). Bounds such as `MaxMovements` are any natural numbers.

**Only model-checked.** `QueuedRecalcSettles`, as liveness is outside the prover, and the
counterexamples of section 5; and of `UnsureIsAtomic` the mixture with deadlocks and DDL, which
`DoubtIsAtomic` leaves to the run `faults`. Every other property of a passing run is stated by a theorem.

## 7. Not modelled

`PROJECT.json` names each component with its reason. In short: the steps 12 to 17 of the plan are
still to come; reports, dashboards, AI routers, the workspace inbox, exports and the browser-facing
parts read state and decide nothing that these properties are about; scripts are operational
one-offs; sessions and permissions enter only as the identity of whoever acts. Approved outside-work
charges and the obligation ledger, which payouts also touch, wait for the modules on quotations and
staff obligations; the hazards list names both. What `CoilProduction` and `EditApproval` leave out is
said where they are described; goods receipt, stone and accessory stock and negative-stock approvals
wait for `Stock`.
