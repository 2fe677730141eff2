--------------------------- MODULE CoilProduction ----------------------------
(***************************************************************************)
(* Production jobs and the coil register.  A job reserves kg of coils,      *)
(* runs, and at completion takes the kg its readings show; the register     *)
(* scraps, returns, splits, finishes and recounts the same coils.  Three    *)
(* accounts of one coil must stay together: the kg on hand, the kg          *)
(* reserved, and the book rebuilt from job rows, stock movements and coil   *)
(* control events.                                                          *)
(*                                                                         *)
(* Jobs and recalculation: server/productionTraceability.js.  Register:     *)
(* server/writeOps.js.  Whole kg; one branch; open periods.  A handler runs *)
(* to completion, but the process may die between its commit and the        *)
(* recalculation that follows, and a recalculation put off with             *)
(* setImmediate runs after other handlers, or never.                        *)
(***************************************************************************)
EXTENDS Integers, Sequences, FiniteSets, FiniteSetsExt

CONSTANTS
    Jobs,
    Coils,
    NoCoil,
    Received,    \* coils received by GRN, with their kg; the others have 0
    TailMax,     \* COIL_TAIL_FINISH_MAX_KG and COIL_PROFILE_FINISH_MAX_KG
    MaxKg,       \* bound: kg of one posting
    MaxMoves,    \* bound: register postings, corrections, patches, misposts
    MaxPending   \* bound: recalculations waiting in the event loop

ASSUME CoilAssumption == /\ Received \in [Coils -> Nat]
                         /\ IsFiniteSet(Coils) /\ IsFiniteSet(Jobs)
                         /\ NoCoil \notin Coils
                         /\ TailMax \in Nat /\ MaxKg \in Nat
                         /\ MaxMoves \in Nat /\ MaxPending \in Nat

VARIABLES
    received,     \* coil_lots.weight_kg; 0: not on the register
    remaining,    \* coil_lots.qty_remaining
    reserved,     \* coil_lots.qty_reserved
    parent,       \* coil_lots.parent_coil_no
    ancillary,    \* stock_movements of the coil: scrap, return, count; net kg
    finishLogged, \* coil_control_events: some finish_roll or undo_finish_roll
    finishNet,    \* coil_control_events: kg finished less kg restored
    confirmed,    \* kg of "marked finished on stock confirmation" movements
    status,       \* production_jobs.status; "gone": deleted
    opening,      \* production_job_coils.opening_weight_kg; 0: no row
    consumed,     \* opening - closing of a completed row
    drawn,        \* COIL_CONSUMPTION movements of job and coil, net kg taken
    tail,         \* "roll finished" movements of job and coil, net kg cleared
    pending,      \* setImmediate: recalculations not yet run
    moves,        \* bound: counts against MaxMoves
    loose,        \* history: coils whose reservation a step left off the rows
    drifted,      \* history: coils whose stock a step left off the book
    lost          \* history: a crash dropped pending since it was last used

register == <<received, parent>>
ledger == <<ancillary, finishLogged, finishNet, confirmed>>
rows == <<opening, consumed, drawn, tail>>
stock == <<remaining, reserved>>
queue == <<pending, lost>>
vars == <<register, ledger, rows, stock, queue, status, moves, loose, drifted>>

Clamp(x) == IF x \in Nat THEN x ELSE 0                    \* clampNonNegative
Least(x, y) == IF x <= y THEN x ELSE y

OpenStatuses == {"Planned", "Running"}
ClosedStatuses == {"Cancelled", "Returned", "gone"}
\* What the status route stores beside Planned: it refuses four exact words and
\* takes any other text.  "cancelled" is that word or "returned" in lower case,
\* read as closed; "completed" and "unfinished" are the word completed in lower
\* case, over rows that a completion marked and over rows it did not; "other"
\* is a text of no meaning.
Texts == {"cancelled", "completed", "unfinished", "other"}
Statuses == {"none", "Completed"} \cup OpenStatuses \cup ClosedStatuses \cup Texts
Rows(j) == {c \in Coils : opening[j][c] > 0}

-----------------------------------------------------------------------------
(* The book of a coil, and the recalculation of its reservation.             *)

\* expectedCoilReservedKgFromJobs
OpenKg(c) == SumFunction([j \in {i \in Jobs : status[i] \in OpenStatuses} |-> opening[j][c]])

\* coilBookJobsConsumedKg: completed rows, or the movements if they show more.
HolderKg(c) == SumFunction([j \in {i \in Jobs : status[i] = "Completed"} |-> consumed[j][c]])
MovementKg(c) == SumFunction([j \in Jobs |-> drawn[j][c]]) + confirmed[c]
JobsConsumed(c) == LET moved == Clamp(MovementKg(c))
                   IN IF HolderKg(c) > moved THEN HolderKg(c) ELSE moved

\* coilFinishRollTailNetClearedKg: control events if there are any, or the
\* movements of completed jobs.
FinishTail(c) == IF finishLogged[c] THEN Clamp(finishNet[c])
                 ELSE SumFunction([j \in Jobs |-> tail[j][c]])

SplitOut(c) == SumFunction([d \in {e \in Coils : parent[e] = c} |-> received[d]])

\* reconcileCoilBookFromProductionHolders: expectedOnHand, before it is clamped.
Book(c) == received[c] - JobsConsumed(c) - SplitOut(c) + ancillary[c] - FinishTail(c)
Expected(c) == Clamp(Book(c))

\* The book is off and stands below what is reserved: the coil is skipped.
BookBlocks(c, held) == Expected(c) # remaining[c] /\ Expected(c) < held
Fits(c) == OpenKg(c) \in 0..remaining[c]

\* recalculateProductionJobCoilStock: the reserved kg of the coils touched are
\* set to what open jobs hold, unless the book blocks or they do not fit.
\* "held" are the reserved kg the handler itself left.
Recalculated(held, touched) ==
    reserved' = [c \in Coils |->
        IF c \in touched /\ Fits(c)' /\ ~(Expected(c)' # remaining'[c] /\ Expected(c)' < held[c])
        THEN OpenKg(c)' ELSE held[c]]

\* The movements of every job cover what its completed row shows as consumed.
Covered(c) == \A j \in Jobs :
    drawn[j][c] >= IF status[j] = "Completed" THEN consumed[j][c] ELSE 0

\* History: what a step that may loosen (or drift) the coils cs leaves off.  A
\* coil also counts as drifted when its book comes out right by chance, with
\* movements that do not cover the rows.
MayLoosen(cs) == loose' = {c \in loose \cup cs : reserved'[c] # OpenKg(c)'}
MayDrift(cs) ==
    drifted' = drifted \cup {c \in cs : remaining'[c] # Book(c)' \/ ~Covered(c)'}
Clean == MayLoosen({}) /\ MayDrift({})

Move == moves < MaxMoves /\ moves' = moves + 1

\* The process dies and takes the waiting recalculations with it.
Dies == pending' = <<>> /\ lost' = (lost \/ pending # <<>>)
\* The work after the commit is done for all the coils it is due for, or the
\* process dies on the way.
Follow(due, done) == \/ done = due /\ UNCHANGED queue
                     \/ done # due /\ Dies

Init == /\ received = Received
        /\ remaining = Received
        /\ reserved = [c \in Coils |-> 0]
        /\ parent = [c \in Coils |-> NoCoil]
        /\ ancillary = [c \in Coils |-> 0]
        /\ finishLogged = [c \in Coils |-> FALSE]
        /\ finishNet = [c \in Coils |-> 0]
        /\ confirmed = [c \in Coils |-> 0]
        /\ status = [j \in Jobs |-> "none"]
        /\ opening = [j \in Jobs |-> [c \in Coils |-> 0]]
        /\ consumed = [j \in Jobs |-> [c \in Coils |-> 0]]
        /\ drawn = [j \in Jobs |-> [c \in Coils |-> 0]]
        /\ tail = [j \in Jobs |-> [c \in Coils |-> 0]]
        /\ pending = <<>>
        /\ moves = 0
        /\ loose = {}
        /\ drifted = {}
        /\ lost = FALSE

-----------------------------------------------------------------------------
(* Planning and running a job.                                               *)

\* insertProductionJob
Register(j) ==
    /\ status[j] = "none"
    /\ status' = [status EXCEPT ![j] = "Planned"]
    /\ UNCHANGED <<register, ledger, rows, stock, queue, moves, loose, drifted>>

\* saveProductionJobAllocations: the rows are replaced by want; no kg clears
\* them.  The recalculation follows the commit.
SaveAllocations(j, want) ==
    LET due == Rows(j) \cup {c \in Coils : want[c] > 0}
        held == [c \in Coils |->
                   Least(Clamp(reserved[c] + want[c] - opening[j][c]), remaining[c])]
    IN /\ status[j] = "Planned"
       /\ \A c \in due : want[c] <= remaining[c] - (reserved[c] - opening[j][c])
       /\ opening' = [opening EXCEPT ![j] = want]
       /\ consumed' = [consumed EXCEPT ![j] = [c \in Coils |-> 0]]
       /\ UNCHANGED <<register, ledger, drawn, tail, remaining, status, moves>>
       /\ \E done \in SUBSET due : Recalculated(held, done) /\ Follow(due, done)
       /\ Clean

\* Waiting for setImmediate: the rows of the job and the coils extra.
Defer(j, extra) == /\ Len(pending) < MaxPending
                   /\ pending' = Append(pending, [job |-> j, extra |-> extra])
                   /\ lost' = FALSE

\* saveProductionJobAllocations with append: another coil on a running job.
AppendCoil(j, c, kg) ==
    /\ status[j] = "Running" /\ c \notin Rows(j)
    /\ kg <= remaining[c] - reserved[c]
    /\ opening' = [opening EXCEPT ![j][c] = kg]
    /\ consumed' = [consumed EXCEPT ![j][c] = 0]
    /\ reserved' = [reserved EXCEPT ![c] = @ + kg]
    /\ Defer(j, {c})
    /\ UNCHANGED <<register, ledger, drawn, tail, remaining, status, moves>>
    /\ Clean

\* startProductionJob: offcut and stained mode start without a row.  Any status
\* that does not read as closed will do.
Start(j) ==
    /\ status[j] \in OpenStatuses \cup {"other"}
    /\ status' = [status EXCEPT ![j] = "Running"]
    /\ UNCHANGED <<register, ledger, rows, stock, queue, moves>>
    /\ MayLoosen(IF status[j] = "other" THEN Rows(j) ELSE {}) /\ MayDrift({})

\* saveProductionCoilRunLogDraft: a draft of the readings; the row of coil c
\* may move to coil d.  The recalculation put off covers the rows as they are
\* when it runs.
RunLog(j, c, d) ==
    /\ status[j] = "Running" /\ c \in Rows(j)
    /\ \/ c = d /\ UNCHANGED <<opening, consumed, reserved>>
       \/ /\ d \notin Rows(j)
          /\ opening[j][c] <= reserved[c]
          /\ reserved[d] + opening[j][c] <= remaining[d]
          /\ opening' = [opening EXCEPT ![j][c] = 0, ![j][d] = opening[j][c]]
          /\ consumed' = [consumed EXCEPT ![j][c] = 0, ![j][d] = 0]
          /\ reserved' = [reserved EXCEPT ![c] = @ - opening[j][c],
                                          ![d] = @ + opening[j][c]]
    /\ Defer(j, {})
    /\ UNCHANGED <<register, ledger, drawn, tail, remaining, status, moves>>
    /\ Clean

\* returnProductionJobToPlanned: the reservations stay.
ReturnToPlanned(j) ==
    /\ status[j] = "Running"
    /\ status' = [status EXCEPT ![j] = "Planned"]
    /\ UNCHANGED <<register, ledger, rows, stock, queue, moves, loose, drifted>>

\* Variant: kg the coil no longer has reserved are released all the same.
ReleasedUnclamped(j, held) == [c \in Coils |-> held[c] - opening[j][c]]
\* releaseProductionJobCoilReservationsTx, and the rows deleted.
Released(j, held) == [c \in Coils |-> Clamp(held[c] - opening[j][c])]
RowsDeleted(j) == /\ opening' = [opening EXCEPT ![j] = [c \in Coils |-> 0]]
                  /\ consumed' = [consumed EXCEPT ![j] = [c \in Coils |-> 0]]

\* cancelProductionJob, returnProductionJobToWaiting: unwindOpenProductionJobTx.
Unwind(j, next) ==
    /\ status[j] \in OpenStatuses
    /\ status' = [status EXCEPT ![j] = next]
    /\ reserved' = Released(j, reserved)
    /\ RowsDeleted(j)
    /\ UNCHANGED <<register, ledger, drawn, tail, remaining, queue, moves>>
    /\ Clean

\* setProductionJobStatus: any job, finished ones too, to Planned or to a text;
\* rows and reservations stay.  A planned row may still be marked completed.
PatchStatus(j, next) ==
    /\ Move
    /\ status[j] \notin {"none", "gone"}
    /\ next = "completed" => status[j] # "Running"
    /\ next = "unfinished" => status[j] # "Completed"
    /\ status' = [status EXCEPT ![j] = next]
    /\ UNCHANGED <<register, ledger, rows, stock, queue>>
    /\ MayLoosen(Rows(j)) /\ MayDrift({})

-----------------------------------------------------------------------------
(* Completing and correcting a job.                                          *)

\* A posting names the row whose reading is charged to each coil.  A row is
\* charged once; the screen may name another coil than the row holds.
Straight(j) == [d \in Coils |-> IF d \in Rows(j) THEN d ELSE NoCoil]
Postings(j) ==
    {from \in [Coils -> Rows(j) \cup {NoCoil}] :
        \A c \in Rows(j) : \E d \in Coils : {e \in Coils : from[e] = c} = {d}}
OpeningOf(j, from, d) == IF from[d] \in Coils THEN opening[j][from[d]] ELSE 0

\* A line takes some kg, at most its opening; no line, no kg.
Reads(open, use) == use <= open /\ (open > 0 => use > 0)
\* Finish roll is refused when the closing reading is no tail.
MayFinish(open, use, fin) == \A d \in fin : open[d] > 0 /\ open[d] - use[d] < TailMax

\* completeProductionJob: charges the readings, clears the tail of the coils in
\* fin, and recalculates the coils of the rows after the commit.
Complete(j, from, use, fin) ==
    LET open == [d \in Coils |-> OpeningOf(j, from, d)]
        left == [d \in Coils |-> remaining[d] - use[d]]
        held == [d \in Coils |->
                   Least(Clamp(reserved[d] - open[d]), IF d \in fin THEN 0 ELSE left[d])]
        off == {d \in Coils : from[d] # Straight(j)[d]}
    IN /\ status[j] = "Running" /\ Rows(j) # {}
       /\ IF off = {} THEN UNCHANGED moves ELSE Move
       /\ \A d \in Coils : Reads(open[d], use[d]) /\ use[d] <= remaining[d]
       /\ MayFinish(open, use, fin)
       /\ status' = [status EXCEPT ![j] = "Completed"]
       /\ remaining' = [d \in Coils |-> IF d \in fin THEN 0 ELSE left[d]]
       /\ consumed' = [consumed EXCEPT ![j] = [c \in Coils |->
             IF c \in Rows(j) THEN use[CHOOSE d \in Coils : from[d] = c] ELSE 0]]
       /\ drawn' = [drawn EXCEPT ![j] = [d \in Coils |-> @[d] + use[d]]]
       /\ tail' = [tail EXCEPT ![j] = [d \in Coils |->
             @[d] + (IF d \in fin THEN left[d] ELSE 0)]]
       /\ UNCHANGED <<register, ledger, opening>>
       /\ \E done \in SUBSET Rows(j) : Recalculated(held, done) /\ Follow(Rows(j), done)
       /\ MayLoosen(fin \cup off)
       /\ MayDrift(off \cup {d \in fin : finishLogged[d]})

\* Variant: the coils stay reserved.
CompleteKeepingReservation(j) ==
    /\ status[j] = "Running"
    /\ status' = [status EXCEPT ![j] = "Completed"]
    /\ consumed' = [consumed EXCEPT ![j] = [c \in Coils |-> 0]]
    /\ UNCHANGED <<register, ledger, opening, drawn, tail, stock, queue, moves>>
    /\ Clean
\* completeProductionJobOffcut, completeProductionJobStained: nothing is taken
\* off the coils; the rows stay, with a closing reading equal to the opening.
CompleteWithoutCoil(j) ==
    /\ status[j] = "Running"
    /\ status' = [status EXCEPT ![j] = "Completed"]
    /\ reserved' = Released(j, reserved)
    /\ consumed' = [consumed EXCEPT ![j] = [c \in Coils |-> 0]]
    /\ UNCHANGED <<register, ledger, opening, drawn, tail, remaining, queue, moves>>
    /\ Clean

\* undoSingleCompletedCoilLineTx, for every row of a completed job: kg taken
\* and tail cleared go back, and the opening kg is reserved again.
Undone(j) == IF status[j] \in {"Completed", "completed"} THEN Rows(j) ELSE {}
BackOn(j) == [c \in Coils |->
    remaining[c] + IF c \in Undone(j) THEN consumed[j][c] + tail[j][c] ELSE 0]
HeldAgain(j) == [c \in Coils |->
    IF c \in Undone(j) THEN Least(reserved[c] + opening[j][c], BackOn(j)[c]) ELSE reserved[c]]
DrawnBack(j) == [c \in Coils |->
    drawn[j][c] - IF c \in Undone(j) THEN consumed[j][c] ELSE 0]
TailBack(j) == [c \in Coils |-> IF c \in Undone(j) THEN 0 ELSE tail[j][c]]
\* The tail that comes back is also logged as an undo_finish_roll event.
Relogged(j) == {c \in Undone(j) : tail[j][c] > 0}
NetBack(j) == [c \in Coils |->
    finishNet[c] - IF c \in Relogged(j) THEN tail[j][c] ELSE 0]

\* Rows that trade coils among themselves meet the unique index on job and coil.
Swaps(from, applied) ==
    \E cs \in SUBSET applied \ {{}} :
        /\ \A d \in cs : from[d] # d
        /\ {d \in DOMAIN from : from[d] \in cs} = cs

\* applyCompletedProductionCoilCorrections: every row is undone, then the rows
\* in applied are charged to a coil and applied again, and one more line may be
\* added (kg on coil extra).  If all are, the reservations are recalculated.
\* Otherwise an error stopped it: the route throws, but to consume the approval
\* has committed its transaction, so the rows left undone stay undone.
Correct(j, from, extra, kg, use, fin, applied) ==
    LET charged == {d \in Coils : d = extra \/ from[d] \in applied}
        aside == Rows(j) \ applied
        open == [d \in Coils |-> IF d = extra THEN kg
                                 ELSE IF d \in charged THEN OpeningOf(j, from, d) ELSE 0]
        left == [d \in Coils |-> Clamp(BackOn(j)[d] - use[d])]
        cleared == {d \in fin : left[d] > 0}
        held == [d \in Coils |->
                   Least(Clamp(HeldAgain(j)[d] + (IF d = extra THEN kg ELSE 0) - open[d]),
                         IF d \in fin THEN 0 ELSE left[d])]
        touched == Rows(j) \cup charged
    IN /\ Move
       /\ status[j] = "Completed"
       /\ touched # {} /\ \A d \in touched : received[d] > 0
       /\ charged \cap aside = {} /\ ~Swaps(from, applied)
       /\ extra \in Coils => from[extra] = NoCoil /\ kg <= BackOn(j)[extra] - HeldAgain(j)[extra]
       /\ \A d \in Coils : Reads(open[d], use[d])
       /\ MayFinish(open, use, fin)
       /\ opening' = [opening EXCEPT ![j] = [d \in Coils |->
             IF d \in aside THEN @[d] ELSE open[d]]]
       /\ consumed' = [consumed EXCEPT ![j] = [d \in Coils |->
             IF d \in aside THEN @[d] ELSE use[d]]]
       /\ remaining' = [d \in Coils |-> IF d \in fin THEN 0 ELSE left[d]]
       /\ drawn' = [drawn EXCEPT ![j] = [d \in Coils |-> DrawnBack(j)[d] + use[d]]]
       /\ tail' = [tail EXCEPT ![j] = [d \in Coils |->
             TailBack(j)[d] + (IF d \in cleared THEN left[d] ELSE 0)]]
       /\ finishLogged' = [d \in Coils |->
             finishLogged[d] \/ d \in Relogged(j) \cup cleared]
       /\ finishNet' = [d \in Coils |->
             NetBack(j)[d] + (IF d \in cleared THEN left[d] ELSE 0)]
       /\ UNCHANGED <<register, ancillary, confirmed, status, queue>>
       /\ IF aside = {} THEN Recalculated(held, touched) ELSE reserved' = held
       /\ MayLoosen(touched)
       /\ MayDrift(touched)

\* restoreCoilKgHeldByDeletedProductionJobs: movements of a deleted job that
\* still hold kg are put back, up to the kg received.  on and net: the kg on
\* hand and the movements the handler itself left; done: the coils reached.
Held(net) == {c \in Coils : net[c] > 0}
GivenBack(on, net, done) ==
    [c \in Coils |-> IF c \in done
                     THEN Least(Clamp(net[c]), Clamp(received[c] - on[c])) ELSE 0]

\* adminForceRecallAndDeleteCuttingList: a completed job is undone, then the
\* rows are released and the job deleted; the restore follows the commit.
ForceRecall(j) ==
    /\ status[j] \in OpenStatuses \cup {"Completed", "completed", "unfinished"}
    /\ status' = [status EXCEPT ![j] = "gone"]
    /\ RowsDeleted(j)
    /\ tail' = [tail EXCEPT ![j] = TailBack(j)]
    /\ finishLogged' = [c \in Coils |-> finishLogged[c] \/ c \in Relogged(j)]
    /\ finishNet' = NetBack(j)
    /\ reserved' = Released(j, HeldAgain(j))
    /\ \E done \in SUBSET Held(DrawnBack(j)) :
          LET given == GivenBack(BackOn(j), DrawnBack(j), done)
          IN /\ remaining' = [c \in Coils |-> BackOn(j)[c] + given[c]]
             /\ drawn' = [drawn EXCEPT ![j] = [c \in Coils |-> DrawnBack(j)[c] - given[c]]]
             /\ Follow(Held(DrawnBack(j)), done)
    /\ UNCHANGED <<register, ancillary, confirmed, moves>>
    /\ MayLoosen(IF status[j] \in OpenStatuses THEN {} ELSE Rows(j))
    /\ MayDrift(Undone(j))

\* deleteCuttingListIfAllowed, and the restore its handler makes.  The rows go
\* with the job.  A text of no meaning will do once a return has taken the list
\* off the register, which is left open.
DeleteList(j) ==
    /\ status[j] \in {"Cancelled", "Returned", "cancelled", "other"}
    /\ status' = [status EXCEPT ![j] = "gone"]
    /\ RowsDeleted(j)
    /\ \E done \in SUBSET Held(drawn[j]) :
          LET given == GivenBack(remaining, drawn[j], done)
          IN /\ remaining' = [c \in Coils |-> remaining[c] + given[c]]
             /\ drawn' = [drawn EXCEPT ![j] = [c \in Coils |-> @[c] - given[c]]]
             /\ Follow(Held(drawn[j]), done)
    /\ UNCHANGED <<register, ledger, tail, reserved, moves>>
    /\ Clean

-----------------------------------------------------------------------------
(* The coil register.                                                        *)

Kg == 1..MaxKg

\* Variant: reserved kg may be scrapped.
ScrapAny(c, kg) ==
    /\ Move
    /\ kg \in 1..remaining[c]
    /\ remaining' = [remaining EXCEPT ![c] = @ - kg]
    /\ ancillary' = [ancillary EXCEPT ![c] = @ - kg]
    /\ UNCHANGED <<register, finishLogged, finishNet, confirmed, rows, reserved, status, queue>>
    /\ Clean
\* postCoilScrap, markCoilStainedDamaged, a count or an edit that lowers the kg.
Scrap(c, kg) ==
    /\ Move
    /\ kg \in 1..(remaining[c] - reserved[c])
    /\ remaining' = [remaining EXCEPT ![c] = @ - kg]
    /\ ancillary' = [ancillary EXCEPT ![c] = @ - kg]
    /\ UNCHANGED <<register, finishLogged, finishNet, confirmed, rows, reserved, status, queue>>
    /\ Clean

\* postCoilScrap with allowReservedKg: what no longer fits is taken off the
\* rows of open jobs (shrinkActiveCoilJobAllocationsTx), the job named first.
ScrapReserved(c, kg, j) ==
    LET left == remaining[c] - kg
        cut == Clamp(reserved[c] - left)
        openOthers == {i \in Jobs \ {j} : status[i] \in OpenStatuses}
        others == SumFunction([i \in openOthers |-> opening[i][c]])
    IN /\ Move
       /\ status[j] \in OpenStatuses
       /\ left \in 0..(reserved[c] - 1)
       /\ \E next \in [Jobs -> 0..MaxKg] :
             /\ \A i \in Jobs : IF status[i] \in OpenStatuses
                                THEN next[i] <= opening[i][c] ELSE next[i] = opening[i][c]
             /\ next[j] = Clamp(opening[j][c] - cut)
             /\ next[j] > 0 => \A i \in Jobs \ {j} : next[i] = opening[i][c]
             /\ SumFunctionOnSet(next, openOthers) = Clamp(others - Clamp(cut - opening[j][c]))
             /\ opening' = [i \in Jobs |-> [opening[i] EXCEPT ![c] = next[i]]]
       /\ remaining' = [remaining EXCEPT ![c] = left]
       /\ reserved' = [reserved EXCEPT ![c] = left]
       /\ ancillary' = [ancillary EXCEPT ![c] = @ - kg]
       /\ UNCHANGED <<register, finishLogged, finishNet, confirmed, consumed, drawn, tail,
                      status, queue>>
       /\ Clean

\* A count or an edit that raises the kg; also returnCoilMaterialToStock, which
\* is refused above the kg received.
Gain(c, kg) ==
    /\ Move
    /\ received[c] > 0
    /\ remaining' = [remaining EXCEPT ![c] = @ + kg]
    /\ ancillary' = [ancillary EXCEPT ![c] = @ + kg]
    /\ UNCHANGED <<register, finishLogged, finishNet, confirmed, rows, reserved, status, queue>>
    /\ Clean
ReturnToStock(c, kg) == remaining[c] + kg <= received[c] /\ Gain(c, kg)

\* patchCoilLotMasterData with receivedKg, and perhaps the kg on hand: to on.
\* If none are named, the kg on hand follow the kg received where the two were
\* the same.  The movement is posted too, so the book counts the change twice;
\* the book of the coil it was split from counts it as well.  (A correction to
\* no kg at all is left out: here it means not on the register.)
PatchReceived(c, rk, on) ==
    LET follows == IF remaining[c] = received[c] THEN rk ELSE remaining[c]
    IN /\ Move
       /\ received[c] > 0 /\ rk > 0 /\ rk # received[c]
       /\ on = remaining[c] => on = follows
       /\ on = remaining[c] \/ on >= reserved[c]
       /\ received' = [received EXCEPT ![c] = rk]
       /\ remaining' = [remaining EXCEPT ![c] = on]
       /\ ancillary' = [ancillary EXCEPT ![c] = @ + on - remaining[c]]
       /\ UNCHANGED <<parent, finishLogged, finishNet, confirmed, rows, reserved, status, queue>>
       /\ MayLoosen({}) /\ MayDrift({c} \cup {d \in Coils : parent[c] = d})

\* splitCoilLot: coil d, new on the register, is cut from c.
Split(c, d, kg) ==
    /\ Move
    /\ received[c] > 0 /\ received[d] = 0
    /\ kg \in 1..(remaining[c] - reserved[c])
    /\ received' = [received EXCEPT ![d] = kg]
    /\ remaining' = [remaining EXCEPT ![c] = @ - kg, ![d] = kg]
    /\ reserved' = [reserved EXCEPT ![d] = 0]
    /\ parent' = [parent EXCEPT ![d] = c]
    /\ UNCHANGED <<ledger, rows, status, queue>>
    /\ Clean

\* postCoilRollFinished on the coil profile or, for any kg, on stock
\* confirmation, whose movement the book also counts as kg drawn; and the
\* manual finish of finished goods.  OtherTails: tails of jobs the first
\* control event hides from the book.
OtherTails(c) == ~finishLogged[c] /\ \E j \in Jobs : tail[j][c] > 0
FinishRoll(c, confirm) ==
    /\ Move
    /\ reserved[c] = 0 /\ remaining[c] > 0
    /\ confirm \/ remaining[c] < TailMax
    /\ remaining' = [remaining EXCEPT ![c] = 0]
    /\ finishLogged' = [finishLogged EXCEPT ![c] = TRUE]
    /\ finishNet' = [finishNet EXCEPT ![c] = @ + remaining[c]]
    /\ confirmed' = [confirmed EXCEPT ![c] = @ + IF confirm THEN remaining[c] ELSE 0]
    /\ UNCHANGED <<register, ancillary, rows, reserved, status, queue>>
    /\ MayLoosen({})
    /\ MayDrift(IF confirm \/ OtherTails(c) \/ finishNet[c] < 0 THEN {c} ELSE {})

\* postCoilUndoFinishRoll: the kg the payload names, or the tail on the book.
UndoFinish(c, kg) ==
    /\ Move
    /\ received[c] > 0 /\ kg \in 1..TailMax
    /\ remaining' = [remaining EXCEPT ![c] = @ + kg]
    /\ finishLogged' = [finishLogged EXCEPT ![c] = TRUE]
    /\ finishNet' = [finishNet EXCEPT ![c] = @ - kg]
    /\ UNCHANGED <<register, ancillary, confirmed, rows, reserved, status, queue>>
    /\ MayLoosen({})
    /\ MayDrift(IF kg = FinishTail(c) THEN {} ELSE {c})

\* POST reconcile-reservation: reconcileCoilReservationFromProductionJobs.
ReconcileReservation(c) ==
    /\ Fits(c)
    /\ reserved' = [reserved EXCEPT ![c] = OpenKg(c)]
    /\ UNCHANGED <<register, ledger, rows, remaining, status, queue, moves>>
    /\ Clean

\* Variant: the kg a job that still stands drew are owed as well.
OwedByAny(j, c) == Clamp(drawn[j][c])
\* What a deleted job drew and was not given back.
Owed(j, c) == IF status[j] = "gone" THEN Clamp(drawn[j][c]) ELSE 0
\* The kg a restore gives back: what deleted jobs drew and, since its reference
\* is no job either, what was finished on stock confirmation, up to the kg
\* received.
GivenKg(c) == Least(SumFunction([j \in Jobs |-> Owed(j, c)]) + confirmed[c],
                    Clamp(received[c] - remaining[c]))
\* Variant: the movements still show the kg as drawn.
PostedNothing(c, given, conf) == UNCHANGED <<drawn, confirmed>>
\* The movements that say so: kg of each job, and of confirmations.
Posted(c, given, conf) ==
    /\ drawn' = [j \in Jobs |-> [drawn[j] EXCEPT ![c] = @ - given[j]]]
    /\ confirmed' = [confirmed EXCEPT ![c] = @ - conf]
\* restoreCoilKgHeldByDeletedProductionJobs of one coil.  How the kg are split,
\* by the order of the movements, is left open.
Restore(c, given, conf) ==
    /\ \A j \in Jobs : given[j] <= Owed(j, c)
    /\ conf <= confirmed[c]
    /\ SumFunction(given) + conf = GivenKg(c)
    /\ Posted(c, given, conf)
\* GET production-holders.
ShowHolders(c) ==
    /\ \E conf \in 0..GivenKg(c), given \in [Jobs -> 0..GivenKg(c)] : Restore(c, given, conf)
    /\ remaining' = [remaining EXCEPT ![c] = @ + GivenKg(c)]
    /\ UNCHANGED <<register, ancillary, finishLogged, finishNet, opening, consumed, tail,
                   reserved, status, queue, moves>>
    /\ Clean
\* The process dies in a restore, which is no transaction: kg of one more job,
\* or confirmation, are on the coil and their movement is not posted.  That is
\* also what is left when it dies in the restore after a recall or a deletion.
RestoreDies(c) ==
    /\ \E kg \in 1..GivenKg(c), conf \in 0..GivenKg(c), given \in [Jobs -> 0..GivenKg(c)] :
          LET posted == SumFunction(given) + conf
              room == Clamp(received[c] - remaining[c]) - posted
          IN /\ \A j \in Jobs : given[j] \in {0, Owed(j, c)}
             /\ conf <= confirmed[c]
             /\ kg <= room
             /\ \/ kg = Least(confirmed[c] - conf, room)
                \/ \E j \in Jobs : given[j] = 0 /\ kg = Least(Owed(j, c), room)
             /\ remaining' = [remaining EXCEPT ![c] = @ + posted + kg]
             /\ Posted(c, given, conf)
    /\ Dies
    /\ UNCHANGED <<register, ancillary, finishLogged, finishNet, opening, consumed, tail,
                   reserved, status, moves>>
    /\ MayLoosen({}) /\ MayDrift({c})

\* Variant: the book is written over the kg on hand, up or down.
RecalculateCoilBothWays(c) ==
    /\ remaining' = [remaining EXCEPT ![c] = Expected(c)]
    /\ reserved' = [reserved EXCEPT ![c] = Least(reserved[c], Expected(c))]
    /\ UNCHANGED <<register, ledger, rows, status, queue, moves>>
    /\ Clean
\* recalculateAllCoilProductionJobStock: restores what deleted jobs hold,
\* recalculates the coils of every job with a row on c, then takes off c what
\* the book no longer has (never more than leaves the reservation covered), and
\* reconciles its reservation.
RecalculateCoil(c) ==
    LET holders == {j \in Jobs : c \in Rows(j)}
        touched == UNION {Rows(j) : j \in holders}
    IN /\ UNCHANGED <<register, ancillary, finishLogged, finishNet, opening, consumed, tail,
                      status, queue, moves>>
       /\ \E conf \in 0..GivenKg(c), given \in [Jobs -> 0..GivenKg(c)] :
          /\ Restore(c, given, conf)
          /\ \E on \in {remaining[c] + GivenKg(c)}, book \in {Expected(c)'} :
             LET Blocks(held) == book # on /\ book < held
                 held == IF holders # {} /\ ~Blocks(reserved[c]) /\ OpenKg(c) \in 0..on
                         THEN OpenKg(c) ELSE reserved[c]
                 left == IF book \in held..on THEN book ELSE on
             IN /\ remaining' = [remaining EXCEPT ![c] = left]
                /\ reserved' = [d \in Coils |->
                     IF d = c THEN IF ~Blocks(held) /\ OpenKg(c) \in 0..left
                                   THEN OpenKg(c) ELSE held
                     ELSE IF d \in touched /\ Fits(d) /\ ~BookBlocks(d, reserved[d])
                          THEN OpenKg(d) ELSE reserved[d]]
       /\ Clean

\* POST recalculate-stock of a job: recalculateProductionJobCoilStock.
RecalculateJob(j, extra) ==
    /\ status[j] \notin {"none", "gone"}
    /\ UNCHANGED <<register, ledger, rows, remaining, status, queue, moves>>
    /\ Recalculated(reserved, Rows(j) \cup extra)
    /\ Clean

-----------------------------------------------------------------------------
(* The event loop.                                                           *)

Due(r) == IF status[r.job] = "gone" THEN {} ELSE Rows(r.job) \cup r.extra

\* Variant: the callback is taken from the queue and does nothing.
RunDeferredIdle ==
    /\ pending # <<>>
    /\ pending' = Tail(pending)
    /\ UNCHANGED <<register, ledger, rows, stock, status, moves, loose, drifted, lost>>
\* The setImmediate callback: recalculateProductionJobCoilStock.
RunDeferred ==
    /\ pending # <<>>
    /\ pending' = Tail(pending)
    /\ UNCHANGED <<register, ledger, rows, remaining, status, moves, lost>>
    /\ Recalculated(reserved, Due(Head(pending)))
    /\ Clean

\* The process dies, perhaps in the middle of the callback.
Crash ==
    /\ pending # <<>>
    /\ Dies
    /\ UNCHANGED <<register, ledger, rows, remaining, status, moves>>
    /\ \E done \in SUBSET Due(Head(pending)) : Recalculated(reserved, done)
    /\ Clean

PlanningStep(j) ==
    \/ Register(j)
    \/ \E want \in [Coils -> 0..MaxKg] : SaveAllocations(j, want)
    \/ \E c \in Coils, kg \in Kg : AppendCoil(j, c, kg)
    \/ Start(j)
    \/ \E c, d \in Coils : RunLog(j, c, d)
    \/ ReturnToPlanned(j)
    \/ \E next \in {"Cancelled", "Returned"} : Unwind(j, next)
    \/ \E next \in {"Planned"} \cup Texts : PatchStatus(j, next)
    \/ \E extra \in SUBSET (Coils \ Rows(j)) : RecalculateJob(j, extra)

CompletionStep(j) ==
    \/ /\ status[j] = "Running"
       /\ \E from \in Postings(j) : \E use \in [Coils -> 0..MaxKg], fin \in SUBSET Coils :
             Complete(j, from, use, fin)
    \/ /\ status[j] = "Completed" /\ moves < MaxMoves
       /\ \E from \in Postings(j), extra \in Coils \cup {NoCoil}, kg \in Kg :
             \E use \in [Coils -> 0..MaxKg], fin \in SUBSET Coils, applied \in SUBSET Rows(j) :
                Correct(j, from, extra, kg, use, fin, applied)
    \/ CompleteWithoutCoil(j)
    \/ ForceRecall(j)
    \/ DeleteList(j)

RegisterStep(c) ==
    \/ \E kg \in Kg : \/ Scrap(c, kg)
                      \/ \E j \in Jobs : ScrapReserved(c, kg, j)
                      \/ Gain(c, kg)
                      \/ ReturnToStock(c, kg)
                      \/ \E rk \in {received[c] - kg, received[c] + kg} :
                            \E on \in {remaining[c], rk} : PatchReceived(c, rk, on)
                      \/ \E d \in Coils : Split(c, d, kg)
    \/ \E kg \in 1..TailMax : UndoFinish(c, kg)
    \/ \E confirm \in BOOLEAN : FinishRoll(c, confirm)
    \/ ReconcileReservation(c)
    \/ ShowHolders(c)
    \/ RestoreDies(c)
    \/ RecalculateCoil(c)

Next == \/ \E j \in Jobs : PlanningStep(j) \/ CompletionStep(j)
        \/ \E c \in Coils : RegisterStep(c)
        \/ RunDeferred
        \/ Crash

\* Fairness: Node runs a setImmediate callback once the handlers of the turn
\* are done, so a waiting callback is not put off for ever.
Spec == Init /\ [][Next]_vars /\ WF_vars(RunDeferred)

-----------------------------------------------------------------------------
(* Properties.                                                               *)

CoilType == /\ received \in [Coils -> Nat]
            /\ remaining \in [Coils -> Nat]
            /\ reserved \in [Coils -> Nat]
            /\ parent \in [Coils -> Coils \cup {NoCoil}]
LedgerType == /\ ancillary \in [Coils -> Int]
              /\ finishLogged \in [Coils -> BOOLEAN]
              /\ finishNet \in [Coils -> Int]
              /\ confirmed \in [Coils -> Nat]
JobType == /\ status \in [Jobs -> Statuses]
           /\ opening \in [Jobs -> [Coils -> Nat]]
           /\ consumed \in [Jobs -> [Coils -> Nat]]
           /\ drawn \in [Jobs -> [Coils -> Int]]
           /\ tail \in [Jobs -> [Coils -> Nat]]
QueueType == /\ pending \in Seq([job : Jobs, extra : SUBSET Coils])
             /\ moves \in 0..MaxMoves
             /\ lost \in BOOLEAN
             /\ loose \in SUBSET Coils
             /\ drifted \in SUBSET Coils
\* Every variable has its shape; the kg on hand, reserved, taken and cleared are
\* never negative, whatever the clamps and the order of undo and release.
TypeOK == CoilType /\ LedgerType /\ JobType /\ QueueType

\* No coil promises more kg than it has, through any interleaving of jobs,
\* corrections, register postings and recalculations.
ReservedFits == \A c \in Coils : reserved[c] <= remaining[c]

\* The kg reserved on a coil are what the open jobs' rows hold, so the steel of
\* two jobs always fits on it.  Only the steps that MayLoosen break this, and a
\* recalculation that goes through repairs it.
ReservedExact == \A c \in Coils \ loose : reserved[c] = OpenKg(c)

\* The kg on hand are what the book rebuilds from rows, movements, splits and
\* events, so "recalculate stock" changes nothing; through completions,
\* recalls, restores of deleted jobs and register postings in any order.
BookExact == \A c \in Coils \ drifted : remaining[c] = Book(c)

\* The movements of a job cover what its completed row shows as consumed, and a
\* job that is not completed was never given back more than it drew: recall,
\* deletion and the restores after them, in any order, give back once.
MovementsCover == \A c \in Coils \ drifted : Covered(c)

\* Kg come back onto a coil only with a posting that says so, in the movements,
\* the register or the control events; no recalculation puts steel back.  The
\* one exception is a process that dies in a restore.
RestoreIsPosted ==
    \A c \in Coils : remaining'[c] > remaining[c] =>
        \/ received[c] = 0
        \/ ancillary'[c] > ancillary[c]
        \/ finishNet'[c] < finishNet[c]
        \/ confirmed'[c] < confirmed[c]
        \/ \E j \in Jobs : drawn'[j][c] < drawn[j][c]
        \/ RestoreDies(c)
NoSilentRestore == [][RestoreIsPosted]_vars

\* A recalculation put off is not forgotten: the coils of the job end up with
\* the kg its rows reserve, unless the coil is over-committed, the book blocks
\* it, the row has left the coil, or a crash dropped the queue.
Waits(j, c) == c \in Rows(j) /\ \E i \in 1..Len(pending) : pending[i].job = j
QueuedRecalcSettles ==
    \A j \in Jobs, c \in Coils :
        Waits(j, c) ~> \/ reserved[c] = OpenKg(c)
                       \/ ~Fits(c)
                       \/ BookBlocks(c, reserved[c])
                       \/ c \notin Rows(j)
                       \/ lost
=============================================================================
