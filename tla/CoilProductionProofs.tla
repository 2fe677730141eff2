------------------------ MODULE CoilProductionProofs -------------------------
(* Theorems about CoilProduction, for any jobs, coils, received kg and       *)
(* bounds.  What the sums over jobs amount to is left to CoilBookProofs: a   *)
(* recalculation only writes a sum where the kg on hand cover it.            *)
EXTENDS CoilProduction, SumTheorems

\* The inductive invariant.  ReservedFits holds of every step on its own, but a
\* recalculation or a release needs the shapes of rows and kg.
IInv == TypeOK /\ ReservedFits

\* What every step is shown to do.
Keeps == IInv' /\ RestoreIsPosted

LEMMA ClampNat == \A x \in Int : Clamp(x) \in Nat /\ (x >= 0 => Clamp(x) = x)
                                 /\ (x < 0 => Clamp(x) = 0)
  BY DEF Clamp

LEMMA LeastIs == \A x, y \in Int : Least(x, y) \in {x, y} /\ Least(x, y) <= x /\ Least(x, y) <= y
  BY DEF Least

\* A recalculation leaves no coil with more reserved than it has, if the handler
\* did not.
LEMMA RecalculatedFits ==
  ASSUME NEW held, NEW touched,
         held \in [Coils -> Nat], remaining' \in [Coils -> Nat],
         \A c \in Coils : held[c] <= remaining'[c],
         Recalculated(held, touched)
  PROVE  reserved' \in [Coils -> Nat] /\ ReservedFits'
<1>1. \A c \in Coils : reserved'[c] \in Nat /\ reserved'[c] <= remaining'[c]
  BY SMT DEF Recalculated, Fits
<1>2. reserved' \in [Coils -> Nat]
  BY <1>1 DEF Recalculated
<1> QED  BY <1>1, <1>2 DEF ReservedFits

LEMMA InitIInv == Init => IInv
<1> SUFFICES ASSUME Init PROVE IInv OBVIOUS
<1>1. CoilType
  BY CoilAssumption DEF Init, CoilType
<1>2. LedgerType
  BY DEF Init, LedgerType
<1>3. JobType
  BY DEF Init, JobType, Statuses
<1>4. QueueType
  <2>1. pending \in Seq([job : Jobs, extra : SUBSET Coils])
    <3> DEFINE S == [job : Jobs, extra : SUBSET Coils]
    <3>1. pending = <<>>  BY DEF Init
    <3> HIDE DEF S
    <3>2. pending \in Seq(S)  BY <3>1
    <3> QED  BY <3>2 DEF S
  <2>2. moves \in 0..MaxMoves
    BY CoilAssumption DEF Init
  <2>3. lost \in BOOLEAN /\ loose \in SUBSET Coils /\ drifted \in SUBSET Coils
    BY Zenon DEF Init
  <2> QED  BY <2>1, <2>2, <2>3 DEF QueueType
<1>5. ReservedFits
  BY CoilAssumption DEF Init, ReservedFits
<1> QED  BY <1>1, <1>2, <1>3, <1>4, <1>5 DEF IInv, TypeOK

LEMMA RegisterKeeps ==
  ASSUME IInv, NEW j \in Jobs, Register(j) PROVE Keeps
<1> USE DEF IInv, TypeOK, Register, register, ledger, rows, stock, queue
<1>1. CoilType' /\ LedgerType' /\ QueueType' BY DEF CoilType, LedgerType, QueueType
<1>2. JobType'  BY DEF JobType, Statuses, OpenStatuses
<1>3. ReservedFits' /\ RestoreIsPosted  BY DEF CoilType, ReservedFits, RestoreIsPosted
<1> QED  BY <1>1, <1>2, <1>3 DEF Keeps

\* What the history variables and the move counter may become.
LEMMA HistoryType ==
  ASSUME QueueType, NEW ls \in SUBSET Coils, NEW ds \in SUBSET Coils,
         MayLoosen(ls), MayDrift(ds)
  PROVE  loose' \in SUBSET Coils /\ drifted' \in SUBSET Coils
  BY Zenon DEF QueueType, MayLoosen, MayDrift

LEMMA CleanType ==
  ASSUME QueueType, Clean
  PROVE  loose' \in SUBSET Coils /\ drifted' \in SUBSET Coils
  BY HistoryType, Zenon DEF Clean

LEMMA MoveType ==
  ASSUME QueueType, Move PROVE moves' \in 0..MaxMoves
  BY CoilAssumption DEF QueueType, Move

LEMMA DiesType ==
  ASSUME QueueType, Dies
  PROVE  /\ pending' \in Seq([job : Jobs, extra : SUBSET Coils])
         /\ lost' \in BOOLEAN
<1> DEFINE S == [job : Jobs, extra : SUBSET Coils]
<1>1. pending' = <<>> /\ lost' \in BOOLEAN  BY Zenon DEF QueueType, Dies
<1> HIDE DEF S
<1>2. pending' \in Seq(S)  BY <1>1
<1> QED  BY <1>1, <1>2 DEF S

LEMMA FollowType ==
  ASSUME QueueType, NEW due, NEW done, Follow(due, done)
  PROVE  /\ pending' \in Seq([job : Jobs, extra : SUBSET Coils])
         /\ lost' \in BOOLEAN
<1> DEFINE S == [job : Jobs, extra : SUBSET Coils]
<1>1. CASE UNCHANGED queue  BY <1>1, Zenon DEF QueueType, queue
<1>2. CASE Dies  BY <1>2, DiesType
<1> QED  BY <1>1, <1>2 DEF Follow

LEMMA DeferType ==
  ASSUME QueueType, NEW j \in Jobs, NEW extra \in SUBSET Coils, Defer(j, extra)
  PROVE  /\ pending' \in Seq([job : Jobs, extra : SUBSET Coils])
         /\ lost' \in BOOLEAN
<1> DEFINE S == [job : Jobs, extra : SUBSET Coils]
           r == [job |-> j, extra |-> extra]
<1>1. r \in S  OBVIOUS
<1>2. pending \in Seq(S) /\ pending' = Append(pending, r) /\ lost' = FALSE
  BY DEF QueueType, Defer
<1> HIDE DEF S, r
<1>3. pending' \in Seq(S)  BY <1>1, <1>2
<1>4. lost' \in BOOLEAN  BY <1>2, Zenon
<1> QED  BY <1>3, <1>4 DEF S

LEMMA SaveAllocationsKeeps ==
  ASSUME IInv, NEW j \in Jobs, NEW want \in [Coils -> 0..MaxKg], SaveAllocations(j, want)
  PROVE  Keeps
<1> DEFINE due == Rows(j) \cup {c \in Coils : want[c] > 0}
           held == [c \in Coils |->
                      Least(Clamp(reserved[c] + want[c] - opening[j][c]), remaining[c])]
<1>1. QueueType /\ CoilType /\ LedgerType /\ JobType  BY DEF IInv, TypeOK
<1>2. PICK done \in SUBSET due : Recalculated(held, done) /\ Follow(due, done)
  BY Zenon DEF SaveAllocations
<1>3. /\ opening' = [opening EXCEPT ![j] = want]
      /\ consumed' = [consumed EXCEPT ![j] = [c \in Coils |-> 0]]
      /\ UNCHANGED <<received, parent, ancillary, finishLogged, finishNet, confirmed,
                     drawn, tail, remaining, status, moves>>
      /\ status[j] = "Planned" /\ Clean
  BY Zenon DEF SaveAllocations, register, ledger
<1>4. held \in [Coils -> Nat] /\ \A c \in Coils : held[c] <= remaining'[c]
  BY <1>1, <1>3, CoilAssumption DEF CoilType, JobType, Least, Clamp
<1> HIDE DEF held, due
<1>5. reserved' \in [Coils -> Nat] /\ ReservedFits'
  BY <1>1, <1>2, <1>3, <1>4, RecalculatedFits DEF CoilType
<1>6. CoilType' /\ LedgerType'  BY <1>1, <1>3, <1>5 DEF CoilType, LedgerType
<1>7. JobType'  BY <1>1, <1>3, CoilAssumption DEF JobType
<1>8. QueueType'  BY <1>1, <1>2, <1>3, FollowType, CleanType DEF QueueType
<1>10. RestoreIsPosted  BY <1>1, <1>3 DEF CoilType, RestoreIsPosted
<1> QED  BY <1>5, <1>6, <1>7, <1>8, <1>10 DEF Keeps, IInv, TypeOK

LEMMA AppendCoilKeeps ==
  ASSUME IInv, NEW j \in Jobs, NEW c \in Coils, NEW kg \in Kg, AppendCoil(j, c, kg)
  PROVE  Keeps
<1>1. QueueType /\ CoilType /\ LedgerType /\ JobType  BY DEF IInv, TypeOK
<1>2. /\ status[j] = "Running" /\ kg <= remaining[c] - reserved[c]
      /\ opening' = [opening EXCEPT ![j][c] = kg]
      /\ consumed' = [consumed EXCEPT ![j][c] = 0]
      /\ reserved' = [reserved EXCEPT ![c] = @ + kg]
      /\ Defer(j, {c}) /\ Clean
      /\ UNCHANGED <<received, parent, ancillary, finishLogged, finishNet, confirmed,
                     drawn, tail, remaining, status, moves>>
  BY Zenon DEF AppendCoil, register, ledger
<1>3. kg \in Nat  BY CoilAssumption DEF Kg
<1>4. CoilType' /\ ReservedFits'
  BY <1>1, <1>2, <1>3 DEF IInv, CoilType, ReservedFits
<1>5. LedgerType' /\ JobType'  BY <1>1, <1>2, <1>3 DEF LedgerType, JobType
<1>6. QueueType'  BY <1>1, <1>2, DeferType, CleanType DEF QueueType
<1>8. RestoreIsPosted  BY <1>1, <1>2 DEF CoilType, RestoreIsPosted
<1> QED  BY <1>4, <1>5, <1>6, <1>8 DEF Keeps, IInv, TypeOK

LEMMA StatusKeeps ==
  ASSUME IInv, NEW j \in Jobs, NEW next \in {"Planned"} \cup Texts,
         Start(j) \/ ReturnToPlanned(j) \/ PatchStatus(j, next)
  PROVE  Keeps
<1>1. QueueType /\ CoilType /\ LedgerType /\ JobType  BY DEF IInv, TypeOK
<1>2. PICK to \in OpenStatuses \cup Texts : status' = [status EXCEPT ![j] = to]
  BY Zenon DEF Start, ReturnToPlanned, PatchStatus, OpenStatuses
<1>3. UNCHANGED <<received, parent, ancillary, finishLogged, finishNet, confirmed, opening,
                  consumed, drawn, tail, remaining, reserved, pending, lost>>
  BY Zenon DEF Start, ReturnToPlanned, PatchStatus, register, ledger, rows, stock, queue
<1>4. CoilType' /\ LedgerType' /\ ReservedFits' /\ RestoreIsPosted
  BY <1>1, <1>3 DEF IInv, CoilType, LedgerType, ReservedFits, RestoreIsPosted
<1>5. JobType'
  <2>1. to \in Statuses  BY Zenon DEF Statuses
  <2> QED  BY <1>1, <1>2, <1>3, <2>1 DEF JobType
<1>6. moves' \in 0..MaxMoves /\ loose' \in SUBSET Coils /\ drifted' \in SUBSET Coils
  <2> DEFINE off == IF status[j] = "other" THEN Rows(j) ELSE {}
  <2>1. Rows(j) \in SUBSET Coils /\ off \in SUBSET Coils /\ {} \in SUBSET Coils  BY DEF Rows
  <2>2. CASE Start(j)
    <3>1. MayLoosen(off) /\ MayDrift({}) /\ moves' = moves  BY <2>2, Zenon DEF Start
    <3> HIDE DEF off
    <3> QED  BY <1>1, <2>1, <3>1, HistoryType DEF QueueType
  <2>3. CASE ReturnToPlanned(j)
    BY <1>1, <2>3, Zenon DEF QueueType, ReturnToPlanned
  <2>4. CASE PatchStatus(j, next)
    <3>1. Move /\ MayLoosen(Rows(j)) /\ MayDrift({})  BY <2>4, Zenon DEF PatchStatus
    <3> QED  BY <1>1, <2>1, <3>1, MoveType, HistoryType
  <2> QED  BY <2>2, <2>3, <2>4
<1>7. QueueType'  BY <1>1, <1>3, <1>6, Zenon DEF QueueType
<1> QED  BY <1>4, <1>5, <1>7 DEF Keeps, IInv, TypeOK

LEMMA RunLogKeeps ==
  ASSUME IInv, NEW j \in Jobs, NEW c \in Coils, NEW d \in Coils, RunLog(j, c, d)
  PROVE  Keeps
<1>1. QueueType /\ CoilType /\ LedgerType /\ JobType  BY DEF IInv, TypeOK
<1>2. /\ status[j] = "Running" /\ Defer(j, {}) /\ Clean
      /\ UNCHANGED <<received, parent, ancillary, finishLogged, finishNet, confirmed,
                     drawn, tail, remaining, status, moves>>
  BY Zenon DEF RunLog, register, ledger
<1>3. QueueType'  BY <1>1, <1>2, DeferType, CleanType DEF QueueType
<1>4. LedgerType' /\ RestoreIsPosted
  BY <1>1, <1>2 DEF LedgerType, CoilType, RestoreIsPosted
<1>5. CASE UNCHANGED <<opening, consumed, reserved>>
  <2>1. CoilType' /\ ReservedFits' /\ JobType'
    BY <1>1, <1>2, <1>5
    DEF IInv, CoilType, ReservedFits, JobType
  <2> QED  BY <1>3, <1>4, <2>1 DEF Keeps, IInv, TypeOK
<1>6. CASE /\ c \in Rows(j) /\ d \notin Rows(j)
           /\ opening[j][c] <= reserved[c]
           /\ reserved[d] + opening[j][c] <= remaining[d]
           /\ opening' = [opening EXCEPT ![j][c] = 0, ![j][d] = opening[j][c]]
           /\ consumed' = [consumed EXCEPT ![j][c] = 0, ![j][d] = 0]
           /\ reserved' = [reserved EXCEPT ![c] = @ - opening[j][c], ![d] = @ + opening[j][c]]
  <2>1. c # d /\ opening[j][c] \in Nat  BY <1>1, <1>6 DEF JobType
  <2>2. CoilType' /\ ReservedFits'
    BY <1>1, <1>2, <1>6, <2>1 DEF IInv, CoilType, ReservedFits
  <2>3. JobType'  BY <1>1, <1>2, <1>6 DEF JobType
  <2> QED  BY <1>3, <1>4, <2>2, <2>3 DEF Keeps, IInv, TypeOK
<1> QED  BY <1>5, <1>6, Zenon DEF RunLog

\* Releasing takes off kg; it never adds any.
LEMMA ReleasedLess ==
  ASSUME NEW j \in Jobs, JobType, NEW held, held \in [Coils -> Nat]
  PROVE  /\ Released(j, held) \in [Coils -> Nat]
         /\ \A c \in Coils : Released(j, held)[c] <= held[c]
  BY DEF JobType, Released, Clamp

LEMMA UnwindKeeps ==
  ASSUME IInv, NEW j \in Jobs, NEW next \in {"Cancelled", "Returned"}, Unwind(j, next)
  PROVE  Keeps
<1>1. QueueType /\ CoilType /\ LedgerType /\ JobType  BY DEF IInv, TypeOK
<1>2. /\ status' = [status EXCEPT ![j] = next]
      /\ reserved' = Released(j, reserved)
      /\ opening' = [opening EXCEPT ![j] = [c \in Coils |-> 0]]
      /\ consumed' = [consumed EXCEPT ![j] = [c \in Coils |-> 0]]
      /\ Clean
      /\ UNCHANGED <<received, parent, ancillary, finishLogged, finishNet, confirmed,
                     drawn, tail, remaining, pending, lost, moves>>
  BY Zenon DEF Unwind, RowsDeleted, register, ledger, queue
<1>3. reserved' \in [Coils -> Nat] /\ \A c \in Coils : reserved'[c] <= reserved[c]
  BY <1>1, <1>2, ReleasedLess DEF CoilType
<1>4. CoilType' /\ ReservedFits'
  BY <1>1, <1>2, <1>3 DEF IInv, CoilType, ReservedFits
<1>5. LedgerType' /\ RestoreIsPosted
  BY <1>1, <1>2 DEF LedgerType, CoilType, RestoreIsPosted
<1>6. JobType'  BY <1>1, <1>2 DEF JobType, Statuses, ClosedStatuses
<1>7. QueueType'  BY <1>1, <1>2, CleanType DEF QueueType
<1> QED  BY <1>4, <1>5, <1>6, <1>7 DEF Keeps, IInv, TypeOK

LEMMA PostingsOf ==
  ASSUME NEW j \in Jobs, JobType, NEW from \in Postings(j), NEW d \in Coils
  PROVE  OpeningOf(j, from, d) \in Nat
  BY DEF JobType, Postings, OpeningOf, Rows

LEMMA CompleteKeeps ==
  ASSUME IInv, NEW j \in Jobs, NEW from \in Postings(j), NEW use \in [Coils -> 0..MaxKg],
         NEW fin \in SUBSET Coils, Complete(j, from, use, fin)
  PROVE  Keeps
<1> DEFINE open == [d \in Coils |-> OpeningOf(j, from, d)]
           left == [d \in Coils |-> remaining[d] - use[d]]
           held == [d \in Coils |->
                      Least(Clamp(reserved[d] - open[d]), IF d \in fin THEN 0 ELSE left[d])]
           off == {d \in Coils : from[d] # Straight(j)[d]}
           drift == off \cup {d \in fin : finishLogged[d]}
           charged == [c \in Coils |->
                         IF c \in Rows(j) THEN use[CHOOSE d \in Coils : from[d] = c] ELSE 0]
<1>1. QueueType /\ CoilType /\ LedgerType /\ JobType  BY DEF IInv, TypeOK
<1>2. PICK done \in SUBSET Rows(j) : Recalculated(held, done) /\ Follow(Rows(j), done)
  BY Zenon DEF Complete
<1>3. /\ status[j] = "Running"
      /\ status' = [status EXCEPT ![j] = "Completed"]
      /\ remaining' = [d \in Coils |-> IF d \in fin THEN 0 ELSE left[d]]
      /\ consumed' = [consumed EXCEPT ![j] = charged]
      /\ drawn' = [drawn EXCEPT ![j] = [d \in Coils |-> @[d] + use[d]]]
      /\ tail' = [tail EXCEPT ![j] = [d \in Coils |->
            @[d] + (IF d \in fin THEN left[d] ELSE 0)]]
      /\ UNCHANGED <<received, parent, ancillary, finishLogged, finishNet, confirmed, opening>>
  BY Zenon DEF Complete, register, ledger
<1>4. /\ \A d \in Coils : use[d] <= remaining[d]
      /\ UNCHANGED moves \/ Move
      /\ MayLoosen(fin \cup off) /\ MayDrift(drift)
  BY Zenon DEF Complete
<1>5. \A d \in Coils : open[d] \in Nat /\ use[d] \in Nat /\ left[d] \in Nat /\ left[d] <= remaining[d]
  <2>1. \A d \in Coils : open[d] \in Nat  BY <1>1, PostingsOf
  <2>2. \A d \in Coils : use[d] \in Nat /\ left[d] \in Nat /\ left[d] <= remaining[d]
    BY <1>1, <1>4, CoilAssumption DEF CoilType
  <2> QED  BY <2>1, <2>2
<1>6. charged \in [Coils -> Nat]
  <2> SUFFICES ASSUME NEW c \in Coils, c \in Rows(j)
               PROVE  use[CHOOSE d \in Coils : from[d] = c] \in Nat
    BY DEF Rows
  <2>1. PICK e \in Coils : {d \in Coils : from[d] = c} = {e}  BY Zenon DEF Postings
  <2>2. \E d \in Coils : from[d] = c  BY <2>1
  <2>3. (CHOOSE d \in Coils : from[d] = c) \in Coils  BY <2>2, Zenon
  <2> QED  BY <2>3, <1>5
<1>7. remaining' \in [Coils -> Nat] /\ \A d \in Coils : remaining'[d] <= remaining[d]
  BY <1>1, <1>3, <1>5 DEF CoilType
<1>8. held \in [Coils -> Nat] /\ \A d \in Coils : held[d] <= remaining'[d]
  <2> HIDE DEF open, left
  <2>1. \A d \in Coils : reserved[d] \in Nat  BY <1>1 DEF CoilType
  <2> QED  BY <2>1, <1>3, <1>5 DEF Least, Clamp
<1> HIDE DEF open, left, held, charged
<1>9. reserved' \in [Coils -> Nat] /\ ReservedFits'
  BY <1>2, <1>7, <1>8, RecalculatedFits
<1>10. CoilType' /\ LedgerType'  BY <1>1, <1>3, <1>7, <1>9 DEF CoilType, LedgerType
<1>11. JobType'
  <2>1. status' \in [Jobs -> Statuses]  BY <1>1, <1>3 DEF JobType, Statuses
  <2>2. consumed' \in [Jobs -> [Coils -> Nat]]  BY <1>1, <1>3, <1>6 DEF JobType
  <2>3. drawn' \in [Jobs -> [Coils -> Int]]  BY <1>1, <1>3, <1>5 DEF JobType
  <2>4. tail' \in [Jobs -> [Coils -> Nat]]  BY <1>1, <1>3, <1>5 DEF JobType
  <2>5. opening' \in [Jobs -> [Coils -> Nat]]  BY <1>1, <1>3 DEF JobType
  <2> QED  BY <2>1, <2>2, <2>3, <2>4, <2>5 DEF JobType
<1>12. QueueType'
  <2>1. moves' \in 0..MaxMoves  BY <1>1, <1>4, MoveType DEF QueueType
  <2>2. off \in SUBSET Coils /\ drift \in SUBSET Coils  OBVIOUS
  <2> HIDE DEF off, drift
  <2>3. loose' \in SUBSET Coils /\ drifted' \in SUBSET Coils
    BY <1>1, <1>4, <2>2, HistoryType
  <2> QED  BY <1>1, <1>2, <2>1, <2>3, FollowType DEF QueueType
<1>14. RestoreIsPosted  BY <1>1, <1>7 DEF CoilType, RestoreIsPosted
<1> QED  BY <1>9, <1>10, <1>11, <1>12, <1>14 DEF Keeps, IInv, TypeOK

LEMMA CompleteWithoutCoilKeeps ==
  ASSUME IInv, NEW j \in Jobs, CompleteWithoutCoil(j) PROVE Keeps
<1>1. QueueType /\ CoilType /\ LedgerType /\ JobType  BY DEF IInv, TypeOK
<1>2. /\ status' = [status EXCEPT ![j] = "Completed"]
      /\ reserved' = Released(j, reserved)
      /\ consumed' = [consumed EXCEPT ![j] = [c \in Coils |-> 0]]
      /\ Clean
      /\ UNCHANGED <<received, parent, ancillary, finishLogged, finishNet, confirmed, opening,
                     drawn, tail, remaining, pending, lost, moves>>
  BY Zenon DEF CompleteWithoutCoil, register, ledger, queue
<1>3. reserved' \in [Coils -> Nat] /\ \A c \in Coils : reserved'[c] <= reserved[c]
  BY <1>1, <1>2, ReleasedLess DEF CoilType
<1>4. CoilType' /\ ReservedFits'
  BY <1>1, <1>2, <1>3 DEF IInv, CoilType, ReservedFits
<1>5. LedgerType' /\ RestoreIsPosted
  BY <1>1, <1>2 DEF LedgerType, CoilType, RestoreIsPosted
<1>6. JobType'  BY <1>1, <1>2 DEF JobType, Statuses
<1>7. QueueType'  BY <1>1, <1>2, CleanType DEF QueueType
<1> QED  BY <1>4, <1>5, <1>6, <1>7 DEF Keeps, IInv, TypeOK

\* What undoing the rows of a completed job gives back: the kg on hand grow, by
\* movements or by events that say so, and still cover what is reserved.
LEMMA UndoPosts ==
  ASSUME IInv, NEW j \in Jobs
  PROVE  /\ BackOn(j) \in [Coils -> Nat] /\ HeldAgain(j) \in [Coils -> Nat]
         /\ DrawnBack(j) \in [Coils -> Int] /\ TailBack(j) \in [Coils -> Nat]
         /\ NetBack(j) \in [Coils -> Int]
         /\ \A c \in Coils :
              /\ HeldAgain(j)[c] <= BackOn(j)[c]
              /\ BackOn(j)[c] - remaining[c]
                   = (drawn[j][c] - DrawnBack(j)[c]) + (finishNet[c] - NetBack(j)[c])
              /\ DrawnBack(j)[c] <= drawn[j][c]
              /\ NetBack(j)[c] <= finishNet[c]
<1>1. CoilType /\ LedgerType /\ JobType /\ ReservedFits  BY DEF IInv, TypeOK
<1>2. BackOn(j) \in [Coils -> Nat]  BY <1>1 DEF CoilType, JobType, BackOn
<1>3. HeldAgain(j) \in [Coils -> Nat] /\ \A c \in Coils : HeldAgain(j)[c] <= BackOn(j)[c]
  BY <1>1, <1>2 DEF CoilType, JobType, HeldAgain, Least, BackOn, ReservedFits
<1>4. DrawnBack(j) \in [Coils -> Int] /\ \A c \in Coils : DrawnBack(j)[c] <= drawn[j][c]
  BY <1>1 DEF JobType, DrawnBack
<1>5. TailBack(j) \in [Coils -> Nat]  BY <1>1 DEF JobType, TailBack
<1>6. NetBack(j) \in [Coils -> Int] /\ \A c \in Coils : NetBack(j)[c] <= finishNet[c]
  BY <1>1 DEF LedgerType, JobType, NetBack, Relogged
<1>7. \A c \in Coils : BackOn(j)[c] - remaining[c]
                         = (drawn[j][c] - DrawnBack(j)[c]) + (finishNet[c] - NetBack(j)[c])
  BY <1>1 DEF CoilType, LedgerType, JobType, BackOn, DrawnBack, NetBack, Relogged
<1> QED  BY <1>2, <1>3, <1>4, <1>5, <1>6, <1>7

LEMMA CorrectKeeps ==
  ASSUME IInv, NEW j \in Jobs, NEW from \in Postings(j), NEW extra \in Coils \cup {NoCoil},
         NEW kg \in Kg, NEW use \in [Coils -> 0..MaxKg], NEW fin \in SUBSET Coils,
         NEW applied \in SUBSET Rows(j), Correct(j, from, extra, kg, use, fin, applied)
  PROVE  Keeps
<1> DEFINE charged == {d \in Coils : d = extra \/ from[d] \in applied}
           aside == Rows(j) \ applied
           open == [d \in Coils |-> IF d = extra THEN kg
                                    ELSE IF d \in charged THEN OpeningOf(j, from, d) ELSE 0]
           left == [d \in Coils |-> Clamp(BackOn(j)[d] - use[d])]
           cleared == {d \in fin : left[d] > 0}
           held == [d \in Coils |->
                      Least(Clamp(HeldAgain(j)[d] + (IF d = extra THEN kg ELSE 0) - open[d]),
                            IF d \in fin THEN 0 ELSE left[d])]
           touched == Rows(j) \cup charged
           net == [d \in Coils |-> NetBack(j)[d] + (IF d \in cleared THEN left[d] ELSE 0)]
           took == [d \in Coils |-> DrawnBack(j)[d] + use[d]]
           tailed == [d \in Coils |-> TailBack(j)[d] + (IF d \in cleared THEN left[d] ELSE 0)]
           opened == [d \in Coils |-> IF d \in aside THEN opening[j][d] ELSE open[d]]
           used == [d \in Coils |-> IF d \in aside THEN consumed[j][d] ELSE use[d]]
<1>1. QueueType /\ CoilType /\ LedgerType /\ JobType  BY DEF IInv, TypeOK
<1>2. /\ remaining' = [d \in Coils |-> IF d \in fin THEN 0 ELSE left[d]]
      /\ drawn' = [drawn EXCEPT ![j] = took]
      /\ tail' = [tail EXCEPT ![j] = tailed]
      /\ finishNet' = net
      /\ UNCHANGED <<received, parent, ancillary, confirmed, status, pending, lost>>
  BY Zenon DEF Correct, register, queue
<1>2a. /\ opening' = [opening EXCEPT ![j] = opened]
       /\ consumed' = [consumed EXCEPT ![j] = used]
  <2>1. /\ opening' = [opening EXCEPT ![j] = [d \in Coils |->
              IF d \in aside THEN @[d] ELSE open[d]]]
        /\ consumed' = [consumed EXCEPT ![j] = [d \in Coils |->
              IF d \in aside THEN @[d] ELSE use[d]]]
    BY Zenon DEF Correct
  <2> HIDE DEF open, aside
  <2> QED  BY <1>1, <2>1 DEF JobType
<1>3. /\ finishLogged' = [d \in Coils |-> finishLogged[d] \/ d \in Relogged(j) \cup cleared]
      /\ Recalculated(held, touched) \/ reserved' = held
      /\ Move /\ MayLoosen(touched) /\ MayDrift(touched)
  BY Zenon DEF Correct
<1>4. \A d \in Coils : open[d] \in Nat /\ use[d] \in Nat /\ left[d] \in Nat
  <2>1. \A d \in Coils : open[d] \in Nat
    <3> HIDE DEF charged
    <3> QED  BY <1>1, PostingsOf, CoilAssumption DEF Kg
  <2>2. \A d \in Coils : use[d] \in Nat /\ BackOn(j)[d] \in Nat
    BY UndoPosts, CoilAssumption
  <2>3. \A d \in Coils : left[d] \in Nat  BY <2>2, ClampNat
  <2> QED  BY <2>1, <2>2, <2>3
<1>5. \A d \in Coils : left[d] > 0 => left[d] = BackOn(j)[d] - use[d]
  BY <1>4, UndoPosts DEF Clamp
<1>6. kg \in Nat  BY CoilAssumption DEF Kg
<1>7. held \in [Coils -> Nat] /\ \A d \in Coils : held[d] <= (IF d \in fin THEN 0 ELSE left[d])
  <2>1. \A d \in Coils : HeldAgain(j)[d] \in Nat  BY UndoPosts
  <2> HIDE DEF open, left
  <2> QED  BY <2>1, <1>4, <1>6 DEF Least, Clamp
<1>8. took \in [Coils -> Int] /\ tailed \in [Coils -> Nat] /\ net \in [Coils -> Int]
  <2> HIDE DEF left, cleared
  <2> QED  BY <1>4, UndoPosts
<1>9. remaining' \in [Coils -> Nat] /\ \A d \in Coils : held[d] <= remaining'[d]
  <2> HIDE DEF left, held
  <2> QED  BY <1>2, <1>4, <1>7
<1>10. reserved' \in [Coils -> Nat] /\ ReservedFits'
  <2> HIDE DEF held, touched
  <2>1. CASE Recalculated(held, touched)  BY <2>1, <1>7, <1>9, RecalculatedFits
  <2>2. CASE reserved' = held  BY <2>2, <1>7, <1>9 DEF ReservedFits
  <2> QED  BY <1>3, <2>1, <2>2
<1>11. CoilType'  BY <1>1, <1>2, <1>9, <1>10 DEF CoilType
<1>12. LedgerType'
  <2> HIDE DEF net, cleared
  <2> QED  BY <1>1, <1>2, <1>3, <1>8 DEF LedgerType
<1>13. JobType'
  <2>1. opened \in [Coils -> Nat] /\ used \in [Coils -> Nat]
    <3> HIDE DEF open, aside
    <3> QED  BY <1>1, <1>4 DEF JobType
  <2> HIDE DEF opened, used, took, tailed
  <2> QED  BY <1>1, <1>2, <1>2a, <1>8, <2>1 DEF JobType
<1>14. QueueType'
  <2>1. touched \in SUBSET Coils  BY Zenon DEF Rows
  <2> HIDE DEF touched
  <2>2. loose' \in SUBSET Coils /\ drifted' \in SUBSET Coils
    BY <1>1, <1>3, <2>1, HistoryType
  <2>3. moves' \in 0..MaxMoves  BY <1>1, <1>3, MoveType
  <2> QED  BY <1>1, <1>2, <2>2, <2>3, Zenon DEF QueueType
<1>16. RestoreIsPosted
  <2> SUFFICES ASSUME NEW c \in Coils, remaining'[c] > remaining[c]
               PROVE  \/ finishNet'[c] < finishNet[c]
                      \/ \E i \in Jobs : drawn'[i][c] < drawn[i][c]
    BY Zenon DEF RestoreIsPosted
  <2>1. c \notin fin /\ c \notin cleared /\ remaining'[c] = left[c]
    <3> HIDE DEF left
    <3> QED  BY <1>1, <1>2 DEF CoilType
  <2>2. left[c] = BackOn(j)[c] - use[c] /\ left[c] > remaining[c]
    <3> HIDE DEF left
    <3> QED  BY <1>1, <1>4, <1>5, <2>1 DEF CoilType
  <2>3. finishNet'[c] = NetBack(j)[c]
    <3> HIDE DEF left, cleared
    <3> QED  BY <1>2, <2>1, UndoPosts
  <2>4. drawn'[j][c] = DrawnBack(j)[c] + use[c]
    BY <1>1, <1>2 DEF JobType
  <2> HIDE DEF left
  <2>5. drawn'[j][c] < drawn[j][c] \/ finishNet'[c] < finishNet[c]
    BY <1>1, <1>4, <2>2, <2>3, <2>4, UndoPosts DEF CoilType, LedgerType, JobType
  <2> QED  BY <2>5
<1> QED  BY <1>10, <1>11, <1>12, <1>13, <1>14, <1>16 DEF Keeps, IInv, TypeOK

\* What a restore of deleted jobs gives back to one coil.
LEMMA GivenNat ==
  ASSUME NEW on, on \in [Coils -> Nat], NEW net, net \in [Coils -> Int], NEW done,
         CoilType
  PROVE  GivenBack(on, net, done) \in [Coils -> Nat]
  BY DEF CoilType, GivenBack, Least, Clamp

LEMMA ForceRecallKeeps ==
  ASSUME IInv, NEW j \in Jobs, ForceRecall(j) PROVE Keeps
<1>1. QueueType /\ CoilType /\ LedgerType /\ JobType  BY DEF IInv, TypeOK
<1>2. PICK done \in SUBSET Held(DrawnBack(j)) :
        /\ remaining' = [c \in Coils |->
              BackOn(j)[c] + GivenBack(BackOn(j), DrawnBack(j), done)[c]]
        /\ drawn' = [drawn EXCEPT ![j] = [c \in Coils |->
              DrawnBack(j)[c] - GivenBack(BackOn(j), DrawnBack(j), done)[c]]]
        /\ Follow(Held(DrawnBack(j)), done)
  BY Zenon DEF ForceRecall
<1> DEFINE given == GivenBack(BackOn(j), DrawnBack(j), done)
           back == [c \in Coils |-> DrawnBack(j)[c] - given[c]]
           off == IF status[j] \in OpenStatuses THEN {} ELSE Rows(j)
<1>3. /\ status' = [status EXCEPT ![j] = "gone"]
      /\ opening' = [opening EXCEPT ![j] = [c \in Coils |-> 0]]
      /\ consumed' = [consumed EXCEPT ![j] = [c \in Coils |-> 0]]
      /\ tail' = [tail EXCEPT ![j] = TailBack(j)]
      /\ finishLogged' = [c \in Coils |-> finishLogged[c] \/ c \in Relogged(j)]
      /\ finishNet' = NetBack(j)
      /\ reserved' = Released(j, HeldAgain(j))
      /\ UNCHANGED <<received, parent, ancillary, confirmed, moves>>
      /\ MayLoosen(off) /\ MayDrift(Undone(j))
  BY Zenon DEF ForceRecall, RowsDeleted, register
<1>4. given \in [Coils -> Nat]  BY <1>1, UndoPosts, GivenNat
<1> HIDE DEF given
<1>5. remaining' \in [Coils -> Nat] /\ \A c \in Coils : remaining'[c] = BackOn(j)[c] + given[c]
  BY <1>2, <1>4, UndoPosts DEF given
<1>6. back \in [Coils -> Int] /\ drawn' = [drawn EXCEPT ![j] = back]
  <2>1. back \in [Coils -> Int]  BY <1>4, UndoPosts
  <2> QED  BY <2>1, <1>2 DEF given
<1>7. reserved' \in [Coils -> Nat] /\ \A c \in Coils : reserved'[c] <= HeldAgain(j)[c]
  BY <1>1, <1>3, UndoPosts, ReleasedLess
<1>8. CoilType' /\ ReservedFits'
  <2>1. \A c \in Coils : reserved'[c] <= remaining'[c]
    BY <1>4, <1>5, <1>7, UndoPosts
  <2> QED  BY <1>1, <1>3, <1>5, <1>7, <2>1 DEF CoilType, ReservedFits
<1>9. LedgerType'
  BY <1>1, <1>3, UndoPosts DEF LedgerType
<1>10. JobType'
  <2> HIDE DEF back
  <2>1. status' \in [Jobs -> Statuses]
    BY <1>1, <1>3 DEF JobType, Statuses, ClosedStatuses
  <2> QED  BY <1>1, <1>3, <1>6, <2>1, UndoPosts DEF JobType
<1>11. QueueType'
  <2>1. Undone(j) \in SUBSET Coils /\ off \in SUBSET Coils  BY DEF Undone, Rows
  <2> HIDE DEF off
  <2>2. loose' \in SUBSET Coils /\ drifted' \in SUBSET Coils
    BY <1>1, <1>3, <2>1, HistoryType
  <2> QED  BY <1>1, <1>2, <1>3, <2>2, FollowType DEF QueueType
<1>13. RestoreIsPosted
  <2> SUFFICES ASSUME NEW c \in Coils, remaining'[c] > remaining[c]
               PROVE  \/ finishNet'[c] < finishNet[c]
                      \/ \E i \in Jobs : drawn'[i][c] < drawn[i][c]
    BY Zenon DEF RestoreIsPosted
  <2>1. drawn'[j][c] = DrawnBack(j)[c] - given[c]  BY <1>1, <1>6 DEF JobType
  <2>2. finishNet'[c] = NetBack(j)[c]  BY <1>3
  <2>3. drawn'[j][c] < drawn[j][c] \/ finishNet'[c] < finishNet[c]
    BY <1>1, <1>4, <1>5, <2>1, <2>2, UndoPosts DEF CoilType, LedgerType, JobType
  <2> QED  BY <2>3
<1> QED  BY <1>8, <1>9, <1>10, <1>11, <1>13 DEF Keeps, IInv, TypeOK

LEMMA DeleteListKeeps ==
  ASSUME IInv, NEW j \in Jobs, DeleteList(j) PROVE Keeps
<1>1. QueueType /\ CoilType /\ LedgerType /\ JobType  BY DEF IInv, TypeOK
<1>2. PICK done \in SUBSET Held(drawn[j]) :
        /\ remaining' = [c \in Coils |-> remaining[c] + GivenBack(remaining, drawn[j], done)[c]]
        /\ drawn' = [drawn EXCEPT ![j] = [c \in Coils |->
              @[c] - GivenBack(remaining, drawn[j], done)[c]]]
        /\ Follow(Held(drawn[j]), done)
  BY Zenon DEF DeleteList
<1> DEFINE given == GivenBack(remaining, drawn[j], done)
<1>3. /\ status' = [status EXCEPT ![j] = "gone"]
      /\ opening' = [opening EXCEPT ![j] = [c \in Coils |-> 0]]
      /\ consumed' = [consumed EXCEPT ![j] = [c \in Coils |-> 0]]
      /\ UNCHANGED <<received, parent, ancillary, finishLogged, finishNet, confirmed, tail,
                     reserved, moves>>
      /\ Clean
  BY Zenon DEF DeleteList, RowsDeleted, register, ledger
<1>4. given \in [Coils -> Nat]
  <2>1. remaining \in [Coils -> Nat] /\ drawn[j] \in [Coils -> Int]
    BY <1>1 DEF CoilType, JobType
  <2> QED  BY <1>1, <2>1, GivenNat
<1> HIDE DEF given
<1>5. remaining' \in [Coils -> Nat] /\ \A c \in Coils : remaining'[c] = remaining[c] + given[c]
  BY <1>1, <1>2, <1>4 DEF given, CoilType
<1>6. drawn' \in [Jobs -> [Coils -> Int]] /\ \A c \in Coils : drawn'[j][c] = drawn[j][c] - given[c]
  BY <1>1, <1>2, <1>4 DEF given, JobType
<1>7. CoilType' /\ ReservedFits'
  BY <1>1, <1>3, <1>4, <1>5 DEF IInv, CoilType, ReservedFits
<1>8. LedgerType'  BY <1>1, <1>3 DEF LedgerType
<1>9. JobType'  BY <1>1, <1>3, <1>6 DEF JobType, Statuses, ClosedStatuses
<1>10. QueueType'  BY <1>1, <1>2, <1>3, FollowType, CleanType DEF QueueType
<1>12. RestoreIsPosted
  BY <1>1, <1>4, <1>5, <1>6 DEF CoilType, JobType, RestoreIsPosted
<1> QED  BY <1>7, <1>8, <1>9, <1>10, <1>12 DEF Keeps, IInv, TypeOK

-----------------------------------------------------------------------------
(* The register.                                                             *)

\* A register posting leaves jobs and the queue alone.
LEMMA OffTheJobs ==
  ASSUME IInv,
         UNCHANGED <<opening, consumed, drawn, tail, status, pending, lost>>,
         moves' \in 0..MaxMoves,
         loose' \in SUBSET Coils, drifted' \in SUBSET Coils
  PROVE  JobType' /\ QueueType'
<1>1. JobType'
  BY DEF IInv, TypeOK, JobType
<1>2. QueueType'  BY Zenon DEF IInv, TypeOK, QueueType
<1> QED  BY <1>1, <1>2

LEMMA ScrapKeeps ==
  ASSUME IInv, NEW c \in Coils, NEW kg \in Kg, Scrap(c, kg) PROVE Keeps
<1>1. QueueType /\ CoilType /\ LedgerType  BY DEF IInv, TypeOK
<1>2. /\ kg \in 1..(remaining[c] - reserved[c])
      /\ remaining' = [remaining EXCEPT ![c] = @ - kg]
      /\ ancillary' = [ancillary EXCEPT ![c] = @ - kg]
      /\ UNCHANGED <<received, parent, finishLogged, finishNet, confirmed, reserved>>
      /\ UNCHANGED <<opening, consumed, drawn, tail, status, pending, lost>>
      /\ Move /\ Clean
  BY Zenon DEF Scrap, register, rows, queue
<1>3. JobType' /\ QueueType'
  BY <1>1, <1>2, OffTheJobs, MoveType, CleanType
<1>4. CoilType' /\ ReservedFits' /\ LedgerType' /\ RestoreIsPosted
  BY <1>1, <1>2 DEF IInv, CoilType, ReservedFits, LedgerType, RestoreIsPosted
<1> QED  BY <1>3, <1>4 DEF Keeps, IInv, TypeOK

LEMMA GainKeeps ==
  ASSUME IInv, NEW c \in Coils, NEW kg \in Kg, Gain(c, kg) PROVE Keeps
<1>1. QueueType /\ CoilType /\ LedgerType  BY DEF IInv, TypeOK
<1>2. /\ remaining' = [remaining EXCEPT ![c] = @ + kg]
      /\ ancillary' = [ancillary EXCEPT ![c] = @ + kg]
      /\ UNCHANGED <<received, parent, finishLogged, finishNet, confirmed, reserved>>
      /\ UNCHANGED <<opening, consumed, drawn, tail, status, pending, lost>>
      /\ Move /\ Clean
  BY Zenon DEF Gain, register, rows, queue
<1>3. JobType' /\ QueueType'
  BY <1>1, <1>2, OffTheJobs, MoveType, CleanType
<1>4. kg \in Nat /\ kg > 0  BY CoilAssumption DEF Kg
<1>5. CoilType' /\ ReservedFits' /\ LedgerType' /\ RestoreIsPosted
  BY <1>1, <1>2, <1>4 DEF IInv, CoilType, ReservedFits, LedgerType, RestoreIsPosted
<1> QED  BY <1>3, <1>5 DEF Keeps, IInv, TypeOK

LEMMA PatchReceivedKeeps ==
  ASSUME IInv, NEW c \in Coils, NEW kg \in Kg, NEW rk \in {received[c] - kg, received[c] + kg},
         NEW on \in {remaining[c], rk}, PatchReceived(c, rk, on)
  PROVE  Keeps
<1> DEFINE off == {c} \cup {d \in Coils : parent[c] = d}
<1>1. QueueType /\ CoilType /\ LedgerType  BY DEF IInv, TypeOK
<1>2. /\ rk > 0 /\ (on = remaining[c] \/ on >= reserved[c])
      /\ received' = [received EXCEPT ![c] = rk]
      /\ remaining' = [remaining EXCEPT ![c] = on]
      /\ ancillary' = [ancillary EXCEPT ![c] = @ + on - remaining[c]]
      /\ UNCHANGED <<parent, finishLogged, finishNet, confirmed, reserved>>
      /\ UNCHANGED <<opening, consumed, drawn, tail, status, pending, lost>>
      /\ Move /\ MayLoosen({}) /\ MayDrift(off)
  BY Zenon DEF PatchReceived, rows, queue
<1>3. off \in SUBSET Coils /\ {} \in SUBSET Coils  OBVIOUS
<1> HIDE DEF off
<1>4. JobType' /\ QueueType'
  BY <1>1, <1>2, <1>3, OffTheJobs, MoveType, HistoryType
<1>5. rk \in Nat /\ on \in Nat
  BY <1>1, <1>2, CoilAssumption DEF CoilType, Kg
<1>6. CoilType' /\ ReservedFits' /\ LedgerType' /\ RestoreIsPosted
  BY <1>1, <1>2, <1>5 DEF IInv, CoilType, ReservedFits, LedgerType, RestoreIsPosted
<1> QED  BY <1>4, <1>6 DEF Keeps, IInv, TypeOK

LEMMA ScrapReservedKeeps ==
  ASSUME IInv, NEW c \in Coils, NEW kg \in Kg, NEW j \in Jobs, ScrapReserved(c, kg, j)
  PROVE  Keeps
<1> DEFINE left == remaining[c] - kg
<1>1. QueueType /\ CoilType /\ LedgerType /\ JobType  BY DEF IInv, TypeOK
<1>2. /\ left \in 0..(reserved[c] - 1)
      /\ remaining' = [remaining EXCEPT ![c] = left]
      /\ reserved' = [reserved EXCEPT ![c] = left]
      /\ ancillary' = [ancillary EXCEPT ![c] = @ - kg]
      /\ UNCHANGED <<received, parent, finishLogged, finishNet, confirmed>>
      /\ UNCHANGED <<consumed, drawn, tail, status, pending, lost>>
      /\ Move /\ Clean
  BY Zenon DEF ScrapReserved, register, queue
<1>3. PICK next \in [Jobs -> 0..MaxKg] :
        /\ \A i \in Jobs : IF status[i] \in OpenStatuses
                           THEN next[i] <= opening[i][c] ELSE next[i] = opening[i][c]
        /\ opening' = [i \in Jobs |-> [opening[i] EXCEPT ![c] = next[i]]]
  BY Zenon DEF ScrapReserved
<1>4. kg \in Nat /\ kg > 0 /\ \A i \in Jobs : next[i] \in Nat  BY CoilAssumption DEF Kg
<1>5. CoilType' /\ ReservedFits' /\ LedgerType' /\ RestoreIsPosted
  BY <1>1, <1>2, <1>4 DEF IInv, CoilType, ReservedFits, LedgerType, RestoreIsPosted
<1>6. JobType'
  BY <1>1, <1>2, <1>3, <1>4 DEF JobType
<1>7. QueueType'
  BY <1>1, <1>2, MoveType, CleanType, Zenon DEF QueueType
<1> QED  BY <1>5, <1>6, <1>7 DEF Keeps, IInv, TypeOK

LEMMA SplitKeeps ==
  ASSUME IInv, NEW c \in Coils, NEW d \in Coils, NEW kg \in Kg, Split(c, d, kg)
  PROVE  Keeps
<1>1. QueueType /\ CoilType /\ LedgerType  BY DEF IInv, TypeOK
<1>2. /\ received[c] > 0 /\ received[d] = 0
      /\ kg \in 1..(remaining[c] - reserved[c])
      /\ received' = [received EXCEPT ![d] = kg]
      /\ remaining' = [remaining EXCEPT ![c] = @ - kg, ![d] = kg]
      /\ reserved' = [reserved EXCEPT ![d] = 0]
      /\ parent' = [parent EXCEPT ![d] = c]
      /\ UNCHANGED <<ancillary, finishLogged, finishNet, confirmed>>
      /\ UNCHANGED <<opening, consumed, drawn, tail, status, pending, lost>>
      /\ Move /\ Clean
  BY Zenon DEF Split, ledger, rows, queue
<1>3. c # d  BY <1>2
<1>4. JobType' /\ QueueType'
  BY <1>1, <1>2, OffTheJobs, MoveType, CleanType
<1>5. CoilType' /\ ReservedFits' /\ LedgerType' /\ RestoreIsPosted
  BY <1>1, <1>2, <1>3 DEF IInv, CoilType, ReservedFits, LedgerType, RestoreIsPosted
<1> QED  BY <1>4, <1>5 DEF Keeps, IInv, TypeOK

LEMMA FinishRollKeeps ==
  ASSUME IInv, NEW c \in Coils, NEW confirm \in BOOLEAN, FinishRoll(c, confirm)
  PROVE  Keeps
<1> DEFINE off == IF confirm \/ OtherTails(c) \/ finishNet[c] < 0 THEN {c} ELSE {}
           counted == IF confirm THEN remaining[c] ELSE 0
<1>1. QueueType /\ CoilType /\ LedgerType  BY DEF IInv, TypeOK
<1>2. /\ reserved[c] = 0 /\ remaining[c] > 0
      /\ remaining' = [remaining EXCEPT ![c] = 0]
      /\ finishLogged' = [finishLogged EXCEPT ![c] = TRUE]
      /\ finishNet' = [finishNet EXCEPT ![c] = @ + remaining[c]]
      /\ confirmed' = [confirmed EXCEPT ![c] = @ + counted]
      /\ UNCHANGED <<received, parent, ancillary, reserved>>
      /\ UNCHANGED <<opening, consumed, drawn, tail, status, pending, lost>>
      /\ Move /\ MayLoosen({}) /\ MayDrift(off)
  BY Zenon DEF FinishRoll, register, rows, queue
<1>3. off \in SUBSET Coils /\ {} \in SUBSET Coils  BY Zenon
<1>4. counted \in Nat  BY <1>1 DEF CoilType
<1> HIDE DEF off, counted
<1>5. JobType' /\ QueueType'
  BY <1>1, <1>2, <1>3, OffTheJobs, MoveType, HistoryType
<1>6. CoilType' /\ ReservedFits' /\ RestoreIsPosted
  BY <1>1, <1>2 DEF IInv, CoilType, ReservedFits, RestoreIsPosted
<1>7. LedgerType'  BY <1>1, <1>2, <1>4 DEF LedgerType, CoilType
<1> QED  BY <1>5, <1>6, <1>7 DEF Keeps, IInv, TypeOK

LEMMA UndoFinishKeeps ==
  ASSUME IInv, NEW c \in Coils, NEW kg \in 1..TailMax, UndoFinish(c, kg) PROVE Keeps
<1> DEFINE off == IF kg = FinishTail(c) THEN {} ELSE {c}
<1>1. QueueType /\ CoilType /\ LedgerType  BY DEF IInv, TypeOK
<1>2. /\ remaining' = [remaining EXCEPT ![c] = @ + kg]
      /\ finishLogged' = [finishLogged EXCEPT ![c] = TRUE]
      /\ finishNet' = [finishNet EXCEPT ![c] = @ - kg]
      /\ UNCHANGED <<received, parent, ancillary, confirmed, reserved>>
      /\ UNCHANGED <<opening, consumed, drawn, tail, status, pending, lost>>
      /\ Move /\ MayLoosen({}) /\ MayDrift(off)
  BY Zenon DEF UndoFinish, register, rows, queue
<1>3. off \in SUBSET Coils /\ {} \in SUBSET Coils  BY Zenon
<1>4. kg \in Nat /\ kg > 0  BY CoilAssumption
<1> HIDE DEF off
<1>5. JobType' /\ QueueType'
  BY <1>1, <1>2, <1>3, OffTheJobs, MoveType, HistoryType
<1>6. CoilType' /\ ReservedFits' /\ LedgerType'
  BY <1>1, <1>2, <1>4 DEF IInv, CoilType, ReservedFits, LedgerType
<1>7. RestoreIsPosted
  BY <1>1, <1>2, <1>4 DEF CoilType, LedgerType, RestoreIsPosted
<1> QED  BY <1>5, <1>6, <1>7 DEF Keeps, IInv, TypeOK

\* What a restore puts on a coil is a natural number, and it takes as much off
\* the movements of deleted jobs and of confirmations.
LEMMA GivenKgNat ==
  ASSUME IInv, NEW c \in Coils
  PROVE  GivenKg(c) \in Nat /\ (GivenKg(c) > 0 => remaining[c] + GivenKg(c) <= received[c])
<1>1. CoilType /\ JobType /\ LedgerType  BY DEF IInv, TypeOK
<1>2. SumFunction([j \in Jobs |-> Owed(j, c)]) \in Nat
  <2> DEFINE owed == [j \in Jobs |-> Owed(j, c)]
  <2>1. owed \in [Jobs -> Nat]  BY <1>1, ClampNat DEF JobType, Owed
  <2> HIDE DEF owed
  <2>2. SumFunctionOnSet(owed, Jobs) \in Nat  BY <2>1, CoilAssumption, SumNat
  <2>3. DOMAIN owed = Jobs  BY <2>1
  <2>4. SumFunction(owed) \in Nat  BY <2>2, <2>3 DEF SumFunction
  <2> QED  BY <2>4 DEF owed
<1>3. Clamp(received[c] - remaining[c]) \in Nat  BY <1>1, ClampNat DEF CoilType
<1> QED  BY <1>1, <1>2, <1>3 DEF CoilType, LedgerType, GivenKg, Least, Clamp

LEMMA PostedType ==
  ASSUME IInv, NEW c \in Coils, NEW given, given \in [Jobs -> Nat],
         NEW conf \in Nat, conf <= confirmed[c], Posted(c, given, conf)
  PROVE  /\ drawn' \in [Jobs -> [Coils -> Int]] /\ confirmed' \in [Coils -> Nat]
         /\ \A j \in Jobs : drawn'[j][c] = drawn[j][c] - given[j]
         /\ confirmed'[c] = confirmed[c] - conf
  BY DEF IInv, TypeOK, JobType, LedgerType, Posted

LEMMA RestorePosts ==
  ASSUME IInv, NEW c \in Coils, NEW conf \in 0..GivenKg(c),
         NEW given \in [Jobs -> 0..GivenKg(c)], Restore(c, given, conf)
  PROVE  /\ GivenKg(c) \in Nat
         /\ drawn' \in [Jobs -> [Coils -> Int]] /\ confirmed' \in [Coils -> Nat]
         /\ GivenKg(c) > 0 => \/ confirmed'[c] < confirmed[c]
                              \/ \E j \in Jobs : drawn'[j][c] < drawn[j][c]
<1>1. CoilType /\ JobType /\ LedgerType  BY DEF IInv, TypeOK
<1>2. /\ SumFunction(given) + conf = GivenKg(c) /\ conf <= confirmed[c]
      /\ Posted(c, given, conf)
  BY Zenon DEF Restore
<1>3. GivenKg(c) \in Nat  BY GivenKgNat
<1>4. given \in [Jobs -> Nat] /\ conf \in Nat  BY <1>3
<1>5. /\ drawn' \in [Jobs -> [Coils -> Int]] /\ confirmed' \in [Coils -> Nat]
      /\ \A j \in Jobs : drawn'[j][c] = drawn[j][c] - given[j]
      /\ confirmed'[c] = confirmed[c] - conf
  BY <1>2, <1>4, PostedType
<1>6. ASSUME GivenKg(c) > 0, conf = 0 PROVE \E j \in Jobs : given[j] > 0
  <2>1. SumFunction(given) = SumFunctionOnSet(given, Jobs)
    BY DEF SumFunction
  <2>2. (\A j \in Jobs : given[j] = 0) => SumFunctionOnSet(given, Jobs) = 0
    BY CoilAssumption, SumZero
  <2>3. (\A j \in Jobs : given[j] = 0) \/ \E j \in Jobs : given[j] > 0
    BY <1>4
  <2> QED  BY <1>2, <1>3, <1>6, <2>1, <2>2, <2>3
<1>7. ASSUME GivenKg(c) > 0
      PROVE  confirmed'[c] < confirmed[c] \/ \E j \in Jobs : drawn'[j][c] < drawn[j][c]
  <2>1. CASE conf > 0  BY <1>1, <1>4, <1>5, <2>1 DEF LedgerType
  <2>2. CASE conf = 0
    <3>1. PICK j \in Jobs : given[j] > 0  BY <1>6, <1>7, <2>2
    <3>2. drawn'[j][c] < drawn[j][c]  BY <1>1, <1>4, <1>5, <3>1 DEF JobType
    <3> QED  BY <3>2
  <2> QED  BY <1>4, <2>1, <2>2
<1> QED  BY <1>3, <1>5, <1>7

\* A restore or a recalculation leaves the rows and the ledger of events alone.
LEMMA OffTheRows ==
  ASSUME IInv,
         UNCHANGED <<opening, consumed, tail, status, moves>>,
         UNCHANGED <<ancillary, finishLogged, finishNet>>,
         drawn' \in [Jobs -> [Coils -> Int]], confirmed' \in [Coils -> Nat]
  PROVE  JobType' /\ LedgerType'
  BY DEF IInv, TypeOK, JobType, LedgerType

LEMMA OffTheQueue ==
  ASSUME IInv, UNCHANGED <<pending, lost, moves>>, Clean PROVE QueueType'
<1>1. QueueType  BY DEF IInv, TypeOK
<1>2. loose' \in SUBSET Coils /\ drifted' \in SUBSET Coils  BY <1>1, CleanType
<1> QED  BY <1>1, <1>2, Zenon DEF QueueType

LEMMA ShowHoldersKeeps ==
  ASSUME IInv, NEW c \in Coils, ShowHolders(c) PROVE Keeps
<1>1. CoilType  BY DEF IInv, TypeOK
<1>2. PICK conf \in 0..GivenKg(c), given \in [Jobs -> 0..GivenKg(c)] : Restore(c, given, conf)
  BY Zenon DEF ShowHolders
<1>3. /\ remaining' = [remaining EXCEPT ![c] = @ + GivenKg(c)]
      /\ UNCHANGED <<opening, consumed, tail, status, moves>>
      /\ UNCHANGED <<ancillary, finishLogged, finishNet>>
      /\ UNCHANGED <<received, parent, reserved, pending, lost>> /\ Clean
  BY Zenon DEF ShowHolders, register, queue
<1>4. /\ GivenKg(c) \in Nat
      /\ drawn' \in [Jobs -> [Coils -> Int]] /\ confirmed' \in [Coils -> Nat]
      /\ GivenKg(c) > 0 => \/ confirmed'[c] < confirmed[c]
                           \/ \E j \in Jobs : drawn'[j][c] < drawn[j][c]
  BY <1>2, RestorePosts
<1>5. JobType' /\ QueueType' /\ LedgerType'
  BY <1>3, <1>4, OffTheRows, OffTheQueue
<1>6. CoilType' /\ ReservedFits'
  BY <1>1, <1>3, <1>4 DEF IInv, CoilType, ReservedFits
<1>7. RestoreIsPosted
  <2> SUFFICES ASSUME NEW d \in Coils, remaining'[d] > remaining[d]
               PROVE  \/ confirmed'[d] < confirmed[d]
                      \/ \E j \in Jobs : drawn'[j][d] < drawn[j][d]
    BY Zenon DEF RestoreIsPosted
  <2>1. d = c /\ GivenKg(c) > 0  BY <1>1, <1>3, <1>4 DEF CoilType
  <2> QED  BY <1>4, <2>1
<1> QED  BY <1>5, <1>6, <1>7 DEF Keeps, IInv, TypeOK

LEMMA RestoreDiesKeeps ==
  ASSUME IInv, NEW c \in Coils, RestoreDies(c) PROVE Keeps
<1>1. CoilType /\ QueueType  BY DEF IInv, TypeOK
<1>2. PICK kg \in 1..GivenKg(c), conf \in 0..GivenKg(c), given \in [Jobs -> 0..GivenKg(c)] :
        /\ conf <= confirmed[c]
        /\ remaining' = [remaining EXCEPT ![c] = @ + (SumFunction(given) + conf) + kg]
        /\ Posted(c, given, conf)
  BY Zenon DEF RestoreDies
<1>3. /\ Dies /\ MayLoosen({}) /\ MayDrift({c})
      /\ UNCHANGED <<opening, consumed, tail, status, moves>>
      /\ UNCHANGED <<ancillary, finishLogged, finishNet>>
      /\ UNCHANGED <<received, parent, reserved>>
  BY Zenon DEF RestoreDies, register
<1>4. kg \in Nat /\ conf \in Nat /\ given \in [Jobs -> Nat]  BY GivenKgNat
<1>5. drawn' \in [Jobs -> [Coils -> Int]] /\ confirmed' \in [Coils -> Nat]
  BY <1>2, <1>4, PostedType
<1>6. JobType' /\ LedgerType'  BY <1>3, <1>5, OffTheRows
<1>7. QueueType'
  <2>1. {c} \in SUBSET Coils /\ {} \in SUBSET Coils  OBVIOUS
  <2>2. loose' \in SUBSET Coils /\ drifted' \in SUBSET Coils
    BY <1>1, <1>3, <2>1, HistoryType
  <2> QED  BY <1>1, <1>3, <2>2, DiesType DEF QueueType
<1>8. SumFunction(given) \in Nat
  <2>1. SumFunctionOnSet(given, Jobs) \in Nat  BY <1>4, CoilAssumption, SumNat
  <2>2. DOMAIN given = Jobs  BY <1>4
  <2> QED  BY <2>1, <2>2 DEF SumFunction
<1>9. CoilType' /\ ReservedFits'
  BY <1>1, <1>2, <1>3, <1>4, <1>8 DEF IInv, CoilType, ReservedFits
<1>10. RestoreIsPosted
  <2> SUFFICES ASSUME NEW d \in Coils, remaining'[d] > remaining[d]
               PROVE  RestoreDies(d)
    BY Zenon DEF RestoreIsPosted
  <2>1. d = c  BY <1>1, <1>2 DEF CoilType
  <2> QED  BY <2>1
<1> QED  BY <1>6, <1>7, <1>9, <1>10 DEF Keeps, IInv, TypeOK

LEMMA RecalculateCoilKeeps ==
  ASSUME IInv, NEW c \in Coils, RecalculateCoil(c) PROVE Keeps
<1> DEFINE holders == {j \in Jobs : c \in Rows(j)}
           touched == UNION {Rows(j) : j \in holders}
           blocks(on, book, held) == book # on /\ book < held
           heldOf(on, book) ==
             IF holders # {} /\ ~blocks(on, book, reserved[c]) /\ OpenKg(c) \in 0..on
             THEN OpenKg(c) ELSE reserved[c]
           leftOf(on, book) == IF book \in heldOf(on, book)..on THEN book ELSE on
           freed(on, book) ==
             IF ~blocks(on, book, heldOf(on, book)) /\ OpenKg(c) \in 0..leftOf(on, book)
             THEN OpenKg(c) ELSE heldOf(on, book)
           aside(d) == IF d \in touched /\ Fits(d) /\ ~BookBlocks(d, reserved[d])
                       THEN OpenKg(d) ELSE reserved[d]
<1>1. CoilType /\ JobType /\ ReservedFits  BY DEF IInv, TypeOK
<1>2. /\ UNCHANGED <<opening, consumed, tail, status, moves>>
      /\ UNCHANGED <<ancillary, finishLogged, finishNet>>
      /\ UNCHANGED <<received, parent, pending, lost>> /\ Clean
  BY Zenon DEF RecalculateCoil, register, queue
<1>3. PICK conf \in 0..GivenKg(c), given \in [Jobs -> 0..GivenKg(c)] :
        /\ Restore(c, given, conf)
        /\ \E on \in {remaining[c] + GivenKg(c)}, book \in {Expected(c)'} :
             /\ remaining' = [remaining EXCEPT ![c] = leftOf(on, book)]
             /\ reserved' = [d \in Coils |-> IF d = c THEN freed(on, book) ELSE aside(d)]
  BY Zenon DEF RecalculateCoil
<1>3a. PICK on \in {remaining[c] + GivenKg(c)}, book \in {Expected(c)'} :
        /\ remaining' = [remaining EXCEPT ![c] = leftOf(on, book)]
        /\ reserved' = [d \in Coils |-> IF d = c THEN freed(on, book) ELSE aside(d)]
  BY <1>3, Zenon
<1> DEFINE held == heldOf(on, book)
           left == leftOf(on, book)
           free == freed(on, book)
<1>4. /\ GivenKg(c) \in Nat
      /\ drawn' \in [Jobs -> [Coils -> Int]] /\ confirmed' \in [Coils -> Nat]
      /\ GivenKg(c) > 0 => \/ confirmed'[c] < confirmed[c]
                           \/ \E j \in Jobs : drawn'[j][c] < drawn[j][c]
  BY <1>3, RestorePosts
<1>5. JobType' /\ QueueType' /\ LedgerType'
  BY <1>2, <1>4, OffTheRows, OffTheQueue
<1>6. on \in Nat /\ remaining[c] \in Nat /\ on >= remaining[c]
      /\ reserved[c] \in Nat /\ reserved[c] <= remaining[c]
  BY <1>1, <1>4 DEF CoilType, ReservedFits
<1>7. held \in Nat /\ held <= on
  <2> HIDE DEF holders, blocks
  <2> QED  BY <1>6
<1>8. left \in Nat /\ left <= on /\ held <= left
  <2>1. left = IF book \in held..on THEN book ELSE on  OBVIOUS
  <2> HIDE DEF held, left
  <2> QED  BY <1>6, <1>7, <2>1
<1>9. free \in Nat /\ free <= left
  <2>1. free \in {held} \/ (free = OpenKg(c) /\ OpenKg(c) \in 0..left)
    BY Zenon
  <2> HIDE DEF free, held, left
  <2> QED  BY <1>7, <1>8, <2>1
<1>10. \A d \in Coils : aside(d) \in Nat /\ aside(d) <= remaining[d]
  <2> HIDE DEF touched
  <2> QED  BY <1>1 DEF CoilType, ReservedFits, Fits
<1>11. /\ remaining' = [remaining EXCEPT ![c] = left]
       /\ reserved' = [d \in Coils |-> IF d = c THEN free ELSE aside(d)]
  BY <1>3a, Zenon
<1> HIDE DEF held, left, free, aside
<1>12. CoilType' /\ ReservedFits'
  BY <1>1, <1>2, <1>8, <1>9, <1>10, <1>11 DEF CoilType, ReservedFits
<1>13. RestoreIsPosted
  <2> SUFFICES ASSUME NEW d \in Coils, remaining'[d] > remaining[d]
               PROVE  \/ confirmed'[d] < confirmed[d]
                      \/ \E j \in Jobs : drawn'[j][d] < drawn[j][d]
    BY Zenon DEF RestoreIsPosted
  <2>1. d = c /\ left > remaining[c]
    BY <1>1, <1>11 DEF CoilType
  <2>2. GivenKg(c) > 0  BY <1>4, <1>6, <1>8, <2>1
  <2> QED  BY <1>4, <2>1, <2>2
<1> QED  BY <1>5, <1>12, <1>13 DEF Keeps, IInv, TypeOK

LEMMA ReconcileReservationKeeps ==
  ASSUME IInv, NEW c \in Coils, ReconcileReservation(c) PROVE Keeps
<1>1. CoilType /\ JobType /\ LedgerType  BY DEF IInv, TypeOK
<1>2. /\ UNCHANGED <<opening, consumed, tail, status, moves>>
      /\ UNCHANGED <<ancillary, finishLogged, finishNet, confirmed>>
      /\ UNCHANGED <<received, parent, remaining, drawn, pending, lost>> /\ Clean
      /\ Fits(c) /\ reserved' = [reserved EXCEPT ![c] = OpenKg(c)]
  BY Zenon DEF ReconcileReservation, register, ledger, rows, queue
<1>3. JobType' /\ QueueType' /\ LedgerType'
  BY <1>1, <1>2, OffTheRows, OffTheQueue DEF JobType, LedgerType
<1>4. CoilType' /\ ReservedFits' /\ RestoreIsPosted
  BY <1>1, <1>2 DEF IInv, CoilType, ReservedFits, Fits, RestoreIsPosted
<1> QED  BY <1>3, <1>4 DEF Keeps, IInv, TypeOK

LEMMA RecalculateJobKeeps ==
  ASSUME IInv, NEW j \in Jobs, NEW extra, RecalculateJob(j, extra) PROVE Keeps
<1>1. CoilType /\ JobType /\ LedgerType  BY DEF IInv, TypeOK
<1>2. /\ UNCHANGED <<opening, consumed, tail, status, moves>>
      /\ UNCHANGED <<ancillary, finishLogged, finishNet, confirmed>>
      /\ UNCHANGED <<received, parent, remaining, drawn, pending, lost>> /\ Clean
      /\ Recalculated(reserved, Rows(j) \cup extra)
  BY Zenon DEF RecalculateJob, register, ledger, rows, queue
<1>3. JobType' /\ QueueType' /\ LedgerType'
  BY <1>1, <1>2, OffTheRows, OffTheQueue DEF JobType, LedgerType
<1>4. reserved' \in [Coils -> Nat] /\ ReservedFits'
  BY <1>1, <1>2, RecalculatedFits DEF IInv, CoilType, ReservedFits
<1>5. CoilType' /\ RestoreIsPosted
  BY <1>1, <1>2, <1>4 DEF CoilType, RestoreIsPosted
<1> QED  BY <1>3, <1>4, <1>5 DEF Keeps, IInv, TypeOK

-----------------------------------------------------------------------------
(* The event loop.                                                           *)

LEMMA QueueShrinks ==
  ASSUME QueueType, pending # <<>>
  PROVE  Tail(pending) \in Seq([job : Jobs, extra : SUBSET Coils])
<1> DEFINE S == [job : Jobs, extra : SUBSET Coils]
<1>1. pending \in Seq(S)  BY DEF QueueType
<1> HIDE DEF S
<1>2. Tail(pending) \in Seq(S)  BY <1>1
<1> QED  BY <1>2 DEF S

LEMMA CallbackKeeps ==
  ASSUME IInv, RunDeferred \/ Crash PROVE Keeps
<1>1. QueueType /\ CoilType /\ JobType /\ LedgerType  BY DEF IInv, TypeOK
<1>2. /\ UNCHANGED <<received, parent, remaining, ancillary, finishLogged, finishNet,
                     confirmed>>
      /\ UNCHANGED <<opening, consumed, drawn, tail, status, moves>> /\ Clean
      /\ pending # <<>>
  BY Zenon DEF RunDeferred, Crash, register, ledger, rows
<1>3. \E touched : Recalculated(reserved, touched)
  BY Zenon DEF RunDeferred, Crash
<1>4. reserved' \in [Coils -> Nat] /\ ReservedFits'
  BY <1>1, <1>2, <1>3, RecalculatedFits DEF IInv, CoilType, ReservedFits
<1>5. CoilType' /\ LedgerType' /\ JobType' /\ RestoreIsPosted
  BY <1>1, <1>2, <1>4
  DEF IInv, CoilType, LedgerType, JobType, RestoreIsPosted
<1>6. lost' \in BOOLEAN /\ (pending' = <<>> \/ pending' = Tail(pending))
  BY <1>1, Zenon DEF QueueType, RunDeferred, Crash, Dies
<1>7. pending' \in Seq([job : Jobs, extra : SUBSET Coils])
  <2> DEFINE S == [job : Jobs, extra : SUBSET Coils]
  <2>1. Tail(pending) \in Seq(S)  BY <1>1, <1>2, QueueShrinks
  <2> HIDE DEF S
  <2>2. <<>> \in Seq(S)  OBVIOUS
  <2>3. pending' \in Seq(S)  BY <1>6, <2>1, <2>2, Zenon
  <2> QED  BY <2>3 DEF S
<1>8. QueueType'  BY <1>1, <1>2, <1>6, <1>7, CleanType, Zenon DEF QueueType
<1> QED  BY <1>4, <1>5, <1>8 DEF Keeps, IInv, TypeOK

-----------------------------------------------------------------------------

LEMMA StutterKeeps ==
  ASSUME IInv, UNCHANGED vars PROVE Keeps
<1>1. UNCHANGED <<received, parent, ancillary, finishLogged, finishNet, confirmed, opening,
                  consumed, drawn, tail, remaining, reserved, pending, lost, status, moves,
                  loose, drifted>>
  BY Zenon DEF vars, register, ledger, rows, stock, queue
<1>2. CoilType' /\ LedgerType' /\ JobType' /\ ReservedFits'
      /\ RestoreIsPosted
  BY <1>1 DEF IInv, TypeOK, CoilType, LedgerType, JobType, ReservedFits,
              RestoreIsPosted
<1>3. QueueType'  BY <1>1, Zenon DEF IInv, TypeOK, QueueType
<1> QED  BY <1>2, <1>3 DEF Keeps, IInv, TypeOK

LEMMA StepKeeps ==
  ASSUME IInv, [Next]_vars PROVE Keeps
<1>1. ASSUME NEW j \in Jobs, PlanningStep(j) PROVE Keeps
  BY <1>1, RegisterKeeps, SaveAllocationsKeeps, AppendCoilKeeps, StatusKeeps, RunLogKeeps,
     UnwindKeeps, RecalculateJobKeeps, Zenon DEF PlanningStep
<1>2. ASSUME NEW j \in Jobs, CompletionStep(j) PROVE Keeps
  BY <1>2, CompleteKeeps, CompleteWithoutCoilKeeps, CorrectKeeps, ForceRecallKeeps,
     DeleteListKeeps, Zenon DEF CompletionStep
<1>3. ASSUME NEW c \in Coils, RegisterStep(c) PROVE Keeps
  BY <1>3, ScrapKeeps, ScrapReservedKeeps, GainKeeps, PatchReceivedKeeps,
     SplitKeeps, FinishRollKeeps, UndoFinishKeeps, ReconcileReservationKeeps, ShowHoldersKeeps,
     RestoreDiesKeeps, RecalculateCoilKeeps, Zenon
  DEF RegisterStep, ReturnToStock
<1>4. CASE RunDeferred \/ Crash  BY <1>4, CallbackKeeps
<1>5. CASE UNCHANGED vars  BY <1>5, StutterKeeps
<1> QED  BY <1>1, <1>2, <1>3, <1>4, <1>5, Zenon DEF Next

\* Kg on hand and kg reserved stay natural numbers and every row keeps its
\* shape, however undo, release, recall and recalculation interleave.
THEOREM TypeCorrect == Spec => []TypeOK
<1>1. IInv /\ [Next]_vars => IInv'  BY StepKeeps DEF Keeps
<1>2. IInv => TypeOK  BY DEF IInv
<1> QED  BY InitIInv, <1>1, <1>2, PTL DEF Spec

\* No coil has more kg reserved than it has on hand.
THEOREM ReservationsFit == Spec => []ReservedFits
<1>1. IInv /\ [Next]_vars => IInv'  BY StepKeeps DEF Keeps
<1>2. IInv => ReservedFits  BY DEF IInv
<1> QED  BY InitIInv, <1>1, <1>2, PTL DEF Spec

\* Steel comes back onto a coil only with a posting that says so: the block on
\* restores in the recalculations (COIL_KG_RESTORE_BLOCKED) holds system-wide,
\* but for a process that dies between the two statements of a restore.
THEOREM RestoresArePosted == Spec => NoSilentRestore
<1>1. IInv /\ [Next]_vars => IInv'  BY StepKeeps DEF Keeps
<1>2. IInv /\ [Next]_vars => RestoreIsPosted  BY StepKeeps DEF Keeps
<1>3. IInv /\ [Next]_vars => [RestoreIsPosted]_vars  BY <1>2
<1> QED  BY InitIInv, <1>1, <1>3, PTL DEF Spec, NoSilentRestore
=============================================================================
